---------------------------- MODULE LoginProofs ----------------------------
(***************************************************************************)
(* What a login keeps and what it brings, proved for every number of       *)
(* sessions, codes and waiting lines.                                      *)
(***************************************************************************)
EXTENDS Login, TLAPS

\* No account holds a session the server has not issued yet, and every login starts
\* from an empty jar: what is in it was issued after the session in use.
SessionInv ==
  /\ file.account.session <= issued /\ acc.session <= issued /\ jar <= issued
  /\ jar # 0 => jar > acc.session
  /\ pc = "save" => jar # 0
  /\ pc = "boot" => jar = 0

\* While a program runs, the disk has the session it uses or none.
StoreInv == pc # "boot" => LoadAccount(file).session \in {0, acc.session}

IInv == TypeOK /\ SessionInv /\ StoreInv /\ AccountKept

USE DEF flow, locals, server, terminal, vars, Nobody, Blank, Command

LEMMA Basics ==
  /\ MaxSession \in Nat \ {0} /\ MaxCode \in Nat \ {0}
  /\ 0 \in Line /\ Command \in Line /\ 0 \in 0 .. MaxSession /\ 0 \in 0 .. MaxCode
  /\ \A k \in 0 .. MaxCode : \A l \in 0 .. k : l \in Line
  /\ NoAccount \in Account /\ NoAccount.session = 0
  /\ \A f \in File : /\ f.account \in Account
                     /\ LoadAccount(f) \in Account
                     /\ LoadAccount(f).session <= f.account.session
  /\ \A a \in Account : a.session \in 0 .. MaxSession
<1>1. MaxSession \in Nat \ {0} /\ MaxCode \in Nat \ {0}
  BY LoginAssumption DEF LoginAssumption
<1>2. NoAccount \in Account /\ NoAccount.session = 0
  BY <1>1 DEF NoAccount, Account
<1>3. ASSUME NEW f \in File
      PROVE  /\ f.account \in Account /\ LoadAccount(f) \in Account
             /\ LoadAccount(f).session <= f.account.session
  <2>1. f.account \in Account /\ f.account.session \in 0 .. MaxSession
    BY DEF File, Account
  <2>2. CASE ~Readable(f)
    BY <1>1, <1>2, <2>1, <2>2 DEF LoadAccount
  <2>3. CASE Readable(f) /\ f.shape = "string"
    <3>1. LoadAccount(f) = [NoAccount EXCEPT !.session = f.account.session]
      BY <2>3 DEF LoadAccount
    <3>2. LoadAccount(f) = [phone |-> FALSE, session |-> f.account.session, device |-> "none"]
      BY <3>1 DEF NoAccount
    <3>3. QED
      BY <1>1, <2>1, <3>2 DEF Account
  <2>4. CASE Readable(f) /\ f.shape # "string"
    BY <1>1, <2>1, <2>4 DEF LoadAccount
  <2>5. QED
    BY <2>2, <2>3, <2>4
<1>4. \A a \in Account : a.session \in 0 .. MaxSession
  BY DEF Account
<1>5. 0 \in Line /\ -1 \in Line /\ 0 \in 0 .. MaxSession /\ 0 \in 0 .. MaxCode
  BY <1>1 DEF Line
<1>6. \A k \in 0 .. MaxCode : \A l \in 0 .. k : l \in Line
  BY <1>1 DEF Line
<1>7. QED
  BY <1>1, <1>2, <1>3, <1>4, <1>5, <1>6

LEMMA InitInv == Init => IInv
<1> SUFFICES ASSUME Init PROVE IInv
  OBVIOUS
<1>1. file \in File /\ file.account.session <= 1 /\ file.account.session \in 0 .. MaxSession
  BY Basics DEF Init, FirstFile, File, Account
<1>2. TypeOK
  <2>1. buffer \in [Reader -> Seq(Line)] /\ input \in Seq(Line)
    BY DEF Init
  <2>2. file \in File /\ acc \in Account /\ known \in Account
    BY <1>1, Basics DEF Init
  <2>3. jar \in 0 .. MaxSession /\ answer \in Line /\ issued \in 1 .. MaxSession /\ sent \in 0 .. MaxCode
    BY Basics DEF Init, Line
  <2>4. QED
    BY <2>1, <2>2, <2>3 DEF Init, TypeOK
<1>3. SessionInv /\ StoreInv /\ AccountKept
  BY <1>1, Basics DEF Init, SessionInv, StoreInv, AccountKept, Keeps
<1>4. QED
  BY <1>2, <1>3 DEF IInv

\* What a login that fails leaves behind.
LEMMA FailedStep ==
  Failed => pc' \in {"retry", "exit"} /\ jar' = 0 /\ answer' = 0 /\ mfaDone' = FALSE
BY DEF Failed, Return

\* Only Boot, Save and Restart touch what AccountKept is about.
LEMMA AccountUntouched ==
  ASSUME AccountKept, pc # "boot" \/ pc' = "boot", UNCHANGED <<file, acc, known>>
  PROVE  AccountKept'
BY DEF AccountKept, Keeps

LEMMA TypeStep == TypeOK /\ [Next]_vars => TypeOK'
<1> SUFFICES ASSUME TypeOK, [Next]_vars PROVE TypeOK'
  OBVIOUS
<1> USE Basics
<1>1. CASE Boot
  <2>1. acc' \in Account /\ known' \in Account
    BY <1>1 DEF Boot, TypeOK
  <2>2. QED
    BY <1>1, <2>1 DEF Boot, BeginLogin, TypeOK, LoggingIn, Sms, Qr
<1>2. CASE Save
  <2>1. LoggedIn \in Account
    BY <1>2 DEF LoggedIn, TypeOK, Account
  <2>2. file' \in File /\ acc' \in Account
    BY <1>2, <2>1 DEF Save, TypeOK, File
  <2>3. QED
    BY <1>2, <2>2, FailedStep DEF Save, Return, TypeOK
<1>3. CASE Probe
  BY <1>3 DEF Probe, BeginLogin, LoggingIn, Sms, Qr, TypeOK
<1>4. CASE LoopAgain
  BY <1>4 DEF LoopAgain, TypeOK
<1>5. CASE SmsSend
  <2>1. sent' \in 0 .. MaxCode
    BY <1>5, FailedStep DEF SmsSend, TypeOK
  <2>2. QED
    BY <1>5, <2>1, FailedStep DEF SmsSend, Ask, TypeOK, LoggingIn, Sms, Qr
<1>6. CASE SmsLogin
  <2>1. issued' \in 1 .. MaxSession /\ jar' \in 0 .. MaxSession
    BY <1>6, FailedStep DEF SmsLogin, Issue, TypeOK
  <2>2. QED
    BY <1>6, <2>1, FailedStep DEF SmsLogin, Issue, TypeOK, LoggingIn, Sms, Qr
<1>7. CASE QrGet
  BY <1>7, FailedStep DEF QrGet, Ask, TypeOK, LoggingIn, Sms, Qr
<1>8. CASE QrExpire
  BY <1>8, FailedStep DEF QrExpire, TypeOK, LoggingIn, Sms, Qr
<1>9. CASE QrVerify
  BY <1>9, FailedStep DEF QrVerify, Ask, TypeOK, LoggingIn, Sms, Qr
<1>10. CASE QrConfirmed
  BY <1>10, FailedStep DEF QrConfirmed, Issue, TypeOK, LoggingIn, Sms, Qr
<1>11. CASE QrInfo
  BY <1>11, FailedStep DEF QrInfo, Ask, TypeOK, LoggingIn, Sms, Qr
<1>12. CASE MfaSend
  <2>1. sent' \in 0 .. MaxCode
    BY <1>12, FailedStep DEF MfaSend, TypeOK
  <2>2. QED
    BY <1>12, <2>1, FailedStep DEF MfaSend, Ask, TypeOK, LoggingIn, Sms, Qr
<1>13. CASE MfaCheck
  BY <1>13, FailedStep DEF MfaCheck, TypeOK, LoggingIn, Sms, Qr
<1>14. CASE PromptReturns
  <2>1. Head(buffer["prompt"]) \in Line
    BY <1>14 DEF PromptReturns, TypeOK, Reader
  <2>2. buffer' \in [Reader -> Seq(Line)]
    <3>1. <<>> \in Seq(Line) /\ buffer \in [Reader -> Seq(Line)]
      BY DEF TypeOK
    <3>2. buffer' = [buffer EXCEPT !["prompt"] = <<>>]
      BY <1>14 DEF PromptReturns
    <3>3. QED
      BY <3>1, <3>2
  <2>3. QED
    BY <1>14, <2>1, <2>2, FailedStep DEF PromptReturns, TypeOK, LoggingIn, Sms, Qr
<1>15. CASE SenderLine
  <2>1. Tail(buffer["sender"]) \in Seq(Line)
    BY <1>15 DEF SenderLine, TypeOK, Reader
  <2>2. QED
    BY <1>15, <2>1 DEF SenderLine, TypeOK
<1>16. CASE Type
  <2>1. PICK l \in {Command} \cup (IF Prompting THEN 0 .. sent ELSE {}) : input' = Append(input, l)
    BY <1>16 DEF Type
  <2>2. l \in Line
    BY <2>1 DEF TypeOK
  <2>3. QED
    BY <1>16, <2>1, <2>2 DEF Type, TypeOK
<1>17. CASE CloseInput
  BY <1>17 DEF CloseInput, TypeOK
<1>18. ASSUME NEW r \in Reader, EnterRead(r) PROVE TypeOK'
  BY <1>18 DEF EnterRead, TypeOK
<1>19. ASSUME NEW r \in Reader, ReadLines(r) PROVE TypeOK'
  <2>1. PICK n \in 1 .. Len(input) :
          /\ buffer' = [buffer EXCEPT ![r] = SubSeq(input, 1, n)]
          /\ input' = SubSeq(input, n + 1, Len(input))
    BY <1>19 DEF ReadLines
  <2>2. input \in Seq(Line)
    BY DEF TypeOK
  <2>3. SubSeq(input, 1, n) \in Seq(Line) /\ SubSeq(input, n + 1, Len(input)) \in Seq(Line)
    BY <2>2
  <2>4. QED
    BY <1>19, <2>1, <2>3 DEF ReadLines, TypeOK
<1>20. ASSUME NEW r \in Reader, ReadEnd(r) PROVE TypeOK'
  <2>1. <<0>> \in Seq(Line) /\ <<>> \in Seq(Line)
    BY Basics
  <2>2. QED
    BY <1>20, <2>1 DEF ReadEnd, TypeOK
<1>21. CASE Restart
  <2>1. buffer' \in [Reader -> Seq(Line)] /\ input' \in Seq(Line)
    BY <1>21 DEF Restart, NewTerminal
  <2>2. QED
    BY <1>21, <2>1 DEF Restart, Return, NewTerminal, TypeOK
<1>22. CASE UNCHANGED vars
  BY <1>22 DEF TypeOK
<1>23. QED
  BY <1>1, <1>2, <1>3, <1>4, <1>5, <1>6, <1>7, <1>8, <1>9, <1>10, <1>11, <1>12, <1>13, <1>14, <1>15, <1>16, <1>17, <1>18, <1>19, <1>20, <1>21, <1>22
  DEF Next, MainStep, ServerStep

LEMMA SessionStep == TypeOK /\ SessionInv /\ [Next]_vars => SessionInv'
<1> SUFFICES ASSUME TypeOK, SessionInv, [Next]_vars PROVE SessionInv'
  OBVIOUS
<1> USE Basics DEF TypeOK, SessionInv
<1>1. CASE Boot
  <2>1. acc' \in Account /\ acc'.session <= file.account.session
    BY <1>1 DEF Boot
  <2>2. UNCHANGED <<file, server>> /\ jar' \in {0, jar} /\ pc' # "save"
    BY <1>1 DEF Boot, BeginLogin
  <2>3. jar = 0
    BY <1>1 DEF Boot
  <2>4. QED
    BY <2>1, <2>2, <2>3
<1>2. CASE Save
  BY <1>2, FailedStep DEF Save, Return, LoggedIn
<1>3. CASE Probe
  BY <1>3 DEF Probe, BeginLogin
<1>4. CASE LoopAgain
  BY <1>4 DEF LoopAgain
<1>5. CASE SmsSend
  BY <1>5, FailedStep DEF SmsSend, Ask
<1>6. CASE SmsLogin
  <2>1. CASE issued' = issued + 1 /\ jar' = issued' /\ pc' = "save"
    BY <1>6, <2>1 DEF SmsLogin
  <2>2. CASE issued' \in {issued, issued + 1} /\ Failed
    BY <1>6, <2>2, FailedStep DEF SmsLogin
  <2>3. QED
    BY <1>6, <2>1, <2>2 DEF SmsLogin, Issue
<1>7. CASE QrGet
  BY <1>7, FailedStep DEF QrGet, Ask
<1>8. CASE QrExpire
  BY <1>8, FailedStep DEF QrExpire
<1>9. CASE QrVerify
  BY <1>9 DEF QrVerify, Ask
<1>10. CASE QrConfirmed
  BY <1>10 DEF QrConfirmed, Issue
<1>11. CASE QrInfo
  BY <1>11, FailedStep DEF QrInfo, Ask
<1>12. CASE MfaSend
  BY <1>12, FailedStep DEF MfaSend, Ask
<1>13. CASE MfaCheck
  BY <1>13, FailedStep DEF MfaCheck
<1>14. CASE PromptReturns
  BY <1>14, FailedStep DEF PromptReturns, Prompting
<1>15. CASE SenderLine
  BY <1>15 DEF SenderLine
<1>16. CASE Type
  BY <1>16 DEF Type
<1>17. CASE CloseInput
  BY <1>17 DEF CloseInput
<1>18. ASSUME NEW r \in Reader, EnterRead(r) \/ ReadLines(r) \/ ReadEnd(r) PROVE SessionInv'
  BY <1>18 DEF EnterRead, ReadLines, ReadEnd
<1>19. CASE Restart
  BY <1>19 DEF Restart, Return
<1>20. CASE UNCHANGED vars
  BY <1>20
<1>21. QED
  BY <1>1, <1>2, <1>3, <1>4, <1>5, <1>6, <1>7, <1>8, <1>9, <1>10, <1>11, <1>12, <1>13, <1>14, <1>15, <1>16, <1>17, <1>18, <1>19, <1>20
  DEF Next, MainStep, ServerStep

LEMMA AccountStep == TypeOK /\ AccountKept /\ [Next]_vars => AccountKept'
<1> SUFFICES ASSUME TypeOK, AccountKept, [Next]_vars PROVE AccountKept'
  OBVIOUS
<1>1. CASE Boot
  <2>1. file' = file /\ acc' = LoadAccount(file)
    BY <1>1 DEF Boot
  <2>2. CASE Readable(file)
    <3>1. known' = known /\ Keeps(acc')
      BY <1>1, <2>1, <2>2 DEF Boot, AccountKept
    <3>2. QED
      BY <2>1, <3>1 DEF AccountKept, Keeps
  <2>3. CASE ~Readable(file)
    <3>1. known' = NoAccount /\ acc' = NoAccount
      BY <1>1, <2>1, <2>3 DEF Boot, LoadAccount
    <3>2. QED
      BY <2>1, <2>3, <3>1 DEF AccountKept, Keeps, NoAccount
  <2>4. QED
    BY <2>2, <2>3
<1>2. CASE Save
  <2>1. pc # "boot" /\ UNCHANGED known
    BY <1>2 DEF Save
  <2>2. Keeps(acc) /\ Keeps(LoggedIn)
    BY <2>1 DEF AccountKept, Keeps, LoggedIn
  <2>3. CASE file' = [shape |-> "object", account |-> LoggedIn] /\ acc' = LoggedIn
    <3>1. file'.shape = "object" /\ file'.account = LoggedIn
      BY <2>3
    <3>2. Readable(file') => LoadAccount(file') = LoggedIn
      BY <3>1 DEF LoadAccount
    <3>3. QED
      BY <2>1, <2>2, <2>3, <3>2 DEF AccountKept, Keeps
  <2>4. CASE file' = [shape |-> "torn", account |-> NoAccount] /\ UNCHANGED acc
    <3>1. ~Readable(file')
      BY <2>4 DEF Readable
    <3>2. QED
      BY <2>1, <2>2, <2>4, <3>1 DEF AccountKept, Keeps
  <2>5. CASE UNCHANGED <<file, acc>>
    BY <2>1, <2>5, AccountUntouched
  <2>6. QED
    BY <1>2, <2>3, <2>4, <2>5 DEF Save
<1>3. CASE Restart
  BY <1>3, AccountUntouched DEF Restart
<1>4. CASE UNCHANGED <<file, acc, known>> /\ (pc # "boot" \/ pc' = pc)
  BY <1>4, AccountUntouched
<1>5. ASSUME NEW r \in Reader, EnterRead(r) \/ ReadLines(r) \/ ReadEnd(r) PROVE UNCHANGED <<file, acc, known, pc>>
  BY <1>5 DEF EnterRead, ReadLines, ReadEnd
<1>6. (Probe \/ LoopAgain \/ SmsSend \/ SmsLogin \/ QrGet \/ QrExpire \/ QrVerify \/ QrConfirmed \/ QrInfo
        \/ MfaSend \/ MfaCheck \/ PromptReturns)
      => UNCHANGED <<file, acc, known>> /\ pc # "boot"
  BY DEF Probe, LoopAgain, SmsSend, SmsLogin, QrGet, QrExpire, QrVerify, QrConfirmed, QrInfo,
         MfaSend, MfaCheck, PromptReturns, Prompting
<1>7. SenderLine \/ Type \/ CloseInput \/ UNCHANGED vars => UNCHANGED <<file, acc, known, pc>>
  BY DEF SenderLine, Type, CloseInput
<1>8. QED
  BY <1>1, <1>2, <1>3, <1>4, <1>5, <1>6, <1>7 DEF Next, MainStep, ServerStep

\* Which steps touch the session in use and the one on disk.
LEMMA SessionUntouched ==
  ASSUME [Next]_vars, ~Boot, ~Save
  PROVE  UNCHANGED <<file, acc>> /\ (pc = "boot" => pc' = "boot")
<1>1. ASSUME NEW r \in Reader, EnterRead(r) \/ ReadLines(r) \/ ReadEnd(r) PROVE UNCHANGED <<file, acc, pc>>
  BY <1>1 DEF EnterRead, ReadLines, ReadEnd
<1>2. CASE Restart
  BY <1>2 DEF Restart
<1>3. Probe \/ LoopAgain \/ SmsSend \/ SmsLogin \/ QrGet \/ QrExpire \/ QrVerify \/ QrConfirmed \/ QrInfo
        \/ MfaSend \/ MfaCheck \/ PromptReturns
      => UNCHANGED <<file, acc>> /\ pc # "boot"
  BY DEF Probe, LoopAgain, SmsSend, SmsLogin, QrGet, QrExpire, QrVerify, QrConfirmed, QrInfo,
         MfaSend, MfaCheck, PromptReturns, Prompting
<1>4. SenderLine \/ Type \/ CloseInput \/ UNCHANGED vars => UNCHANGED <<file, acc, pc>>
  BY DEF SenderLine, Type, CloseInput
<1>5. QED
  BY <1>1, <1>2, <1>3, <1>4 DEF Next, MainStep, ServerStep

\* What a restart finds after a save that succeeded, and after one that broke off.
LEMMA Saved ==
  ASSUME TypeOK, SessionInv, Save
  PROVE  \/ acc' = LoggedIn /\ LoadAccount(file').session = jar /\ LoggedIn.session = jar
         \/ UNCHANGED acc /\ LoadAccount(file').session = 0
         \/ UNCHANGED <<acc, file>>
<1>1. LoggedIn.session = jar /\ jar \in Nat /\ jar # 0
  BY Basics DEF LoggedIn, Save, SessionInv, TypeOK
<1>2. CASE file' = [shape |-> "object", account |-> LoggedIn] /\ acc' = LoggedIn
  <2>1. file'.shape = "object" /\ file'.account = LoggedIn
    BY <1>2
  <2>2. LoadAccount(file') = LoggedIn
    BY <1>1, <2>1 DEF LoadAccount, Readable
  <2>3. QED
    BY <1>1, <1>2, <2>2
<1>3. CASE file' = [shape |-> "torn", account |-> NoAccount] /\ UNCHANGED acc
  BY <1>3 DEF LoadAccount, Readable, NoAccount
<1>4. QED
  BY <1>2, <1>3 DEF Save

LEMMA StoreStep == TypeOK /\ SessionInv /\ StoreInv /\ [Next]_vars => StoreInv'
<1> SUFFICES ASSUME TypeOK, SessionInv, StoreInv, [Next]_vars PROVE StoreInv'
  OBVIOUS
<1>1. CASE Boot
  BY <1>1 DEF Boot, StoreInv
<1>2. CASE Save
  BY <1>2, Saved DEF StoreInv, Save
<1>3. CASE ~Boot /\ ~Save
  BY <1>3, SessionUntouched DEF StoreInv
<1>4. QED
  BY <1>1, <1>2, <1>3

\* Every reachable state satisfies the inductive invariant.
THEOREM LoginInvariant == Spec => []IInv
<1>1. Init => IInv
  BY InitInv
<1>2. IInv /\ [Next]_vars => IInv'
  BY TypeStep, SessionStep, StoreStep, AccountStep DEF IInv
<1>3. QED
  BY <1>1, <1>2, PTL DEF Spec

\* Types of the login and of the terminal, for any bounds.
THEOREM LoginTypeCorrect == Spec => []TypeOK
<1>1. IInv => TypeOK
  BY DEF IInv
<1>2. QED
  BY <1>1, LoginInvariant, PTL

\* Phone and device id outlive every login, every failure and every restart but one with a
\* file that cannot be read.
THEOREM PhoneAndDeviceSurvive == Spec => []AccountKept
<1>1. IInv => AccountKept
  BY DEF IInv
<1>2. QED
  BY <1>1, LoginInvariant, PTL

\* Only a session that is newer than the one in use is ever saved.
THEOREM LoginBringsNewSession == Spec => []NewSession
<1>1. IInv => NewSession
  BY DEF IInv, SessionInv, NewSession
<1>2. QED
  BY <1>1, LoginInvariant, PTL

-----------------------------------------------------------------------------
\* The promise of a login.

Stored == LoadAccount(file).session
Used == [u \in {"bot"} |-> acc.session]

LEMMA StepImplements ==
  ASSUME IInv, [Next]_vars
  PROVE  [Credentials!Next]_(Credentials!credentials)
<1> USE DEF IInv
<1>1. Stored \in Nat /\ acc.session \in Nat /\ jar \in Nat /\ issued \in Nat
  BY Basics DEF TypeOK, Stored
<1>2. CASE Boot
  <2>1. Used' = [u \in {"bot"} |-> IF u \in {"bot"} THEN Stored ELSE Used[u]]
    BY <1>2 DEF Boot, Used, Stored
  <2>2. UNCHANGED <<issued, Stored>>
    BY <1>2 DEF Boot, Stored
  <2>3. CASE Stored = 0
    <3>1. Credentials!Forget
      BY <2>1, <2>2, <2>3 DEF Credentials!Forget, Credentials!Turn, Used, Stored
    <3>2. QED
      BY <3>1 DEF Credentials!Next
  <2>4. CASE Stored # 0
    <3>1. Credentials!Use
      BY <2>1, <2>2, <2>4 DEF Credentials!Use, Credentials!Turn, Used, Stored
    <3>2. QED
      BY <3>1 DEF Credentials!Next
  <2>5. QED
    BY <2>3, <2>4
<1>3. CASE Save
  <2>1. UNCHANGED issued /\ jar \in 1 .. issued /\ jar > acc.session /\ jar > Stored
    BY <1>1, <1>3 DEF Save, SessionInv, StoreInv, Stored
  <2>2. CASE acc' = LoggedIn /\ Stored' = jar /\ LoggedIn.session = jar
    <3>1. Used' = [u \in {"bot"} |-> IF u \in {"bot"} THEN jar ELSE Used[u]]
      BY <2>2 DEF Used
    <3>2. \E k \in 1 .. issued :
            /\ k > Stored /\ \A u \in {"bot"} : k > Used[u]
            /\ Stored' = k
            /\ \E U \in SUBSET {"bot"} : Used' = [u \in {"bot"} |-> IF u \in U THEN k ELSE Used[u]]
      BY <2>1, <2>2, <3>1 DEF Used
    <3>3. Credentials!Save
      BY <2>1, <3>2 DEF Credentials!Save, Credentials!Turn, Used, Stored
    <3>4. QED
      BY <3>3 DEF Credentials!Next
  <2>3. CASE UNCHANGED acc /\ Stored' = 0
    <3>1. Credentials!Lose
      BY <2>1, <2>3 DEF Credentials!Lose, Stored
    <3>2. QED
      BY <3>1 DEF Credentials!Next
  <2>4. CASE UNCHANGED <<acc, file>>
    BY <2>1, <2>4 DEF Credentials!credentials
  <2>5. QED
    BY <1>3, <2>2, <2>3, <2>4, Saved DEF Stored
<1>4. CASE ~Boot /\ ~Save
  <2>1. UNCHANGED <<file, acc>>
    BY <1>4, SessionUntouched
  <2>2. CASE issued' = issued + 1
    <3>1. Credentials!Issue
      BY <2>1, <2>2 DEF Credentials!Issue
    <3>2. QED
      BY <3>1 DEF Credentials!Next
  <2>3. CASE UNCHANGED issued
    BY <2>1, <2>3 DEF Credentials!credentials
  <2>4. issued' \in {issued, issued + 1}
    <3>1. ASSUME NEW r \in Reader, EnterRead(r) \/ ReadLines(r) \/ ReadEnd(r) PROVE UNCHANGED issued
      BY <3>1 DEF EnterRead, ReadLines, ReadEnd
    <3>2. SmsLogin \/ QrConfirmed => issued' \in {issued, issued + 1}
      BY DEF SmsLogin, QrConfirmed, Issue
    <3>3. Probe \/ LoopAgain \/ SmsSend \/ QrGet \/ QrExpire \/ QrVerify \/ QrInfo \/ MfaSend
            \/ MfaCheck \/ PromptReturns \/ Restart \/ SenderLine \/ Type \/ CloseInput
            \/ UNCHANGED vars => UNCHANGED issued
      BY DEF Probe, LoopAgain, SmsSend, QrGet, QrExpire, QrVerify, QrInfo, MfaSend, MfaCheck,
             PromptReturns, Restart, SenderLine, Type, CloseInput
    <3>4. QED
      BY <1>4, <3>1, <3>2, <3>3 DEF Next, MainStep, ServerStep
  <2>5. QED
    BY <2>2, <2>3, <2>4
<1>5. QED
  BY <1>2, <1>3, <1>4

\* Both login flows, the first start and every restart keep the promise of a login.
THEOREM LoginImplementsCredentials == Spec => ImplementsCredentials
<1>1. Init => Credentials!Init
  <2> SUFFICES ASSUME Init PROVE Credentials!Init
    OBVIOUS
  <2>1. file \in File /\ file.account.session \in 0 .. 1 /\ issued = 1
    BY Basics DEF Init, FirstFile
  <2>2. Stored \in 0 .. issued
    BY <2>1, Basics DEF Stored
  <2>3. Used = [u \in {"bot"} |-> 0]
    BY Basics DEF Init, Used
  <2>4. QED
    BY <2>1, <2>2, <2>3 DEF Credentials!Init, Stored, Used
<1>2. IInv /\ [Next]_vars => [Credentials!Next]_(Credentials!credentials)
  BY StepImplements
<1>3. QED
  BY <1>1, <1>2, LoginInvariant, PTL DEF Spec, ImplementsCredentials, Credentials!Spec

-----------------------------------------------------------------------------
(* What is safety in LoginEnds: how many steps a login can have before it.  *)

\* Behind the poll, which the second factor returns to once, come the reply that brings
\* the session and the save; the SMS flow has no way back.
StepsAhead ==
  CASE pc = "save" -> 1
    [] pc \in {"qr_info", "sms_login"} -> 2
    [] pc = "sms_prompt" \/ (pc = "qr_poll" /\ mfaDone) -> 3
    [] pc \in {"sms_send", "mfa_check"} -> 4
    [] pc = "mfa_prompt" -> 5
    [] pc = "mfa_send" -> 6
    [] pc = "qr_poll" /\ ~mfaDone -> 7
    [] pc = "qr_get" -> 8
    [] OTHER -> 0

StepsAheadShrink ==
  [][(pc \in LoggingIn) => IF MainStep \/ ServerStep
                           THEN pc' \notin LoggingIn \/ StepsAhead' < StepsAhead
                           ELSE pc' = "boot" \/ StepsAhead' = StepsAhead]_vars

\* Whatever the server answers and the terminal brings, a login under way has at most
\* eight steps ahead, each of its own steps and each answer it acts on shortens that or
\* ends it, and nothing else but a restart touches it.
THEOREM LoginComesToAnEnd ==
  Spec => [](pc \in LoggingIn => StepsAhead \in 1 .. 8) /\ StepsAheadShrink
<1> USE DEF StepsAhead, LoggingIn, Sms, Qr
<1>1. TypeOK => (pc \in LoggingIn => StepsAhead \in 1 .. 8)
  <2> SUFFICES ASSUME TypeOK, pc \in LoggingIn PROVE StepsAhead \in 1 .. 8
    OBVIOUS
  <2>1. mfaDone \in BOOLEAN
    BY DEF TypeOK
  <2>2. QED
    BY <2>1
<1>2. ASSUME TypeOK, [Next]_vars, pc \in LoggingIn
      PROVE  IF MainStep \/ ServerStep
             THEN pc' \notin LoggingIn \/ StepsAhead' < StepsAhead
             ELSE pc' = "boot" \/ StepsAhead' = StepsAhead
  <2> DEFINE Shorter == pc' \notin LoggingIn \/ StepsAhead' < StepsAhead
  <2>1. mfaDone \in BOOLEAN
    BY <1>2 DEF TypeOK
  <2>2. Failed => Shorter
    BY DEF Failed
  <2>3. Boot \/ Probe \/ LoopAgain => FALSE
    BY <1>2 DEF Boot, Probe, LoopAgain
  <2>4. Save => Shorter
    BY <2>2 DEF Save
  <2>5. SmsSend \/ SmsLogin \/ PromptReturns => Shorter
    BY <1>2, <2>2 DEF SmsSend, SmsLogin, PromptReturns, Ask, Prompting
  <2>6. QrGet \/ QrExpire \/ QrInfo \/ MfaSend => Shorter
    BY <2>1, <2>2 DEF QrGet, QrExpire, QrInfo, MfaSend, Ask
  <2>7. MfaCheck \/ QrVerify \/ QrConfirmed => Shorter
    BY <2>1, <2>2 DEF MfaCheck, QrVerify, QrConfirmed, Ask
  <2>8. CASE MainStep \/ ServerStep
    BY <2>8, <2>3, <2>4, <2>5, <2>6, <2>7 DEF MainStep, ServerStep
  <2>9. CASE ~(MainStep \/ ServerStep)
    <3>1. ASSUME NEW r \in Reader, EnterRead(r) \/ ReadLines(r) \/ ReadEnd(r)
          PROVE  UNCHANGED <<pc, mfaDone>>
      BY <3>1 DEF EnterRead, ReadLines, ReadEnd
    <3>2. SenderLine \/ Type \/ CloseInput \/ UNCHANGED vars => UNCHANGED <<pc, mfaDone>>
      BY DEF SenderLine, Type, CloseInput
    <3>3. Restart => pc' = "boot"
      BY DEF Restart
    <3>4. UNCHANGED <<pc, mfaDone>> \/ pc' = "boot"
      BY <1>2, <2>9, <3>1, <3>2, <3>3 DEF Next
    <3>5. UNCHANGED <<pc, mfaDone>> => StepsAhead' = StepsAhead
      OBVIOUS
    <3>6. QED
      BY <2>9, <3>4, <3>5
  <2>10. QED
    BY <2>8, <2>9
<1>3. QED
  BY <1>1, <1>2, LoginTypeCorrect, PTL DEF Spec, StepsAheadShrink
============================================================================
