------------------------------- MODULE Login -------------------------------
(***************************************************************************)
(* How the bot gets an account: what cookie.json may hold when it starts,  *)
(* the two login flows request by request, and the terminal on which the   *)
(* code of an SMS is typed.  During the main loop the goroutine            *)
(* stdinSender reads the same standard input for "@<conv_id> <text>".      *)
(*                                                                         *)
(* Abstractions: a session is the number under which the server issued it, *)
(* a code the number of the SMS that carried it; a phone number is there   *)
(* or not; a device id is none, old (from the file) or new (generated).    *)
(* Every request may fail, be refused or be answered with nonsense.        *)
(* EngineLoop has the main loop itself, and the file write step by step.   *)
(***************************************************************************)
EXTENDS Integers, Sequences

CONSTANTS MaxSession,  \* bound: the server issues sessions 1 .. MaxSession
          MaxCode,     \* bound: the server sends codes 1 .. MaxCode
          MaxLines     \* bound: lines waiting on standard input

ASSUME LoginAssumption == {MaxSession, MaxCode, MaxLines} \subseteq Nat \ {0}

VARIABLES
  pc,        \* where the main goroutine is
  command,   \* "run" or "login", the command line
  looping,   \* runEngineLoop and stdinSender have started
  file,      \* cookie.json
  acc,       \* the account the program works with
  known,     \* history: the first account, none once a start could not read the file
  jar,       \* session in the cookie jar of the login, 0 for none
  answer,    \* what the last prompt returned
  mfaDone,   \* the second factor of a QR login was given
  issued,    \* sessions issued by the server
  sent,      \* codes sent by the server
  input,     \* lines typed and not read yet
  closed,    \* standard input has ended
  reading,   \* who is inside Read on standard input, Nobody if none
  buffer     \* what each reader has read and not used

flow == <<command, looping, known>>
locals == <<jar, answer, mfaDone>>
server == <<issued, sent>>
terminal == <<input, closed, reading, buffer>>
vars == <<pc, file, acc, locals, flow, server, terminal>>

Nobody == "nobody"
Reader == {"prompt", "sender"}
Blank == 0
Line == -1 .. MaxCode
Command == -1             \* a line that starts with "@"

Sms == {"sms_send", "sms_prompt", "sms_login"}
Qr == {"qr_get", "qr_poll", "mfa_send", "mfa_prompt", "mfa_check", "qr_info"}
LoggingIn == Sms \cup Qr \cup {"save"}
Prompting == pc \in {"sms_prompt", "mfa_prompt"}

-----------------------------------------------------------------------------
(* cookie.json: an object, a bare cookie, or nothing usable.  An array of   *)
(* one is read like its element, a longer one is as good as no file.        *)

Account == [phone : BOOLEAN, session : 0 .. MaxSession, device : {"none", "old", "new"}]
NoAccount == [phone |-> FALSE, session |-> 0, device |-> "none"]
File == [shape : {"missing", "torn", "object", "string"}, account : Account]

Readable(f) ==
  \/ f.shape = "string" /\ f.account.session > 0
  \/ f.shape = "object" /\ (f.account.session > 0 \/ f.account.phone)

LoadAccount(f) ==
  IF ~Readable(f) THEN NoAccount
  ELSE IF f.shape = "string" THEN [NoAccount EXCEPT !.session = f.account.session]
  ELSE f.account

\* The file a user may have put there or an earlier run may have left.
FirstFile ==
  {f \in File : /\ f.account.session < 2
                /\ f.account.device # "new"
                /\ ~Readable(f) => f.account = NoAccount}

-----------------------------------------------------------------------------
(* Entering and leaving a login.                                            *)

\* Variant: the client of the old cookie is kept for the login.
BeginLoginOldJar(a) ==
  /\ pc' = IF a.phone THEN "sms_send" ELSE "qr_get"
  /\ jar' = a.session /\ UNCHANGED <<answer, mfaDone>>

\* loginAndSave with the phone and the device of a, and a new client with an empty jar.
BeginLogin(a) ==
  /\ pc' = IF a.phone THEN "sms_send" ELSE "qr_get"
  /\ jar' = 0 /\ UNCHANGED <<answer, mfaDone>>

\* The client and what it was told are gone when the login returns.
Return == jar' = 0 /\ answer' = Blank /\ mfaDone' = FALSE

\* A login that fails ends the program, except inside the main loop, which tries again.
Failed ==
  /\ pc' = IF looping THEN "retry" ELSE "exit"
  /\ Return


Boot ==
  /\ pc = "boot"
  /\ acc' = LoadAccount(file)
  /\ known' = IF Readable(file) THEN known ELSE NoAccount
  /\ command' \in {"run", "login"}
  /\ IF command' = "login" \/ acc'.session = 0
     THEN BeginLogin(acc')
     ELSE pc' = "probe" /\ UNCHANGED locals
  /\ UNCHANGED <<looping, file, server, terminal>>

\* ProbeCookie may say anything of any session: a request that fails counts as
\* usable, a reply that cannot be read as expired.  The first probe is that of runCli.
Probe ==
  /\ pc = "probe"
  /\ \/ pc' = (IF looping THEN "serve" ELSE "probe") /\ looping' = TRUE /\ UNCHANGED locals
     \/ BeginLogin(acc) /\ UNCHANGED looping
  /\ UNCHANGED <<command, known, file, acc, server, terminal>>

\* The session on the IM connection ends, or the pause after a failed login does.
LoopAgain ==
  /\ pc \in {"serve", "retry"}
  /\ pc' = "probe"
  /\ UNCHANGED <<file, acc, locals, flow, server, terminal>>

\* Variant: the account is built from the login's result alone.
LoggedInNoPhone == [phone |-> FALSE, session |-> jar, device |-> IF acc.device = "none" THEN "new" ELSE acc.device]

\* The account a login yields: phone and device of the one it started from.
LoggedIn == [phone   |-> acc.phone,
             session |-> jar,
             device  |-> IF acc.device = "none" THEN "new" ELSE acc.device]

\* Variant of Save: the account is used although it could not be saved.
SaveLenient ==
  /\ pc = "save"
  /\ file' \in {[shape |-> "object", account |-> LoggedIn], [shape |-> "torn", account |-> NoAccount]}
  /\ acc' = LoggedIn
  /\ pc' = IF command = "login" THEN "exit" ELSE IF looping THEN "serve" ELSE "probe"
  /\ looping' = (command = "run")
  /\ Return
  /\ UNCHANGED <<command, known, server, terminal>>

Save ==
  /\ pc = "save"
  /\ \/ /\ file' = [shape |-> "object", account |-> LoggedIn]
        /\ acc' = LoggedIn
        /\ pc' = IF command = "login" THEN "exit" ELSE IF looping THEN "serve" ELSE "probe"
        /\ looping' = (command = "run")
        /\ Return
     \/ /\ file' \in {file, [shape |-> "torn", account |-> NoAccount]}
        /\ Failed
        /\ UNCHANGED <<acc, looping>>
  /\ UNCHANGED <<command, known, server, terminal>>

-----------------------------------------------------------------------------
(* SMSLogin: send_code, the prompt, sms_login.                              *)

Ask(prompt) == pc' = prompt /\ UNCHANGED locals

\* The code may have gone out although the reply got lost.
SmsSend ==
  /\ pc = "sms_send"
  /\ \/ sent < MaxCode /\ sent' = sent + 1 /\ (Ask("sms_prompt") \/ Failed)
     \/ Failed /\ UNCHANGED sent
  /\ UNCHANGED <<file, acc, flow, issued, terminal>>

\* The server's answer to the last step of a login: a session, with its cookie.
Issue == issued < MaxSession /\ issued' = issued + 1

\* Success without the session cookie is a failure, and so is a reply that got lost.
SmsLogin ==
  /\ pc = "sms_login"
  /\ \/ answer = sent /\ Issue /\ jar' = issued' /\ pc' = "save" /\ UNCHANGED <<answer, mfaDone>>
     \/ answer = sent /\ Issue /\ Failed
     \/ Failed /\ UNCHANGED issued
  /\ UNCHANGED <<file, acc, flow, sent, terminal>>

-----------------------------------------------------------------------------
(* QRLogin: get_qrcode, check_qrconnect every two seconds until the code    *)
(* expires, at most one second factor by SMS.  A poll that fails or finds   *)
(* any other status changes nothing.                                        *)

QrGet ==
  /\ pc = "qr_get"
  /\ Ask("qr_poll") \/ Failed
  /\ UNCHANGED <<file, acc, flow, server, terminal>>

\* Variant: only a code that was verified expires.
QrExpireVerified == mfaDone /\ pc = "qr_poll" /\ Failed /\ UNCHANGED <<file, acc, flow, server, terminal>>

\* expireAt has come: no step but this one is left to a QR code nobody confirms.
QrExpire == pc = "qr_poll" /\ Failed /\ UNCHANGED <<file, acc, flow, server, terminal>>

QrVerify ==
  /\ pc = "qr_poll" /\ ~mfaDone
  /\ Ask("mfa_send")
  /\ UNCHANGED <<file, acc, flow, server, terminal>>

QrConfirmed ==
  /\ pc = "qr_poll"
  /\ Issue
  /\ jar' \in {issued', jar}
  /\ pc' = "qr_info"
  /\ UNCHANGED <<file, acc, answer, mfaDone, flow, sent, terminal>>

\* account/info: only for the name, but its reply, too, may delete a cookie.  Then the
\* session must be in the jar.
QrInfo ==
  /\ pc = "qr_info"
  /\ \/ jar # 0 /\ Ask("save")
     \/ Failed
  /\ UNCHANGED <<file, acc, flow, server, terminal>>

\* What the reply to send_code says is not looked at: the prompt comes with or without a code.
MfaSend ==
  /\ pc = "mfa_send"
  /\ sent' \in {sent, IF sent < MaxCode THEN sent + 1 ELSE sent}
  /\ Ask("mfa_prompt") \/ Failed
  /\ UNCHANGED <<file, acc, flow, issued, terminal>>

MfaCheck ==
  /\ pc = "mfa_check"
  /\ \/ answer = sent /\ answer > 0 /\ mfaDone' = TRUE /\ pc' = "qr_poll" /\ UNCHANGED <<jar, answer>>
     \/ Failed
  /\ UNCHANGED <<file, acc, flow, server, terminal>>

-----------------------------------------------------------------------------
(* Standard input.  One Read at a time is inside the system call; the other *)
(* reader waits for the lock of the file.  A Read takes what is there: one  *)
(* line of a terminal, any number of lines of a pipe.                       *)

Wants(r) ==
  /\ buffer[r] = <<>>
  /\ IF r = "prompt" THEN Prompting ELSE looping /\ (closed => input # <<>>)

EnterRead(r) ==
  /\ reading = Nobody /\ Wants(r)
  /\ reading' = r
  /\ UNCHANGED <<pc, file, acc, locals, flow, server, input, closed, buffer>>

ReadLines(r) ==
  /\ reading = r
  /\ \E n \in 1 .. Len(input) :
        /\ buffer' = [buffer EXCEPT ![r] = SubSeq(input, 1, n)]
        /\ input' = SubSeq(input, n + 1, Len(input))
  /\ reading' = Nobody
  /\ UNCHANGED <<pc, file, acc, locals, flow, server, closed>>

\* At the end of the input a prompt returns an empty line; the sender stops.
ReadEnd(r) ==
  /\ reading = r /\ closed /\ input = <<>>
  /\ buffer' = [buffer EXCEPT ![r] = IF r = "prompt" THEN <<Blank>> ELSE <<>>]
  /\ reading' = Nobody
  /\ UNCHANGED <<pc, file, acc, locals, flow, server, input, closed>>

\* PromptSmsCode returns one line; the reader is used once, and what it read beyond the
\* line goes with it.  SMSLogin refuses an empty line, doMfa submits it.
PromptReturns ==
  /\ Prompting /\ buffer["prompt"] # <<>>
  /\ buffer' = [buffer EXCEPT !["prompt"] = <<>>]
  /\ LET line == Head(buffer["prompt"])
     IN  IF pc = "sms_prompt" /\ line = Blank
         THEN Failed
         ELSE /\ pc' = IF pc = "sms_prompt" THEN "sms_login" ELSE "mfa_check"
              /\ answer' = line /\ UNCHANGED <<jar, mfaDone>>
  /\ UNCHANGED <<file, acc, flow, server, input, closed, reading>>

\* stdinSender passes over every line that does not start with "@".
SenderLine ==
  /\ buffer["sender"] # <<>>
  /\ buffer' = [buffer EXCEPT !["sender"] = Tail(@)]
  /\ UNCHANGED <<pc, file, acc, locals, flow, server, input, closed, reading>>

\* The user: a command at any time, a code (of this SMS or an older one) or nothing when asked.
Type ==
  /\ ~closed /\ Len(input) < MaxLines
  /\ \E l \in {Command} \cup (IF Prompting THEN 0 .. sent ELSE {}) : input' = Append(input, l)
  /\ UNCHANGED <<pc, file, acc, locals, flow, server, closed, reading, buffer>>

CloseInput ==
  /\ ~closed /\ closed' = TRUE
  /\ UNCHANGED <<pc, file, acc, locals, flow, server, input, reading, buffer>>

-----------------------------------------------------------------------------
NewTerminal ==
  /\ input' = <<>> /\ closed' = FALSE /\ reading' = Nobody
  /\ buffer' = [r \in Reader |-> <<>>]

Restart ==
  /\ pc # "boot"
  /\ pc' = "boot" /\ looping' = FALSE
  /\ Return
  /\ NewTerminal
  /\ UNCHANGED <<command, known, file, acc, server>>

Init ==
  /\ pc = "boot" /\ command = "run" /\ looping = FALSE
  /\ file \in FirstFile
  /\ acc = NoAccount /\ known = LoadAccount(file)
  /\ jar = 0 /\ answer = Blank /\ mfaDone = FALSE
  /\ issued = 1 /\ sent = 0
  /\ input = <<>> /\ closed = FALSE /\ reading = Nobody
  /\ buffer = [r \in Reader |-> <<>>]

\* What the program does on its own, and what comes only if the server says so.
MainStep ==
  \/ Boot \/ Probe \/ LoopAgain \/ Save
  \/ SmsSend \/ SmsLogin
  \/ QrGet \/ QrExpire \/ QrInfo \/ MfaSend \/ MfaCheck
  \/ PromptReturns

ServerStep == QrVerify \/ QrConfirmed

Next ==
  \/ MainStep \/ ServerStep \/ SenderLine
  \/ \E r \in Reader : EnterRead(r) \/ ReadLines(r) \/ ReadEnd(r)
  \/ Type \/ CloseInput \/ Restart

\* The scheduler runs the goroutines and the clock goes on; every request has a time
\* limit of 30 s (NewClient); a user who is asked types something sooner or later.
Fairness ==
  /\ WF_vars(MainStep) /\ WF_vars(SenderLine)
  /\ \A r \in Reader : WF_vars(EnterRead(r)) /\ WF_vars(ReadLines(r)) /\ WF_vars(ReadEnd(r))
  /\ WF_vars(Prompting /\ Type)

Spec == Init /\ [][Next]_vars /\ Fairness

-----------------------------------------------------------------------------
TypeOK ==
  /\ pc \in {"boot", "probe", "serve", "retry", "exit"} \cup LoggingIn
  /\ command \in {"run", "login"} /\ looping \in BOOLEAN
  /\ file \in File /\ acc \in Account /\ known \in Account
  /\ jar \in 0 .. MaxSession /\ answer \in Line
  /\ mfaDone \in BOOLEAN
  /\ issued \in 1 .. MaxSession /\ sent \in 0 .. MaxCode
  /\ input \in Seq(Line) /\ closed \in BOOLEAN
  /\ reading \in Reader \cup {Nobody}
  /\ buffer \in [Reader -> Seq(Line)]

Keeps(a) == /\ a.phone = known.phone
            /\ known.device # "none" => a.device = known.device

\* However many logins fail, succeed or break off while they are saved, and however often
\* the program is started again, the account in use and any that cookie.json holds have the
\* phone of the first one, and its device id if it had one: the next login takes the same
\* path (main.go:160, 366).  Only a start with a file that cannot be read, as a write that
\* broke off leaves it (config.go:100), begins anew, without either.
AccountKept ==
  /\ pc # "boot" => Keeps(acc)
  /\ Readable(file) => Keeps(LoadAccount(file))

\* A login reported as successful brings a session the server issued after the one in
\* use: an old cookie, or none, is never saved as the result of a login (qrlogin.go:105).
NewSession == pc = "save" => jar > acc.session

\* The session in use and the one on disk, as the promise of a login sees them.
Credentials == INSTANCE Credentials WITH
  User   <- {"bot"},
  stored <- LoadAccount(file).session,
  used   <- [u \in {"bot"} |-> acc.session]

\* Whatever the first file was, however a login went and wherever its save broke off: the
\* program turns to a session only once it is saved, and saves only a newer one than it
\* uses and than a restart would find (main.go:160).
ImplementsCredentials == Credentials!Spec

\* A login at start comes to an end whatever the server answers: the program starts or
\* says why it does not; it is never left polling a QR code or waiting for an answer the
\* user gave (qrlogin.go:67).
LoginEnds == (pc \in LoggingIn /\ ~looping) ~> pc \notin LoggingIn

\* What the README promises of a cookie that expires: the terminal asks for the code and
\* the code typed there is used.  No code may end up with stdinSender.
AnswersReachThePrompt == \A i \in 1 .. Len(buffer["sender"]) : buffer["sender"][i] <= Blank
=============================================================================
