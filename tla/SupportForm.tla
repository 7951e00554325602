----------------------------- MODULE SupportForm -----------------------------
(***************************************************************************)
(* The support form (contact in app/fc_support.py, the form's script in    *)
(* static/fc-support.html) behind its rate limiter: the honeypot, the      *)
(* configuration, the limiter, a mail to the team and a reply to the       *)
(* visitor, each of which the mail service may take, refuse or take        *)
(* without an answer.                                                      *)
(*                                                                         *)
(* A worker is a visitor with one message who sends it again on an error;  *)
(* the workers share one e-mail address, the key of the limiter. The       *)
(* handler runs on the event loop and lets others go on while it awaits    *)
(* the mail service. A key of the threads' endpoints has no mails.         *)
(***************************************************************************)
EXTENDS RateLimiter, SequencesExt

VARIABLES
  configured, \* RESEND_API_KEY and SUPPORT_TO are set
  bot,        \* who fills in the field that people do not see
  mail,       \* the mail that a request awaits, or "none"
  inbox,      \* the team's mailbox: whose messages reached it, in order
  told        \* what the visitor's form shows

formVars == <<configured, bot, mail, inbox, told>>

FormInit ==
  /\ Init
  /\ configured \in BOOLEAN
  /\ bot \in [Workers -> BOOLEAN]
  /\ mail = [w \in Workers |-> "none"]
  /\ inbox = <<>>
  /\ told = [w \in Workers |-> "nothing"]

Tell(w, what) == told' = [told EXCEPT ![w] = what]

\* The form's button works again once the answer is there, and the form is
\* emptied when the answer was ok.
MaySend(w) == stage[w] = "idle" /\ mail[w] = "none" /\ told[w] # "ok"
-----------------------------------------------------------------------------
\* contact: a filled honeypot is thanked, and nothing else done.
Honeypot(w) ==
  /\ endpoint = "loop" /\ MaySend(w) /\ bot[w]
  /\ Tell(w, "ok")
  /\ UNCHANGED <<configured, bot, mail, inbox, vars>>

\* 503 without a key for the mail service.
NotConfigured(w) ==
  /\ endpoint = "loop" /\ MaySend(w) /\ ~bot[w] /\ ~configured
  /\ Tell(w, "error")
  /\ UNCHANGED <<configured, bot, mail, inbox, vars>>

\* _rate_limit is called, which counts the call before any mail is sent.
Contact(w) ==
  /\ endpoint = "loop" => MaySend(w) /\ ~bot[w] /\ configured
  /\ Call(w)
  /\ UNCHANGED formVars

\* Faulty variant: the handler goes on after a 429 as well.
LimitedAnyhow(w) ==
  /\ Step(w)
  /\ mail' = IF endpoint = "loop" /\ stage'[w] = "idle"
             THEN [mail EXCEPT ![w] = "team"] ELSE mail
  /\ UNCHANGED <<configured, bot, inbox, told>>

\* The limiter goes on; the handler after it, or the 429.
Limited(w) ==
  /\ Step(w)
  /\ mail' = IF endpoint = "loop" /\ stage[w] = "append"
             THEN [mail EXCEPT ![w] = "team"] ELSE mail
  /\ told' = IF endpoint = "loop" /\ stage[w] # "append" /\ stage'[w] = "idle"
             THEN [told EXCEPT ![w] = "error"] ELSE told
  /\ UNCHANGED <<configured, bot, inbox>>

\* Faulty variant: the status of the mail service's answer is not looked at.
ProceedAnyhow(w, taken, answered) == answered

\* _send returns: the service took the mail and said so in time. It raises for
\* any other status, and for no answer within 20 seconds.
Proceed(w, taken, answered) == taken /\ answered

\* The two mails, one after the other; an error of either ends the request.
Mail(w) ==
  /\ mail[w] # "none"
  /\ \E taken, answered \in BOOLEAN :
       /\ inbox' = IF taken /\ mail[w] = "team" THEN Append(inbox, w) ELSE inbox
       /\ mail' = [mail EXCEPT ![w] =
            IF mail[w] = "team" /\ Proceed(w, taken, answered) THEN "reply" ELSE "none"]
       /\ IF mail[w] = "team" /\ Proceed(w, taken, answered) THEN UNCHANGED told
          ELSE Tell(w, IF Proceed(w, taken, answered) THEN "ok" ELSE "error")
  /\ UNCHANGED <<configured, bot, vars>>

FormNext ==
  \/ \E w \in Workers :
       Honeypot(w) \/ NotConfigured(w) \/ Contact(w) \/ Limited(w) \/ Mail(w)
  \/ Tick /\ UNCHANGED formVars

\* Threads are preempted, never stopped; the mail service answers or times out.
FormSpec ==
  /\ FormInit /\ [][FormNext]_<<vars, formVars>>
  /\ \A w \in Workers : WF_<<vars, formVars>>(Limited(w) \/ Mail(w))
-----------------------------------------------------------------------------
\* Who is thanked has been heard: the mail to the team went out, and the mail
\* service took it. (A bot is thanked and not heard.)
OkWasHeard == \A w \in Workers : told[w] = "ok" => (w \in Range(inbox) <=> ~bot[w])

\* The team gets no more mails than the limiter has let calls through, however
\* often visitors send again what seems to have failed.
MailsWereAllowed == Len(inbox) <= Len(allowed)

\* Every request that was taken up is answered: the purge loop ends whatever
\* other threads append, and each of the two mails is sent or fails.
RequestsEnd ==
  \A w \in Workers :
    stage[w] # "idle" \/ mail[w] # "none" ~> stage[w] = "idle" /\ mail[w] = "none"
=============================================================================
