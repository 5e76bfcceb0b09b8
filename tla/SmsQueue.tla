------------------------------ MODULE SmsQueue ------------------------------
(***************************************************************************)
(* The queue that delivers one-time codes: queueSms adds a job, and the    *)
(* smsWorker of the API and worker processes sends its message.            *)
(*                                                                         *)
(* A job is what one execution of the add leaves: a code that was asked    *)
(* for once has two of them when the client lost the answer to its command *)
(* and sent it again.  A stalled job goes back to the queue although the   *)
(* worker that had it may only have been slow: that worker goes on, sends  *)
(* if it has not sent yet, and its end is no longer heard.                 *)
(***************************************************************************)
EXTENDS Integers, FiniteSets

CONSTANTS
    Messages,                   \* the jobs that may be added
    Senders,                    \* workers of the queue, one in each process
    Nothing,
    MaxAttempts, MaxStalls      \* BullMQ: attempts of a job (3), and stalls (1)

ASSUME SmsConstants ==
    /\ IsFiniteSet(Senders)
    /\ Nothing \notin Messages \cup Senders
    /\ MaxAttempts \in Nat \ {0} /\ MaxStalls \in Nat

VARIABLES
    sms,        \* sms[m]: the job of m
    sending,    \* sending[w]: the job worker w runs, and whether it has sent
    left        \* history: left[m]: the messages that have left for job m

smsVars == <<sms, sending, left>>

SmsJobs ==
    [state : {"none", "waiting", "active", "completed", "failed"}, by : Senders \cup {Nothing},
     tries : 0..MaxAttempts, stalls : 0..(MaxStalls + 1)]

NoSms == [state |-> "none", by |-> Nothing, tries |-> 0, stalls |-> 0]

Sendings == [job : Messages \cup {Nothing}, at : {"idle", "send", "sent"}]

Resting == [job |-> Nothing, at |-> "idle"]

SmsInit ==
    /\ sms = [m \in Messages |-> NoSms]
    /\ sending = [w \in Senders |-> Resting]
    /\ left = [m \in Messages |-> 0]

\* queueSms: smsQueue.add is executed.
AddSms(m) ==
    /\ sms[m].state = "none"
    /\ sms' = [sms EXCEPT ![m].state = "waiting"]
    /\ UNCHANGED <<sending, left>>

TakeSms(w, m) ==
    /\ sending[w] = Resting
    /\ sms[m].state = "waiting"
    /\ sms' = [sms EXCEPT ![m].state = "active", ![m].by = w]
    /\ sending' = [sending EXCEPT ![w] = [job |-> m, at |-> "send"]]
    /\ UNCHANGED left

\* sendTemplateSms: the message leaves.
Send(w) ==
    /\ sending[w].at = "send"
    /\ left' = [left EXCEPT ![sending[w].job] = @ + 1]
    /\ sending' = [sending EXCEPT ![w].at = "sent"]
    /\ UNCHANGED sms

\* Whether the end of w's run is heard: the job is still w's.
Holds(w) == LET m == sending[w].job IN m # Nothing /\ sms[m].state = "active" /\ sms[m].by = w

Rest(w) == sending' = [sending EXCEPT ![w] = Resting]

CompleteSms(w) ==
    /\ sending[w].at = "sent"
    /\ sms' = IF Holds(w) THEN [sms EXCEPT ![sending[w].job].state = "completed"] ELSE sms
    /\ Rest(w)
    /\ UNCHANGED left

\* Deviation: the attempts are not counted.
RejectForEver(w) ==
    /\ sending[w].at \in {"send", "sent"}
    /\ sms' = IF Holds(w) THEN [sms EXCEPT ![sending[w].job].state = "waiting", ![sending[w].job].by = Nothing]
                          ELSE sms
    /\ Rest(w)
    /\ UNCHANGED left

\* Deviation: the error is logged and not thrown again, and the job ends.
RejectSwallowed(w) ==
    /\ sending[w].at \in {"send", "sent"}
    /\ sms' = IF Holds(w) THEN [sms EXCEPT ![sending[w].job].state = "completed"] ELSE sms
    /\ Rest(w)
    /\ UNCHANGED left

\* The processor throws, before the message leaves or, when the answer of the
\* provider is lost, after it: the job is tried again, up to its attempts.
RejectSms(w) ==
    /\ sending[w].at \in {"send", "sent"}
    /\ LET m == sending[w].job
       IN sms' = IF Holds(w)
                 THEN [sms EXCEPT ![m].state = IF sms[m].tries + 1 < MaxAttempts THEN "waiting" ELSE "failed",
                                  ![m].by = Nothing, ![m].tries = @ + 1]
                 ELSE sms
    /\ Rest(w)
    /\ UNCHANGED left

\* The process of the worker dies.
CrashSms(w) ==
    /\ sending[w] # Resting
    /\ Rest(w)
    /\ UNCHANGED <<sms, left>>

\* The lock of the job runs out, whether its worker is gone or slow.
StallSms(m) ==
    /\ sms[m].state = "active"
    /\ sms' = [sms EXCEPT ![m].state = IF sms[m].stalls < MaxStalls THEN "waiting" ELSE "failed",
                          ![m].by = Nothing, ![m].stalls = @ + 1]
    /\ UNCHANGED <<sending, left>>

Forsaken(m) == \A w \in Senders : ~(sending[w].job = m /\ Holds(w))

----------------------------------------------------------------------------

SmsWork(w) ==
    \/ Send(w) \/ CompleteSms(w) \/ RejectSms(w)
    \/ \E m \in Messages : TakeSms(w, m)

SmsNext ==
    \/ \E m \in Messages : AddSms(m) \/ StallSms(m)
    \/ \E w \in Senders : SmsWork(w) \/ CrashSms(w)

\* Workers go on with what they have, and a job whose worker is gone is found to
\* have stalled.
SmsFairness ==
    /\ \A w \in Senders : WF_smsVars(SmsWork(w))
    /\ \A m \in Messages : WF_smsVars(StallSms(m) /\ Forsaken(m))

SmsSpec == SmsInit /\ [][SmsNext]_smsVars /\ SmsFairness

----------------------------------------------------------------------------

SmsTypeOK ==
    /\ sms \in [Messages -> SmsJobs]
    /\ sending \in [Senders -> Sendings]
    /\ left \in [Messages -> Nat]

\* However attempts fail, processes die and jobs stall, the slow worker of a
\* stalled job sending beside the new one: a job leaves in at most as many
\* messages as it has attempts and stalls.  (A code has as many jobs as its add
\* was executed.)
MessagesBounded == \A m \in Messages : left[m] <= MaxAttempts + MaxStalls

\* The message of a job that was added leaves, or its attempts or stalls are used
\* up.
CodeIsSentOrGivenUp ==
    \A m \in Messages :
        sms[m].state = "waiting" ~> (sms[m].state = "completed" /\ left[m] > 0) \/ sms[m].state = "failed"
=============================================================================
