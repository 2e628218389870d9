--------------------------- MODULE ChatwootBridge ---------------------------
(* One ZZap thread and its conversation in Chatwoot: the inbound jobs that create
   the contact and the conversation and post the customer's messages, the webhooks
   by which Chatwoot reports what operators write there, each handled in a
   transaction of its own, and the outbound jobs that upload an operator's files
   and send his message to ZZap.  Source: app/services/inbound.py,
   app/services/outbound.py, app/api/webhooks.py, app/db/repositories.py and the
   authentication state of app/workers/jobs.py.

   Queue, retry times and stale locks are SyncJobs' subject: here a job is pending
   until its attempts are used up, and an attempt that a crash cuts off counts.  *)
EXTENDS Naturals, FiniteSets

CONSTANTS
    InboundJobs,        \* the customer's messages that are to be posted
    Messages,           \* what operators write
    Files,              \* Messages -> number of attachments
    Deliveries,         \* delivery ids that Chatwoot may use for one message
    Handlers,           \* requests handled at the same time
    Null,
    MaxAttempts,
    MaxRequests, MaxCrashes   \* bounds

ASSUME BridgeAssumption ==
    /\ InboundJobs \cap Messages = {} /\ Null \notin InboundJobs \cup Messages \cup Deliveries
    /\ Files \in [Messages -> Nat] /\ MaxAttempts \in Nat \ {0}
    /\ MaxRequests \in Nat /\ MaxCrashes \in Nat

Jobs == InboundJobs \cup Messages

VARIABLES
    contacts, conversations,  \* Chatwoot: how many were created; the number is the id
    posted,        \* Chatwoot: conversations in which a customer's message was posted
    written,       \* Chatwoot: Messages -> [conversation, recorded, public], or Null
    contactRow, conversationRow,   \* the rows with the ids in use, 0 when there is none
    seen,          \* rows of webhook_deliveries
    job,           \* Jobs -> [status, attempts, kept]
    mapped,        \* operators' messages with a row in message_mappings
    handler,       \* Handlers -> the request in progress
    worker,        \* the job in progress
    authFailed,    \* chatwoot_auth_failed in service_state
    requests, crashes,
    uploads,       \* ZZap: Messages -> how often each file was uploaded
    sent,          \* ZZap: Messages -> the numbers of files of every message sent
    accepted,      \* history: messages whose webhook was answered 200
    unsure,        \* history: jobs with a call that took effect and did not get recorded
    wasted,        \* history: contacts and conversations whose id did not get recorded
    verdict,       \* history: what the last telling answer of Chatwoot said
    misled         \* history: the flag changed since, for another reason

chatwoot == <<contacts, conversations, posted, written>>
rows == <<contactRow, conversationRow, seen, job, mapped>>
zzap == <<uploads, sent>>
history == <<accepted, unsure, wasted, verdict, misled>>
vars == <<chatwoot, rows, handler, worker, authFailed, requests, crashes, zzap, history>>

NoRow == [status |-> "none", attempts |-> 0, kept |-> 0]
NewRow == [NoRow EXCEPT !.status = "pending"]
AtRest == [pc |-> "rest", job |-> Null, contact |-> 0, conversation |-> 0, files |-> 0, kept |-> 0, error |-> "none"]
NoRequest == [pc |-> "rest", message |-> Null, id |-> Null]

---------------------------------------------------------------------------
(* Operators and Chatwoot *)

\* An operator answers where he sees a customer's message, recorded or not, or
\* writes a private note there.
Write(m) ==
    /\ written[m] = Null
    /\ \E c \in posted, public \in BOOLEAN :
        written' = [written EXCEPT ![m] =
                        [conversation |-> c, recorded |-> conversationRow = c, public |-> public]]
    /\ UNCHANGED <<contacts, conversations, posted, rows, handler, worker, authFailed, requests, crashes, zzap, history>>

\* classify_chatwoot_message_created
Forwarded(m) == written[m].public

\* A delivery, its repetition, or another delivery of the same message, with an id
\* or without one.  What is not to be forwarded is answered at once.
Post(h) ==
    /\ handler[h].pc = "rest"
    /\ requests < MaxRequests
    /\ requests' = requests + 1
    /\ \E m \in Messages, id \in Deliveries \cup {Null} :
        /\ written[m] # Null
        /\ handler' = IF Forwarded(m)
                      THEN [handler EXCEPT ![h] = [pc |-> "open", message |-> m, id |-> id]]
                      ELSE handler
        /\ accepted' = IF Forwarded(m) THEN accepted ELSE accepted \cup {m}
    /\ UNCHANGED <<chatwoot, rows, worker, authFailed, crashes, zzap, unsure, wasted, verdict, misled>>

---------------------------------------------------------------------------
(* The webhook: one transaction *)

\* The row of webhook_deliveries, if the request has an id.
Delivery(h) == IF handler[h].id = Null THEN {} ELSE {<<handler[h].message, handler[h].id>>}

Answer(h) ==
    /\ handler' = [handler EXCEPT ![h] = NoRequest]
    /\ accepted' = accepted \cup {handler[h].message}

BugInsertDelivery(h) == handler' = [handler EXCEPT ![h].pc = "recorded"] /\ seen' = seen \cup Delivery(h)

\* The row is invisible to others until the commit.
InsertDelivery(h) == handler' = [handler EXCEPT ![h].pc = "recorded"] /\ UNCHANGED seen

\* An equal delivery id in an open transaction makes this insert wait for its end.
RecordDelivery(h) ==
    /\ handler[h].pc = "open"
    /\ \A g \in Handlers : handler[g].pc \in {"recorded", "found"} => Delivery(g) \cap Delivery(h) = {}
    /\ \/ Delivery(h) \cap seen # {} /\ Answer(h) /\ UNCHANGED seen
       \/ Delivery(h) \cap seen = {} /\ InsertDelivery(h) /\ UNCHANGED accepted
    /\ UNCHANGED <<chatwoot, contactRow, conversationRow, job, mapped, worker, authFailed, requests, crashes, zzap,
                   unsure, wasted, verdict, misled>>

Wanted(m) == m \notin mapped /\ conversationRow = written[m].conversation

\* A message that is mapped already or whose conversation is not known is accepted
\* without a job, and its delivery recorded.
FindConversation(h) ==
    /\ handler[h].pc = "recorded"
    /\ \/ /\ Wanted(handler[h].message)
          /\ handler' = [handler EXCEPT ![h].pc = "found"]
          /\ UNCHANGED <<seen, accepted>>
       \/ /\ ~Wanted(handler[h].message)
          /\ seen' = seen \cup Delivery(h)
          /\ Answer(h)
    /\ UNCHANGED <<chatwoot, contactRow, conversationRow, job, mapped, worker, authFailed, requests, crashes, zzap,
                   unsure, wasted, verdict, misled>>

BugInsertedJob(m) == NewRow

\* on_conflict_do_nothing on the message's id
InsertedJob(m) == IF job[m] = NoRow THEN NewRow ELSE job[m]

CreateJob(h) ==
    /\ handler[h].pc = "found"
    /\ job' = [job EXCEPT ![handler[h].message] = InsertedJob(handler[h].message)]
    /\ seen' = seen \cup Delivery(h)
    /\ Answer(h)
    /\ UNCHANGED <<chatwoot, contactRow, conversationRow, mapped, worker, authFailed, requests, crashes, zzap,
                   unsure, wasted, verdict, misled>>

\* The transaction fails, is rolled back and answered 500; or the process dies.
RequestFails(h) ==
    /\ handler[h].pc # "rest"
    /\ handler' = [handler EXCEPT ![h] = NoRequest]
    /\ UNCHANGED <<chatwoot, rows, worker, authFailed, requests, crashes, zzap, history>>

---------------------------------------------------------------------------
(* The worker takes a job *)

TakeJob(j) ==
    /\ worker.pc = "rest"
    /\ job[j].status = "pending"
    /\ job' = [job EXCEPT ![j].status = "processing", ![j].attempts = @ + 1]
    /\ worker' = [AtRest EXCEPT !.pc = IF j \in InboundJobs THEN "contact" ELSE "files", !.job = j,
                                !.contact = contactRow, !.conversation = conversationRow,
                                !.files = job[j].kept, !.kept = job[j].kept]
    /\ UNCHANGED <<chatwoot, contactRow, conversationRow, seen, mapped, handler, authFailed, requests, crashes, zzap, history>>

Called(pc) == worker' = [worker EXCEPT !.pc = pc]
FailedWith(error) == worker' = [worker EXCEPT !.pc = "failed", !.error = error]

\* Images of a customer's message are read before the contact is looked up; they,
\* and an operator's files, may be anywhere.
AtAnyHost == worker.pc = "contact" \/ (worker.pc = "files" /\ worker.files < Files[worker.job])

AtChatwoot ==
    \/ worker.pc = "contact" /\ worker.contact = 0
    \/ worker.pc = "conversation" /\ worker.conversation = 0
    \/ worker.pc = "post"
    \/ worker.pc = "files" /\ AtAnyHost

\* A call, to ZZap too, fails without any effect.
CallFails ==
    /\ AtAnyHost \/ AtChatwoot \/ worker.pc = "files"
    /\ FailedWith("error")
    /\ UNCHANGED <<chatwoot, rows, handler, authFailed, requests, crashes, zzap, history>>

ChatwootDenies ==
    /\ AtChatwoot
    /\ FailedWith("denied")
    /\ verdict' = "denied" /\ misled' = FALSE
    /\ UNCHANGED <<chatwoot, rows, handler, authFailed, requests, crashes, zzap, accepted, unsure, wasted>>

\* The error of another host has the same type as one of Chatwoot.
OtherHostDenies ==
    /\ AtAnyHost
    /\ FailedWith("denied")
    /\ misled' = TRUE
    /\ UNCHANGED <<chatwoot, rows, handler, authFailed, requests, crashes, zzap, accepted, unsure, wasted, verdict>>

---------------------------------------------------------------------------
(* An inbound job *)

\* The answer may be lost, or lack what the code needs of it.
CreateContact ==
    /\ worker.pc = "contact"
    /\ worker.contact = 0
    /\ contacts' = contacts + 1
    /\ \/ /\ worker' = [worker EXCEPT !.pc = "conversation", !.contact = contacts + 1]
          /\ UNCHANGED wasted
       \/ FailedWith("error") /\ wasted' = wasted + 1
    /\ UNCHANGED <<conversations, posted, written, rows, handler, authFailed, requests, crashes, zzap, accepted,
                   unsure, verdict, misled>>

KnownContact ==
    /\ worker.pc = "contact"
    /\ worker.contact # 0
    /\ Called("conversation")
    /\ UNCHANGED <<chatwoot, rows, handler, authFailed, requests, crashes, zzap, history>>

CreateConversation ==
    /\ worker.pc = "conversation"
    /\ worker.conversation = 0
    /\ conversations' = conversations + 1
    /\ \/ /\ worker' = [worker EXCEPT !.pc = "post", !.conversation = conversations + 1]
          /\ UNCHANGED wasted
       \/ FailedWith("error") /\ wasted' = wasted + 1
    /\ UNCHANGED <<contacts, posted, written, rows, handler, authFailed, requests, crashes, zzap, accepted,
                   unsure, verdict, misled>>

KnownConversation ==
    /\ worker.pc = "conversation"
    /\ worker.conversation # 0
    /\ Called("post")
    /\ UNCHANGED <<chatwoot, rows, handler, authFailed, requests, crashes, zzap, history>>

\* Open the conversation and post the message there.
PostMessage ==
    /\ worker.pc = "post"
    /\ posted' = posted \cup {worker.conversation}
    /\ \/ Called("done") /\ verdict' = "accepted" /\ misled' = FALSE /\ UNCHANGED unsure
       \/ FailedWith("error") /\ unsure' = unsure \cup {worker.job} /\ UNCHANGED <<verdict, misled>>
    /\ UNCHANGED <<contacts, conversations, written, rows, handler, authFailed, requests, crashes, zzap, accepted, wasted>>

---------------------------------------------------------------------------
(* An outbound job *)

BugKeptAfter(n) == n + 1

\* The upload is saved with the payload, but all versions of the payload share one
\* list: after the first upload of an attempt the ORM finds the new value equal to
\* the old one and writes nothing.
KeptAfter(n) == IF worker.kept = job[worker.job].kept THEN n ELSE worker.kept

Upload ==
    /\ worker.pc = "files"
    /\ worker.files < Files[worker.job]
    /\ uploads' = [uploads EXCEPT ![worker.job][worker.files + 1] = @ + 1]
    /\ \/ /\ worker' = [worker EXCEPT !.files = @ + 1, !.kept = KeptAfter(worker.files + 1)]
          /\ UNCHANGED unsure
       \/ FailedWith("error") /\ unsure' = unsure \cup {worker.job}
    /\ UNCHANGED <<chatwoot, rows, handler, authFailed, requests, crashes, sent, accepted, wasted, verdict, misled>>

Send ==
    /\ worker.pc = "files"
    /\ worker.files = Files[worker.job]
    /\ sent' = [sent EXCEPT ![worker.job] = @ + 1]
    /\ \/ Called("done") /\ UNCHANGED unsure
       \/ FailedWith("error") /\ unsure' = unsure \cup {worker.job}
    /\ UNCHANGED <<chatwoot, rows, handler, authFailed, requests, crashes, uploads, accepted, wasted, verdict, misled>>

---------------------------------------------------------------------------
(* The end of an attempt *)

BugAfterFailure(row) == [row EXCEPT !.status = IF row.attempts <= MaxAttempts THEN "pending" ELSE "failed"]

AfterFailure(row) == [row EXCEPT !.status = IF row.attempts < MaxAttempts THEN "pending" ELSE "failed"]

BugClearsFlag == worker.job \in InboundJobs

\* _record_job_auth_success
ClearsFlag == worker.job \in InboundJobs \/ Files[worker.job] > 0

\* Whether Chatwoot itself let the job have its files: not when an earlier attempt
\* had uploaded all of them, or when another host keeps them.
Telling ==
    LET files == IF worker.job \in Messages THEN Files[worker.job] ELSE 0
    IN  \/ files = 0 /\ UNCHANGED <<verdict, misled>>
        \/ job[worker.job].kept < files /\ verdict' = "accepted" /\ misled' = FALSE
        \/ files > 0 /\ misled' = TRUE /\ UNCHANGED verdict

\* The insert of the mapping meets the row of an equal message, and does nothing.
Finish ==
    /\ worker.pc = "done"
    /\ job' = [job EXCEPT ![worker.job] = [@ EXCEPT !.status = "succeeded", !.kept = 0]]
    /\ contactRow' = worker.contact
    /\ conversationRow' = worker.conversation
    /\ \E new \in SUBSET ({worker.job} \cap Messages) : mapped' = mapped \cup new
    /\ authFailed' = (authFailed /\ ~ClearsFlag)
    /\ Telling
    /\ worker' = AtRest
    /\ UNCHANGED <<chatwoot, seen, handler, requests, crashes, zzap, accepted, unsure, wasted>>

BugRowAfterFailure(row, new) == row

\* The error was caught: the rows written before it are committed all the same.
RowAfterFailure(row, new) == new

Fail ==
    /\ worker.pc = "failed"
    /\ job' = [job EXCEPT ![worker.job] = [AfterFailure(@) EXCEPT !.kept = worker.kept]]
    /\ contactRow' = RowAfterFailure(contactRow, worker.contact)
    /\ conversationRow' = RowAfterFailure(conversationRow, worker.conversation)
    /\ authFailed' = (authFailed \/ worker.error = "denied")
    /\ worker' = AtRest
    /\ UNCHANGED <<chatwoot, seen, mapped, handler, requests, crashes, zzap, history>>

\* What this attempt sent, posted or uploaded is not recorded yet.
TookEffect == worker.pc = "done" \/ worker.files > job[worker.job].kept

\* The process dies in the middle of a job, or a statement fails, which ends it too:
\* nothing of the attempt is committed.
Crash ==
    /\ worker.pc # "rest"
    /\ crashes < MaxCrashes
    /\ crashes' = crashes + 1
    /\ job' = [job EXCEPT ![worker.job] = AfterFailure(@)]
    /\ wasted' = wasted + (IF worker.contact # contactRow THEN 1 ELSE 0)
                        + (IF worker.conversation # conversationRow THEN 1 ELSE 0)
    /\ unsure' = IF TookEffect THEN unsure \cup {worker.job} ELSE unsure
    /\ misled' = (misled \/ worker.pc = "done" \/ worker.error = "denied")
    /\ worker' = AtRest
    /\ UNCHANGED <<chatwoot, contactRow, conversationRow, seen, mapped, handler, authFailed, requests, zzap,
                   accepted, verdict>>

---------------------------------------------------------------------------
Init ==
    /\ contacts = 0 /\ conversations = 0 /\ posted = {}
    /\ written = [m \in Messages |-> Null]
    /\ contactRow = 0 /\ conversationRow = 0 /\ seen = {} /\ mapped = {}
    /\ job = [j \in Jobs |-> IF j \in InboundJobs THEN NewRow ELSE NoRow]
    /\ handler = [h \in Handlers |-> NoRequest]
    /\ worker = AtRest
    /\ authFailed = FALSE
    /\ requests = 0 /\ crashes = 0
    /\ uploads = [m \in Messages |-> [f \in 1 .. Files[m] |-> 0]]
    /\ sent = [m \in Messages |-> 0]
    /\ accepted = {} /\ unsure = {} /\ wasted = 0 /\ verdict = "none" /\ misled = FALSE

Webhook(h) == Post(h) \/ RecordDelivery(h) \/ FindConversation(h) \/ CreateJob(h) \/ RequestFails(h)

Work ==
    \/ \E j \in Jobs : TakeJob(j)
    \/ CallFails \/ ChatwootDenies \/ OtherHostDenies
    \/ CreateContact \/ KnownContact \/ CreateConversation \/ KnownConversation \/ PostMessage
    \/ Upload \/ Send
    \/ Finish \/ Fail

Next == (\E m \in Messages : Write(m)) \/ (\E h \in Handlers : Webhook(h)) \/ Work \/ Crash

Spec == Init /\ [][Next]_vars

---------------------------------------------------------------------------
(* Properties *)

\* The state is well formed: the ids in use exist, and nobody gets more attempts
\* than there are.
TypeOK ==
    /\ contactRow \in 0 .. contacts /\ conversationRow \in 0 .. conversations
    /\ posted \subseteq 1 .. conversations
    /\ \A m \in Messages : written[m] # Null =>
        written[m] \in [conversation : posted, recorded : BOOLEAN, public : BOOLEAN]
    /\ seen \subseteq Messages \X Deliveries /\ mapped \subseteq Messages
    /\ job \in [Jobs -> [status : {"none", "pending", "processing", "succeeded", "failed"},
                         attempts : 0 .. MaxAttempts, kept : Nat]]
    /\ \A h \in Handlers : handler[h].pc = "rest" <=> handler[h] = NoRequest
    /\ \A j \in Jobs : job[j].status = "processing" <=> worker.job = j
    /\ requests \in 0 .. MaxRequests /\ crashes \in 0 .. MaxCrashes
    /\ authFailed \in BOOLEAN /\ misled \in BOOLEAN
    /\ verdict \in {"none", "accepted", "denied"}

\* However often and at whatever times Chatwoot reports a message, the customer
\* gets it once, unless a call took effect without its outcome being recorded
\* (webhooks.py:24-80, outbound.py:62-99, repositories.py:299-333).
MessageSentOnce == \A m \in Messages \ unsure : sent[m] <= 1

\* A message whose webhook was answered 200 has a job if it is meant for the
\* customer, and none if it is a note, provided that its conversation was recorded
\* when it was written: no delivery id blocks the repetition of a failed request
\* (webhooks.py:45-60, outbound.py:62-100, repositories.py:366-386).
AcceptedHasJob ==
    \A m \in accepted : written[m].recorded => (written[m].public <=> job[m] # NoRow)

InUse(id, row) == IF worker.job \in InboundJobs THEN id ELSE row

\* A contact or conversation that the bridge does not use any more was lost with an
\* answer or a crash, never by a failed attempt; and only then are the customer's
\* messages split over two conversations (inbound.py:152-209, jobs.py:448-464).
OrphansExplained ==
    LET contact == InUse(worker.contact, contactRow)
        conversation == InUse(worker.conversation, conversationRow)
    IN  /\ contacts + conversations = wasted + Cardinality({contact} \ {0}) + Cardinality({conversation} \ {0})
        /\ wasted = 0 => posted \subseteq {conversation}

\* Between two jobs chatwoot_auth_failed tells what the last telling answer of
\* Chatwoot was, except where the answer of another host, the reuse of files or a
\* crash has set it since (jobs.py:573-602, 961-980).
FlagCurrent ==
    worker.pc = "rest" /\ ~misled =>
        /\ verdict = "denied" => authFailed
        /\ verdict = "accepted" => ~authFailed

\* A message goes out with all its files, over any number of attempts: a file is
\* taken for uploaded only if it was (outbound.py:122-151).
FilesSent ==
    \A m \in Messages :
        /\ \A f \in 1 .. Files[m] : f <= job[m].kept \/ sent[m] > 0 => uploads[m][f] > 0
        /\ job[m].kept <= Files[m]

\* No file is uploaded twice, unless a call or a crash left its outcome open.
UploadedOnce == \A m \in Messages \ unsure : \A f \in 1 .. Files[m] : uploads[m][f] <= 1

PhaseOf(row) ==
    CASE row.status = "none" -> "absent"
      [] row.status \in {"pending", "processing"} -> "open"
      [] row.status = "succeeded" -> "done"
      [] row.status = "failed" -> "dropped"

Contract == INSTANCE JobContract WITH
    Jobs <- Messages,
    Limit <- [m \in Messages |-> MaxAttempts],
    phase <- [m \in Messages |-> PhaseOf(job[m])],
    applied <- sent

\* What operators write passes through webhook and worker as the queue promises:
\* one job per message, closed once, as done only if the message was sent, and not
\* sent after that (webhooks.py:52-60, jobs.py:429-478).
KeepsContract == Contract!ContractSpec

=============================================================================
