------------------------ MODULE ChatwootBridge_proofs ------------------------
(* Proofs about ChatwootBridge, for every number of jobs, messages, files, requests,
   attempts and crashes.  Core says of every part of the state what it may hold,
   and that the one attempt in progress owns the one row in process; it is
   inductive by itself.  Each property then has an invariant of its own, inductive
   together with Core, that says what holds in the middle of an attempt or of a
   transaction, where the property itself is silent.  *)
EXTENDS ChatwootBridge, FiniteSetTheorems, TLAPS

---------------------------------------------------------------------------
(* What the state holds *)

Rows == [status : {"none", "pending", "processing", "succeeded", "failed"},
         attempts : 0 .. MaxAttempts, kept : Nat]
Notes == [conversation : Nat, recorded : BOOLEAN, public : BOOLEAN]
Requests == [pc : {"rest", "open", "recorded", "found"}, message : Messages \cup {Null},
             id : Deliveries \cup {Null}]
Working == {"contact", "conversation", "post", "files", "done", "failed"}
Attempts == [pc : Working \cup {"rest"}, job : Jobs \cup {Null}, contact : Nat, conversation : Nat,
             files : Nat, kept : Nat, error : {"none", "error", "denied"}]

IdsOK ==
    /\ contacts \in Nat /\ conversations \in Nat /\ wasted \in Nat
    /\ contactRow \in 0 .. contacts /\ conversationRow \in 0 .. conversations
    /\ posted \subseteq 1 .. conversations

NotesOK ==
    /\ written \in [Messages -> Notes \cup {Null}]
    /\ \A m \in Messages : written[m] # Null => written[m] \in Notes /\ written[m].conversation \in posted

RowsOK ==
    /\ job \in [Jobs -> Rows]
    /\ \A j \in Jobs :
        /\ job[j].status = "none" => job[j] = NoRow /\ j \in Messages
        /\ job[j].status = "pending" => job[j].attempts < MaxAttempts
        /\ job[j].status = "processing" => job[j].attempts > 0
    /\ mapped \subseteq Messages

RequestsOK ==
    /\ handler \in [Handlers -> Requests]
    /\ \A h \in Handlers : IF handler[h].pc = "rest" THEN handler[h] = NoRequest ELSE handler[h].message \in Messages
    /\ seen \subseteq Messages \X Deliveries
    /\ requests \in 0 .. MaxRequests
    /\ accepted \subseteq Messages

\* One attempt at a time, and it owns the only row in process.
OwnerOK == \A j \in Jobs : job[j].status = "processing" <=> worker.job = j

\* An attempt knows the ids in use; only an inbound job may know newer ones, and
\* only where no id was in use.
WorkerOK ==
    /\ worker \in Attempts
    /\ IF worker.pc = "rest" THEN worker = AtRest ELSE worker.job \in Jobs
    /\ worker.pc \in {"contact", "conversation", "post"} => worker.job \in InboundJobs
    /\ worker.pc = "files" => worker.job \in Messages
    /\ worker.pc # "failed" => worker.error = "none"
    /\ worker.pc # "rest" =>
        /\ worker.contact <= contacts /\ worker.conversation <= conversations
        /\ worker.contact # contactRow => contactRow = 0 /\ worker.job \in InboundJobs
        /\ worker.conversation # conversationRow => conversationRow = 0 /\ worker.job \in InboundJobs
    /\ worker.pc = "post" => worker.conversation # 0

HistoryOK ==
    /\ crashes \in 0 .. MaxCrashes
    /\ authFailed \in BOOLEAN /\ misled \in BOOLEAN
    /\ verdict \in {"none", "accepted", "denied"}
    /\ unsure \subseteq Jobs
    /\ sent \in [Messages -> Nat]

Core == IdsOK /\ NotesOK /\ RowsOK /\ RequestsOK /\ OwnerOK /\ WorkerOK /\ HistoryOK

LEMMA CoreIsTyped == Core => TypeOK
  <1> SUFFICES ASSUME Core PROVE TypeOK
    OBVIOUS
  <1>1. \A m \in Messages : written[m] # Null => written[m] \in [conversation : posted, recorded : BOOLEAN, public : BOOLEAN]
    BY DEF Core, NotesOK, Notes
  <1>2. \A h \in Handlers : handler[h].pc = "rest" <=> handler[h] = NoRequest
    BY BridgeAssumption DEF Core, RequestsOK, NoRequest
  <1> QED
    BY <1>1, <1>2 DEF Core, IdsOK, RowsOK, Rows, RequestsOK, OwnerOK, HistoryOK, TypeOK

---------------------------------------------------------------------------
(* What the helpers return, and what a call makes of the attempt in progress *)

LEMMA NewRowType == /\ NoRow \in Rows /\ NewRow \in Rows
                    /\ NoRow.status = "none" /\ NewRow.status = "pending" /\ NewRow.attempts = 0 /\ NewRow.kept = 0
                    /\ NoRow.attempts = 0 /\ NoRow.kept = 0
  BY BridgeAssumption DEF NoRow, NewRow, Rows

LEMMA RestType ==
    /\ AtRest \in Attempts /\ AtRest.pc = "rest" /\ AtRest.job = Null /\ AtRest.error = "none"
    /\ NoRequest \in Requests /\ NoRequest.pc = "rest"
  BY DEF AtRest, Attempts, NoRequest, Requests

\* The attempt in progress becomes this one.
Becomes(pc, contact, conversation, files, kept, error) ==
    /\ worker' \in Attempts
    /\ worker'.pc = pc /\ worker'.job = worker.job
    /\ worker'.contact = contact /\ worker'.conversation = conversation
    /\ worker'.files = files /\ worker'.kept = kept /\ worker'.error = error

LEMMA CalledBecomes ==
    ASSUME worker \in Attempts, NEW pc \in Working, Called(pc)
    PROVE  Becomes(pc, worker.contact, worker.conversation, worker.files, worker.kept, worker.error)
  BY DEF Called, Becomes, Attempts, Working

LEMMA FailedBecomes ==
    ASSUME worker \in Attempts, NEW e \in {"error", "denied"}, FailedWith(e)
    PROVE  Becomes("failed", worker.contact, worker.conversation, worker.files, worker.kept, e)
  BY DEF FailedWith, Becomes, Attempts, Working

LEMMA CallFailsBecomes ==
    ASSUME Core, CallFails \/ ChatwootDenies \/ OtherHostDenies
    PROVE  /\ worker.pc \in {"contact", "conversation", "post", "files"} /\ worker.job \in Jobs
           /\ \E e \in {"error", "denied"} :
                Becomes("failed", worker.contact, worker.conversation, worker.files, worker.kept, e)
  <1>1. worker.pc \in {"contact", "conversation", "post", "files"} /\ worker \in Attempts /\ worker.job \in Jobs
    BY DEF Core, WorkerOK, CallFails, ChatwootDenies, OtherHostDenies, AtAnyHost, AtChatwoot
  <1> QED
    BY <1>1, FailedBecomes DEF CallFails, ChatwootDenies, OtherHostDenies

LEMMA CreateContactBecomes ==
    ASSUME Core, CreateContact
    PROVE  /\ worker.pc = "contact" /\ worker.job \in InboundJobs /\ worker.contact = 0
           /\ \/ Becomes("conversation", contacts + 1, worker.conversation, worker.files, worker.kept, worker.error)
                 /\ UNCHANGED wasted
              \/ Becomes("failed", worker.contact, worker.conversation, worker.files, worker.kept, "error")
                 /\ wasted' = wasted + 1
  <1> DEFINE n == contacts + 1
  <1>1. worker.pc = "contact" /\ worker \in Attempts /\ worker.job \in InboundJobs /\ worker.contact = 0
    BY DEF CreateContact, Core, WorkerOK
  <1>2. n \in Nat /\ \/ worker' = [worker EXCEPT !.pc = "conversation", !.contact = n] /\ UNCHANGED wasted
                     \/ FailedWith("error") /\ wasted' = wasted + 1
    BY DEF CreateContact, Core, IdsOK
  <1> HIDE DEF n
  <1>3. ASSUME worker' = [worker EXCEPT !.pc = "conversation", !.contact = n]
        PROVE  Becomes("conversation", n, worker.conversation, worker.files, worker.kept, worker.error)
    BY <1>1, <1>2, <1>3 DEF Becomes, Attempts, Working
  <1>4. \/ Becomes("conversation", n, worker.conversation, worker.files, worker.kept, worker.error) /\ UNCHANGED wasted
        \/ Becomes("failed", worker.contact, worker.conversation, worker.files, worker.kept, "error") /\ wasted' = wasted + 1
    BY <1>1, <1>2, <1>3, FailedBecomes
  <1> QED
    BY <1>1, <1>4 DEF n

LEMMA KnownContactBecomes ==
    ASSUME Core, KnownContact
    PROVE  /\ worker.pc = "contact" /\ worker.job \in InboundJobs
           /\ Becomes("conversation", worker.contact, worker.conversation, worker.files, worker.kept, worker.error)
  BY CalledBecomes DEF KnownContact, Core, WorkerOK, Working

LEMMA CreateConversationBecomes ==
    ASSUME Core, CreateConversation
    PROVE  /\ worker.pc = "conversation" /\ worker.job \in InboundJobs /\ worker.conversation = 0
           /\ \/ Becomes("post", worker.contact, conversations + 1, worker.files, worker.kept, worker.error)
                 /\ UNCHANGED wasted
              \/ Becomes("failed", worker.contact, worker.conversation, worker.files, worker.kept, "error")
                 /\ wasted' = wasted + 1
  <1> DEFINE n == conversations + 1
  <1>1. worker.pc = "conversation" /\ worker \in Attempts /\ worker.job \in InboundJobs /\ worker.conversation = 0
    BY DEF CreateConversation, Core, WorkerOK
  <1>2. n \in Nat /\ \/ worker' = [worker EXCEPT !.pc = "post", !.conversation = n] /\ UNCHANGED wasted
                     \/ FailedWith("error") /\ wasted' = wasted + 1
    BY DEF CreateConversation, Core, IdsOK
  <1> HIDE DEF n
  <1>3. ASSUME worker' = [worker EXCEPT !.pc = "post", !.conversation = n]
        PROVE  Becomes("post", worker.contact, n, worker.files, worker.kept, worker.error)
    BY <1>1, <1>2, <1>3 DEF Becomes, Attempts, Working
  <1>4. \/ Becomes("post", worker.contact, n, worker.files, worker.kept, worker.error) /\ UNCHANGED wasted
        \/ Becomes("failed", worker.contact, worker.conversation, worker.files, worker.kept, "error") /\ wasted' = wasted + 1
    BY <1>1, <1>2, <1>3, FailedBecomes
  <1> QED
    BY <1>1, <1>4 DEF n

LEMMA KnownConversationBecomes ==
    ASSUME Core, KnownConversation
    PROVE  /\ worker.pc = "conversation" /\ worker.job \in InboundJobs
           /\ Becomes("post", worker.contact, worker.conversation, worker.files, worker.kept, worker.error)
  BY CalledBecomes DEF KnownConversation, Core, WorkerOK, Working

LEMMA PostMessageBecomes ==
    ASSUME Core, PostMessage
    PROVE  /\ worker.pc = "post" /\ worker.job \in InboundJobs
           /\ \/ Becomes("done", worker.contact, worker.conversation, worker.files, worker.kept, worker.error)
                 /\ verdict' = "accepted" /\ misled' = FALSE /\ UNCHANGED unsure
              \/ Becomes("failed", worker.contact, worker.conversation, worker.files, worker.kept, "error")
                 /\ unsure' = unsure \cup {worker.job} /\ UNCHANGED <<verdict, misled>>
  BY CalledBecomes, FailedBecomes DEF PostMessage, Core, WorkerOK, Working

LEMMA UploadBecomes ==
    ASSUME Core, Upload
    PROVE  /\ worker.pc = "files" /\ worker.job \in Messages
           /\ \/ Becomes("files", worker.contact, worker.conversation, worker.files + 1,
                         KeptAfter(worker.files + 1), worker.error)
                 /\ UNCHANGED unsure
              \/ Becomes("failed", worker.contact, worker.conversation, worker.files, worker.kept, "error")
                 /\ unsure' = unsure \cup {worker.job}
  <1> DEFINE n == worker.files + 1
             k == KeptAfter(n)
  <1>1. worker.pc = "files" /\ worker \in Attempts /\ worker.job \in Messages
    BY DEF Upload, Core, WorkerOK
  <1>2. n \in Nat /\ k \in Nat
    BY <1>1 DEF Attempts, KeptAfter
  <1>3. \/ worker' = [worker EXCEPT !.files = n, !.kept = k] /\ UNCHANGED unsure
        \/ FailedWith("error") /\ unsure' = unsure \cup {worker.job}
    BY DEF Upload
  <1> HIDE DEF n, k
  <1>4. ASSUME worker' = [worker EXCEPT !.files = n, !.kept = k]
        PROVE  Becomes("files", worker.contact, worker.conversation, n, k, worker.error)
    BY <1>1, <1>2, <1>4 DEF Becomes, Attempts
  <1>5. \/ Becomes("files", worker.contact, worker.conversation, n, k, worker.error) /\ UNCHANGED unsure
        \/ Becomes("failed", worker.contact, worker.conversation, worker.files, worker.kept, "error")
           /\ unsure' = unsure \cup {worker.job}
    BY <1>1, <1>3, <1>4, FailedBecomes
  <1> QED
    BY <1>1, <1>5 DEF n, k

LEMMA SendBecomes ==
    ASSUME Core, Send
    PROVE  /\ worker.pc = "files" /\ worker.job \in Messages
           /\ \/ Becomes("done", worker.contact, worker.conversation, worker.files, worker.kept, worker.error)
                 /\ UNCHANGED unsure
              \/ Becomes("failed", worker.contact, worker.conversation, worker.files, worker.kept, "error")
                 /\ unsure' = unsure \cup {worker.job}
  BY CalledBecomes, FailedBecomes DEF Send, Core, WorkerOK, Working

---------------------------------------------------------------------------
(* Type correctness *)

LEMMA CoreInit == Init => Core
  <1> SUFFICES ASSUME Init PROVE Core
    OBVIOUS
  <1> USE BridgeAssumption, NewRowType, RestType
  <1>1. IdsOK /\ NotesOK
    BY DEF Init, IdsOK, NotesOK
  <1>2. RowsOK
    BY DEF Init, RowsOK, Jobs
  <1>3. OwnerOK
    BY DEF Init, OwnerOK, Jobs
  <1>4. WorkerOK
    BY DEF Init, WorkerOK
  <1>5. RequestsOK
    BY DEF Init, RequestsOK
  <1>6. HistoryOK
    <2>1. authFailed \in BOOLEAN /\ misled \in BOOLEAN
      BY DEF Init
    <2>2. crashes \in 0 .. MaxCrashes /\ unsure \subseteq Jobs /\ sent \in [Messages -> Nat]
      BY DEF Init
    <2>3. verdict \in {"none", "accepted", "denied"}
      BY DEF Init
    <2> QED
      BY <2>1, <2>2, <2>3 DEF HistoryOK
  <1> QED
    BY <1>1, <1>2, <1>3, <1>4, <1>5, <1>6 DEF Core

LEMMA CoreCallFails ==
    ASSUME Core, CallFails \/ ChatwootDenies \/ OtherHostDenies
    PROVE  Core'
  <1>1. UNCHANGED <<chatwoot, rows, handler, authFailed, requests, crashes, zzap, accepted, unsure, wasted>>
    BY DEF CallFails, ChatwootDenies, OtherHostDenies, history
  <1>2. HistoryOK'
    BY <1>1 DEF Core, HistoryOK, zzap, CallFails, ChatwootDenies, OtherHostDenies, history
  <1>3. WorkerOK' /\ OwnerOK'
    BY <1>1, CallFailsBecomes DEF Core, WorkerOK, OwnerOK, Becomes, chatwoot, rows
  <1> QED
    BY <1>1, <1>2, <1>3 DEF Core, IdsOK, NotesOK, RowsOK, RequestsOK, chatwoot, rows

LEMMA CoreCreateContact ==
    ASSUME Core, CreateContact
    PROVE  Core'
  <1>1. worker.job \in Jobs /\ worker.pc # "rest"
    BY CreateContactBecomes DEF Jobs
  <1>2. IdsOK' /\ NotesOK'
    BY DEF Core, IdsOK, NotesOK, chatwoot, rows, history, CreateContact
  <1>3. WorkerOK'
    BY <1>1, CreateContactBecomes DEF Core, IdsOK, WorkerOK, Becomes, chatwoot, rows, CreateContact
  <1>4. OwnerOK'
    BY <1>1, CreateContactBecomes DEF Core, OwnerOK, Becomes, rows, CreateContact
  <1>5. HistoryOK'
    BY <1>1 DEF Core, HistoryOK, zzap, history, CreateContact
  <1>6. RowsOK' /\ RequestsOK'
    BY DEF Core, RowsOK, RequestsOK, rows, history, CreateContact
  <1> QED
    BY <1>2, <1>3, <1>4, <1>5, <1>6 DEF Core

LEMMA CoreKnownContact ==
    ASSUME Core, KnownContact
    PROVE  Core'
  <1>1. worker.job \in Jobs /\ worker.pc # "rest"
    BY KnownContactBecomes DEF Jobs
  <1>2. IdsOK' /\ NotesOK'
    BY DEF Core, IdsOK, NotesOK, chatwoot, rows, history, KnownContact
  <1>3. WorkerOK'
    BY <1>1, KnownContactBecomes DEF Core, IdsOK, WorkerOK, Becomes, chatwoot, rows, KnownContact
  <1>4. OwnerOK'
    BY <1>1, KnownContactBecomes DEF Core, OwnerOK, Becomes, rows, KnownContact
  <1>5. HistoryOK'
    BY <1>1 DEF Core, HistoryOK, zzap, history, KnownContact
  <1>6. RowsOK' /\ RequestsOK'
    BY DEF Core, RowsOK, RequestsOK, rows, history, KnownContact
  <1> QED
    BY <1>2, <1>3, <1>4, <1>5, <1>6 DEF Core

LEMMA CoreCreateConversation ==
    ASSUME Core, CreateConversation
    PROVE  Core'
  <1>1. worker.job \in Jobs /\ worker.pc # "rest"
    BY CreateConversationBecomes DEF Jobs
  <1>2. IdsOK' /\ NotesOK'
    BY DEF Core, IdsOK, NotesOK, chatwoot, rows, history, CreateConversation
  <1>3. WorkerOK'
    BY <1>1, CreateConversationBecomes DEF Core, IdsOK, WorkerOK, Becomes, chatwoot, rows, CreateConversation
  <1>4. OwnerOK'
    BY <1>1, CreateConversationBecomes DEF Core, OwnerOK, Becomes, rows, CreateConversation
  <1>5. HistoryOK'
    BY <1>1 DEF Core, HistoryOK, zzap, history, CreateConversation
  <1>6. RowsOK' /\ RequestsOK'
    BY DEF Core, RowsOK, RequestsOK, rows, history, CreateConversation
  <1> QED
    BY <1>2, <1>3, <1>4, <1>5, <1>6 DEF Core

LEMMA CoreKnownConversation ==
    ASSUME Core, KnownConversation
    PROVE  Core'
  <1>1. worker.job \in Jobs /\ worker.pc # "rest"
    BY KnownConversationBecomes DEF Jobs
  <1>2. IdsOK' /\ NotesOK'
    BY DEF Core, IdsOK, NotesOK, chatwoot, rows, history, KnownConversation
  <1>3. WorkerOK'
    BY <1>1, KnownConversationBecomes DEF Core, IdsOK, WorkerOK, Becomes, chatwoot, rows, KnownConversation
  <1>4. OwnerOK'
    BY <1>1, KnownConversationBecomes DEF Core, OwnerOK, Becomes, rows, KnownConversation
  <1>5. HistoryOK'
    BY <1>1 DEF Core, HistoryOK, zzap, history, KnownConversation
  <1>6. RowsOK' /\ RequestsOK'
    BY DEF Core, RowsOK, RequestsOK, rows, history, KnownConversation
  <1> QED
    BY <1>2, <1>3, <1>4, <1>5, <1>6 DEF Core

LEMMA CorePostMessage ==
    ASSUME Core, PostMessage
    PROVE  Core'
  <1>1. worker.job \in Jobs /\ worker.pc # "rest"
    BY PostMessageBecomes DEF Jobs
  <1>2. IdsOK' /\ NotesOK'
    <2>1. worker.conversation \in 1 .. conversations
      <3>1. worker.conversation # 0 /\ worker.conversation <= conversations /\ worker.conversation \in Nat
        BY <1>1, PostMessageBecomes DEF Core, WorkerOK, Attempts
      <3> QED
        BY <3>1 DEF Core, IdsOK
    <2>2. IdsOK'
      BY <2>1 DEF Core, IdsOK, rows, PostMessage
    <2>3. NotesOK'
      BY DEF Core, NotesOK, PostMessage
    <2> QED
      BY <2>2, <2>3
  <1>3. WorkerOK'
    BY <1>1, PostMessageBecomes DEF Core, IdsOK, WorkerOK, Becomes, chatwoot, rows, PostMessage
  <1>4. OwnerOK'
    BY <1>1, PostMessageBecomes DEF Core, OwnerOK, Becomes, rows, PostMessage
  <1>5. HistoryOK'
    BY <1>1 DEF Core, HistoryOK, zzap, history, PostMessage
  <1>6. RowsOK' /\ RequestsOK'
    BY DEF Core, RowsOK, RequestsOK, rows, history, PostMessage
  <1> QED
    BY <1>2, <1>3, <1>4, <1>5, <1>6 DEF Core

LEMMA CoreUpload ==
    ASSUME Core, Upload
    PROVE  Core'
  <1>1. worker.job \in Jobs /\ worker.pc # "rest"
    BY UploadBecomes DEF Jobs
  <1>2. WorkerOK' /\ OwnerOK'
    BY <1>1, UploadBecomes DEF Core, WorkerOK, OwnerOK, Becomes, chatwoot, rows, Upload
  <1>3. HistoryOK'
    BY <1>1, UploadBecomes DEF Core, HistoryOK, Upload
  <1> QED
    BY <1>2, <1>3 DEF Core, IdsOK, NotesOK, RowsOK, RequestsOK, chatwoot, rows, Upload

LEMMA CoreSend ==
    ASSUME Core, Send
    PROVE  Core'
  <1>1. worker.job \in Jobs /\ worker.pc # "rest"
    BY SendBecomes DEF Jobs
  <1>2. WorkerOK' /\ OwnerOK'
    BY <1>1, SendBecomes DEF Core, WorkerOK, OwnerOK, Becomes, chatwoot, rows, Send
  <1>3. HistoryOK'
    BY <1>1, SendBecomes DEF Core, HistoryOK, Send
  <1> QED
    BY <1>2, <1>3 DEF Core, IdsOK, NotesOK, RowsOK, RequestsOK, chatwoot, rows, Send

LEMMA CoreWrite ==
    ASSUME Core, NEW m \in Messages, Write(m)
    PROVE  Core'
  <1> USE BridgeAssumption
  <1>1. PICK c \in posted, public \in BOOLEAN :
            written' = [written EXCEPT ![m] =
                           [conversation |-> c, recorded |-> conversationRow = c, public |-> public]]
    BY DEF Write
  <1>2. NotesOK'
    <2> DEFINE note == [conversation |-> c, recorded |-> conversationRow = c, public |-> public]
    <2>1. note \in Notes /\ note.conversation \in posted
      BY DEF Notes, Core, IdsOK
    <2>2. written' = [written EXCEPT ![m] = note] /\ posted' = posted
      BY <1>1 DEF Write
    <2> HIDE DEF note
    <2> QED
      BY <2>1, <2>2 DEF Core, NotesOK
  <1> QED
    BY <1>2 DEF Core, IdsOK, RowsOK, RequestsOK, OwnerOK, WorkerOK, HistoryOK, rows, zzap, history, Write

\* What a request leaves alone.
RequestFrame ==
    UNCHANGED <<chatwoot, contactRow, conversationRow, mapped, worker, authFailed, crashes, zzap, unsure, wasted, verdict, misled>>

LEMMA CoreRequest ==
    ASSUME Core, RowsOK', RequestsOK', OwnerOK', RequestFrame
    PROVE  Core'
  BY DEF Core, IdsOK, NotesOK, WorkerOK, HistoryOK, RequestFrame, chatwoot, zzap

LEMMA CorePost ==
    ASSUME Core, NEW h \in Handlers, Post(h)
    PROVE  Core'
  <1> USE BridgeAssumption
  <1>1. PICK m \in Messages, id \in Deliveries \cup {Null} :
        /\ written[m] # Null
        /\ handler' = IF Forwarded(m)
                      THEN [handler EXCEPT ![h] = [pc |-> "open", message |-> m, id |-> id]]
                      ELSE handler
        /\ accepted' = IF Forwarded(m) THEN accepted ELSE accepted \cup {m}
    BY DEF Post
  <1>2. RequestsOK'
    <2> DEFINE request == [pc |-> "open", message |-> m, id |-> id]
    <2>1. request \in Requests /\ request.pc = "open" /\ request.message = m
      BY DEF Requests
    <2>2. handler' = [handler EXCEPT ![h] = request] \/ handler' = handler
      BY <1>1
    <2> HIDE DEF request
    <2>3. /\ handler' \in [Handlers -> Requests]
          /\ \A g \in Handlers : IF handler'[g].pc = "rest" THEN handler'[g] = NoRequest ELSE handler'[g].message \in Messages
      BY <2>1, <2>2 DEF Core, RequestsOK
    <2> QED
      BY <1>1, <2>3 DEF Core, RequestsOK, Post, rows
  <1> QED
    BY <1>2, CoreRequest DEF Core, RowsOK, OwnerOK, RequestFrame, rows, Post

\* A request that is answered.
LEMMA AnswerType ==
    ASSUME Core, NEW h \in Handlers, handler[h].pc # "rest", handler' = [handler EXCEPT ![h] = NoRequest]
    PROVE  /\ handler' \in [Handlers -> Requests]
           /\ \A g \in Handlers : IF handler'[g].pc = "rest" THEN handler'[g] = NoRequest ELSE handler'[g].message \in Messages
           /\ handler[h].message \in Messages
           /\ Delivery(h) \subseteq Messages \X Deliveries
  <1>1. NoRequest \in Requests /\ NoRequest.pc = "rest"
    BY DEF NoRequest, Requests
  <1> QED
    BY <1>1 DEF Core, RequestsOK, Delivery, Requests

\* A request that goes on.
LEMMA GoesOnType ==
    ASSUME Core, NEW h \in Handlers, handler[h].pc # "rest", NEW pc \in {"recorded", "found"},
           handler' = [handler EXCEPT ![h].pc = pc]
    PROVE  /\ handler' \in [Handlers -> Requests]
           /\ \A g \in Handlers : IF handler'[g].pc = "rest" THEN handler'[g] = NoRequest ELSE handler'[g].message \in Messages
           /\ handler'[h].pc = pc /\ handler'[h].message = handler[h].message /\ handler'[h].id = handler[h].id
  BY DEF Core, RequestsOK, Requests

LEMMA CoreRecordDelivery ==
    ASSUME Core, NEW h \in Handlers, RecordDelivery(h)
    PROVE  Core'
  <1>1. handler[h].pc # "rest"
    BY DEF RecordDelivery
  <1>2. RequestsOK'
    <2>1. CASE Answer(h)
      BY <1>1, <2>1, AnswerType DEF Answer, RecordDelivery, InsertDelivery, Core, RequestsOK
    <2>2. CASE InsertDelivery(h) /\ UNCHANGED accepted
      BY <1>1, <2>2, GoesOnType DEF InsertDelivery, RecordDelivery, Core, RequestsOK
    <2> QED
      BY <2>1, <2>2 DEF RecordDelivery
  <1> QED
    BY <1>2, CoreRequest DEF Core, RowsOK, OwnerOK, RequestFrame, RecordDelivery

LEMMA CoreFindConversation ==
    ASSUME Core, NEW h \in Handlers, FindConversation(h)
    PROVE  Core'
  <1>1. handler[h].pc # "rest"
    BY DEF FindConversation
  <1>2. RequestsOK'
    <2>1. CASE Answer(h) /\ seen' = seen \cup Delivery(h)
      BY <1>1, <2>1, AnswerType DEF Answer, FindConversation, Core, RequestsOK
    <2>2. CASE handler' = [handler EXCEPT ![h].pc = "found"] /\ UNCHANGED <<seen, accepted>>
      BY <1>1, <2>2, GoesOnType DEF FindConversation, Core, RequestsOK
    <2> QED
      BY <2>1, <2>2 DEF FindConversation
  <1> QED
    BY <1>2, CoreRequest DEF Core, RowsOK, OwnerOK, RequestFrame, FindConversation

LEMMA CoreCreateJob ==
    ASSUME Core, NEW h \in Handlers, CreateJob(h)
    PROVE  Core'
  <1> USE BridgeAssumption
  <1>1. handler[h].pc # "rest"
    BY DEF CreateJob
  <1>2. RequestsOK'
    BY <1>1, AnswerType DEF Answer, CreateJob, Core, RequestsOK
  <1>3. RowsOK' /\ OwnerOK'
    <2> DEFINE m == handler[h].message
    <2>1. m \in Messages /\ m \in Jobs /\ mapped' = mapped /\ worker' = worker
      BY <1>1, AnswerType DEF Jobs, CreateJob, Answer
    <2>2. job' = job \/ (job[m] = NoRow /\ job' = [job EXCEPT ![m] = NewRow])
      BY <2>1 DEF CreateJob, InsertedJob, Core, RowsOK
    <2> HIDE DEF m
    <2>3. CASE job' = job
      BY <2>1, <2>3 DEF Core, RowsOK, OwnerOK
    <2>4. CASE job[m] = NoRow /\ job' = [job EXCEPT ![m] = NewRow]
      BY <2>1, <2>4, NewRowType DEF Core, RowsOK, OwnerOK
    <2> QED
      BY <2>2, <2>3, <2>4
  <1> QED
    BY <1>2, <1>3, CoreRequest DEF RequestFrame, CreateJob

LEMMA CoreRequestFails ==
    ASSUME Core, NEW h \in Handlers, RequestFails(h)
    PROVE  Core'
  <1>1. RequestsOK'
    BY AnswerType DEF RequestFails, Core, RequestsOK, rows, history
  <1> QED
    BY <1>1, CoreRequest DEF Core, RowsOK, OwnerOK, RequestFrame, rows, history, RequestFails

\* The row of the job in progress becomes this one, and the worker rests.
LEMMA CoreEnds ==
    ASSUME Core, worker.pc # "rest", worker' = AtRest, NEW row \in Rows,
           row.status \in {"pending", "succeeded", "failed"},
           row.status = "pending" => row.attempts < MaxAttempts,
           job' = [job EXCEPT ![worker.job] = row]
    PROVE  /\ job' \in [Jobs -> Rows]
           /\ \A j \in Jobs :
                /\ job'[j].status = "none" => job'[j] = NoRow /\ j \in Messages
                /\ job'[j].status = "pending" => job'[j].attempts < MaxAttempts
                /\ job'[j].status = "processing" => job'[j].attempts > 0
           /\ OwnerOK' /\ WorkerOK'
  <1> USE BridgeAssumption
  <1>1. worker.job \in Jobs
    BY DEF Core, WorkerOK
  <1>2. AtRest \in Attempts /\ AtRest.pc = "rest" /\ AtRest.job = Null /\ AtRest.error = "none"
    BY DEF AtRest, Attempts
  <1>3. WorkerOK'
    BY <1>2 DEF WorkerOK
  <1>4. OwnerOK'
    BY <1>1, <1>2 DEF Core, RowsOK, OwnerOK, Jobs
  <1> QED
    BY <1>1, <1>3, <1>4 DEF Core, RowsOK

LEMMA AfterFailureType ==
    ASSUME NEW row \in Rows, NEW n \in Nat
    PROVE  /\ AfterFailure(row) \in Rows /\ [AfterFailure(row) EXCEPT !.kept = n] \in Rows
           /\ AfterFailure(row).status \in {"pending", "failed"}
           /\ AfterFailure(row).status = "pending" => row.attempts < MaxAttempts
           /\ AfterFailure(row).attempts = row.attempts /\ AfterFailure(row).kept = row.kept
           /\ [AfterFailure(row) EXCEPT !.kept = n].status = AfterFailure(row).status
           /\ [AfterFailure(row) EXCEPT !.kept = n].attempts = row.attempts
           /\ [AfterFailure(row) EXCEPT !.kept = n].kept = n
  BY BridgeAssumption DEF AfterFailure, Rows

LEMMA FinishedType ==
    ASSUME NEW row \in Rows
    PROVE  /\ [row EXCEPT !.status = "succeeded", !.kept = 0] \in Rows
           /\ [row EXCEPT !.status = "succeeded", !.kept = 0].status = "succeeded"
           /\ [row EXCEPT !.status = "succeeded", !.kept = 0].attempts = row.attempts
           /\ [row EXCEPT !.status = "succeeded", !.kept = 0].kept = 0
  BY DEF Rows

LEMMA CoreFinish ==
    ASSUME Core, Finish
    PROVE  Core'
  <1> USE BridgeAssumption
  <1> DEFINE j == worker.job
             row == [job[j] EXCEPT !.status = "succeeded", !.kept = 0]
  <1>1. worker.pc # "rest" /\ j \in Jobs /\ job[j] \in Rows
    BY DEF Finish, Core, WorkerOK, RowsOK
  <1>2. row \in Rows /\ row.status = "succeeded"
    BY <1>1, FinishedType
  <1>3. job' = [job EXCEPT ![j] = row] /\ worker' = AtRest
    BY <1>1 DEF Finish, Core, RowsOK
  <1>4. RowsOK' /\ OwnerOK' /\ WorkerOK'
    <2> HIDE DEF row
    <2>1. mapped' \subseteq Messages
      BY DEF Finish, Core, RowsOK
    <2> QED
      BY <1>1, <1>2, <1>3, <2>1, CoreEnds DEF RowsOK
  <1>5. IdsOK' /\ NotesOK'
    BY <1>1 DEF Finish, Core, IdsOK, NotesOK, WorkerOK, Attempts, chatwoot
  <1>6. RequestsOK'
    BY DEF Finish, Core, RequestsOK
  <1>7. HistoryOK'
    <2>1. authFailed' \in BOOLEAN
      BY DEF Finish
    <2>2. misled' \in BOOLEAN
      BY DEF Finish, Telling, Core, HistoryOK
    <2>3. verdict' \in {"none", "accepted", "denied"}
      BY DEF Finish, Telling, Core, HistoryOK
    <2> QED
      BY <2>1, <2>2, <2>3 DEF Finish, Core, HistoryOK, zzap
  <1> QED
    BY <1>4, <1>5, <1>6, <1>7 DEF Core

LEMMA CoreFail ==
    ASSUME Core, Fail
    PROVE  Core'
  <1> USE BridgeAssumption
  <1> DEFINE j == worker.job
             row == [AfterFailure(job[j]) EXCEPT !.kept = worker.kept]
  <1>1. worker.pc # "rest" /\ j \in Jobs /\ job[j] \in Rows /\ worker.kept \in Nat
    BY DEF Fail, Core, WorkerOK, RowsOK, Attempts
  <1>2. row \in Rows /\ row.status \in {"pending", "failed"} /\ (row.status = "pending" => row.attempts < MaxAttempts)
    BY <1>1, AfterFailureType
  <1>3. job' = [job EXCEPT ![j] = row] /\ worker' = AtRest /\ mapped' = mapped
    BY <1>1 DEF Fail, Core, RowsOK
  <1>4. RowsOK' /\ OwnerOK' /\ WorkerOK'
    <2> HIDE DEF row
    <2> QED
      BY <1>1, <1>2, <1>3, CoreEnds DEF RowsOK, Core
  <1>5. IdsOK' /\ NotesOK'
    BY <1>1 DEF Fail, Core, IdsOK, NotesOK, WorkerOK, Attempts, chatwoot, history, RowAfterFailure
  <1>6. RequestsOK'
    BY DEF Fail, Core, RequestsOK, history
  <1>7. HistoryOK'
    <2>1. authFailed' \in BOOLEAN
      BY DEF Fail
    <2> QED
      BY <2>1 DEF Fail, Core, HistoryOK, zzap, history
  <1> QED
    BY <1>4, <1>5, <1>6, <1>7 DEF Core

LEMMA CoreCrash ==
    ASSUME Core, Crash
    PROVE  Core'
  <1> USE BridgeAssumption
  <1> DEFINE j == worker.job
             row == AfterFailure(job[j])
  <1>1. worker.pc # "rest" /\ j \in Jobs /\ job[j] \in Rows
    BY DEF Crash, Core, WorkerOK, RowsOK, Attempts
  <1>2. row \in Rows /\ row.status \in {"pending", "failed"} /\ (row.status = "pending" => row.attempts < MaxAttempts)
    BY <1>1, AfterFailureType
  <1>3. job' = [job EXCEPT ![j] = row] /\ worker' = AtRest /\ mapped' = mapped
    BY <1>1 DEF Crash, Core, RowsOK
  <1>4. RowsOK' /\ OwnerOK' /\ WorkerOK'
    <2> HIDE DEF row
    <2> QED
      BY <1>1, <1>2, <1>3, CoreEnds DEF RowsOK, Core
  <1>5. IdsOK' /\ NotesOK'
    BY <1>1 DEF Crash, Core, IdsOK, NotesOK, chatwoot
  <1>6. RequestsOK'
    BY DEF Crash, Core, RequestsOK
  <1>7. HistoryOK'
    <2>1. misled' \in BOOLEAN
      BY DEF Crash
    <2> QED
      BY <1>1, <2>1 DEF Crash, Core, HistoryOK, zzap
  <1> QED
    BY <1>4, <1>5, <1>6, <1>7 DEF Core

LEMMA TakenType ==
    ASSUME NEW row \in Rows, row.attempts < MaxAttempts, NEW taken,
           taken = [row EXCEPT !.status = "processing", !.attempts = @ + 1]
    PROVE  /\ taken \in Rows /\ taken.status = "processing"
           /\ taken.attempts = row.attempts + 1 /\ taken.kept = row.kept
  <1> DEFINE n == row.attempts + 1
  <1>1. n \in 0 .. MaxAttempts
    BY BridgeAssumption DEF Rows
  <1>2. taken = [row EXCEPT !.status = "processing", !.attempts = n]
    OBVIOUS
  <1> HIDE DEF n
  <1>3. taken \in Rows /\ taken.status = "processing" /\ taken.attempts = n /\ taken.kept = row.kept
    BY <1>1, <1>2 DEF Rows
  <1> QED
    BY <1>3 DEF n

LEMMA StartType ==
    ASSUME Core, NEW j \in Jobs, TakeJob(j)
    PROVE  /\ worker' \in Attempts
           /\ worker'.pc = IF j \in InboundJobs THEN "contact" ELSE "files"
           /\ worker'.job = j /\ worker'.contact = contactRow /\ worker'.conversation = conversationRow
           /\ worker'.files = job[j].kept /\ worker'.kept = job[j].kept /\ worker'.error = "none"
  <1> DEFINE pc == IF j \in InboundJobs THEN "contact" ELSE "files"
             k == job[j].kept
  <1>1. pc \in Working /\ k \in Nat /\ contactRow \in Nat /\ conversationRow \in Nat
    BY DEF Working, Core, RowsOK, Rows, IdsOK
  <1>2. worker' = [AtRest EXCEPT !.pc = pc, !.job = j, !.contact = contactRow,
                                 !.conversation = conversationRow, !.files = k, !.kept = k]
    BY DEF TakeJob
  <1> HIDE DEF pc, k
  <1>3. /\ worker' \in Attempts
        /\ worker'.pc = pc /\ worker'.job = j /\ worker'.contact = contactRow
        /\ worker'.conversation = conversationRow /\ worker'.files = k /\ worker'.kept = k /\ worker'.error = "none"
    BY <1>1, <1>2 DEF AtRest, Attempts
  <1> QED
    BY <1>3 DEF pc, k

LEMMA CoreTakeJob ==
    ASSUME Core, NEW j \in Jobs, TakeJob(j)
    PROVE  Core'
  <1> USE BridgeAssumption
  <1> DEFINE row == [job[j] EXCEPT !.status = "processing", !.attempts = @ + 1]
  <1>1. job[j] \in Rows /\ job[j].attempts < MaxAttempts /\ job[j].attempts \in Nat
    BY DEF TakeJob, Core, RowsOK, Rows
  <1>2. row \in Rows /\ row.status = "processing" /\ row.attempts = job[j].attempts + 1
    BY <1>1, TakenType
  <1>3. job' = [job EXCEPT ![j] = row]
    BY DEF TakeJob, Core, RowsOK
  <1>4. worker = AtRest /\ AtRest.job = Null /\ Null \notin Jobs
    BY DEF TakeJob, Core, WorkerOK, AtRest, Jobs
  <1> HIDE DEF row
  <1>5. RowsOK'
    <2>1. row.attempts > 0 /\ mapped' = mapped
      BY <1>1, <1>2 DEF TakeJob
    <2>2. job' \in [Jobs -> Rows]
      BY <1>2, <1>3 DEF Core, RowsOK
    <2>3. \A i \in Jobs : job'[i] = IF i = j THEN row ELSE job[i]
      BY <1>3 DEF Core, RowsOK
    <2> QED
      BY <1>2, <2>1, <2>2, <2>3 DEF Core, RowsOK
  <1>6. OwnerOK'
    BY <1>2, <1>3, <1>4, StartType DEF Core, OwnerOK, RowsOK
  <1>7. WorkerOK'
    <2>1. /\ UNCHANGED <<contacts, conversations, contactRow, conversationRow>>
          /\ contactRow <= contacts /\ conversationRow <= conversations
      BY DEF TakeJob, chatwoot, Core, IdsOK
    <2>2. j \notin InboundJobs => j \in Messages
      BY DEF Jobs
    <2> QED
      BY <2>1, <2>2, StartType DEF WorkerOK
  <1> QED
    BY <1>5, <1>6, <1>7 DEF TakeJob, Core, IdsOK, NotesOK, RequestsOK, HistoryOK, chatwoot, zzap, history

LEMMA CoreStep == Core /\ [Next]_vars => Core'
  <1> SUFFICES ASSUME Core, [Next]_vars PROVE Core'
    OBVIOUS
  <1>1. ASSUME NEW m \in Messages, Write(m) PROVE Core'
    BY <1>1, CoreWrite
  <1>2. ASSUME NEW h \in Handlers, Webhook(h) PROVE Core'
    BY <1>2, CorePost, CoreRecordDelivery, CoreFindConversation, CoreCreateJob, CoreRequestFails DEF Webhook
  <1>3. CASE Work
    BY <1>3, CoreTakeJob, CoreCallFails, CoreCreateContact, CoreKnownContact, CoreCreateConversation,
       CoreKnownConversation, CorePostMessage, CoreUpload, CoreSend, CoreFinish, CoreFail DEF Work
  <1>4. CASE UNCHANGED vars
    BY <1>4 DEF vars, chatwoot, rows, zzap, history, Core, IdsOK, NotesOK, RowsOK, RequestsOK, OwnerOK, WorkerOK, HistoryOK
  <1> QED
    BY <1>1, <1>2, <1>3, <1>4, CoreCrash DEF Next

LEMMA CoreHolds == Spec => []Core
  BY CoreInit, CoreStep, PTL DEF Spec

\* The ids in use exist.
THEOREM TypeCorrect == Spec => []TypeOK
  BY CoreHolds, CoreIsTyped, PTL

---------------------------------------------------------------------------
(* A message goes out with all its files *)

FilesInv ==
    /\ uploads \in [Messages -> UNION {[1 .. n -> Nat] : n \in Nat}]
    /\ \A m \in Messages : uploads[m] \in [1 .. Files[m] -> Nat]
    /\ worker.job \in Messages =>
        /\ worker.kept <= worker.files /\ worker.files <= Files[worker.job]
        /\ \A f \in 1 .. worker.files : uploads[worker.job][f] > 0
    /\ \A j \in InboundJobs : job[j].kept = 0 /\ (worker.job = j => worker.kept = 0)
    /\ FilesSent

LEMMA FilesInit == Init => FilesInv
  <1> SUFFICES ASSUME Init PROVE FilesInv
    OBVIOUS
  <1>1. \A m \in Messages : Files[m] \in Nat /\ uploads[m] = [f \in 1 .. Files[m] |-> 0]
    BY BridgeAssumption DEF Init
  <1>2. \A m \in Messages : uploads[m] \in [1 .. Files[m] -> Nat]
    <2> TAKE m \in Messages
    <2> DEFINE k == Files[m]
    <2>1. k \in Nat /\ uploads[m] = [f \in 1 .. k |-> 0]
      BY <1>1
    <2> HIDE DEF k
    <2>2. uploads[m] \in [1 .. k -> Nat]
      BY <2>1
    <2> QED
      BY <2>2 DEF k
  <1>3. \A m \in Messages : uploads[m] \in UNION {[1 .. n -> Nat] : n \in Nat}
    <2> TAKE m \in Messages
    <2> DEFINE k == Files[m]
    <2>1. k \in Nat /\ uploads[m] \in [1 .. k -> Nat]
      BY <1>1, <1>2
    <2> QED
      BY <2>1
  <1>4. uploads \in [Messages -> UNION {[1 .. n -> Nat] : n \in Nat}]
    BY <1>3 DEF Init
  <1>5. \A j \in Jobs : job[j].kept = 0
    BY NewRowType DEF Init
  <1>6. FilesSent
    <2>1. \A m \in Messages : job[m].kept = 0 /\ sent[m] = 0 /\ Files[m] \in Nat
      BY <1>1, <1>5 DEF Init, Jobs
    <2> QED
      BY <2>1 DEF FilesSent
  <1>7. worker.job \notin Messages /\ worker.job \notin InboundJobs
    BY BridgeAssumption DEF Init, AtRest
  <1> QED
    BY <1>2, <1>4, <1>5, <1>6, <1>7 DEF FilesInv, Jobs

\* Steps that upload and send nothing, and change no row.
LEMMA FilesFrame ==
    ASSUME FilesInv, UNCHANGED <<uploads, sent, job>>,
           \/ worker'.job = worker.job /\ worker'.files = worker.files /\ worker'.kept = worker.kept
           \/ worker'.job \notin Jobs
    PROVE  FilesInv'
  <1> USE DEF Jobs
  <1>1. FilesSent'
    BY DEF FilesInv, FilesSent
  <1>2. worker'.job \in Messages =>
          /\ worker'.kept <= worker'.files /\ worker'.files <= Files[worker'.job]
          /\ \A f \in 1 .. worker'.files : uploads'[worker'.job][f] > 0
    BY DEF FilesInv
  <1>3. \A j \in InboundJobs : job'[j].kept = 0 /\ (worker'.job = j => worker'.kept = 0)
    BY DEF FilesInv
  <1> QED
    BY <1>1, <1>2, <1>3 DEF FilesInv

\* An attempt ends: no row keeps more than what the attempt has seen uploaded.
LEMMA FilesEnd ==
    ASSUME Core, FilesInv, worker.pc # "rest", worker' = AtRest, UNCHANGED <<uploads, sent>>,
           NEW row \in Rows, job' = [job EXCEPT ![worker.job] = row],
           row.kept \in {0, worker.kept, job[worker.job].kept}
    PROVE  FilesInv'
  <1> USE BridgeAssumption
  <1>1. worker.job \in Jobs /\ worker'.job \notin Messages /\ worker'.job \notin InboundJobs
    BY DEF Core, WorkerOK, AtRest
  <1>2. \A j \in Jobs : job'[j] = IF j = worker.job THEN row ELSE job[j]
    BY DEF Core, RowsOK
  <1>3. \A m \in Messages :
          /\ job'[m].kept \in Nat
          /\ \/ job'[m].kept <= job[m].kept
             \/ m = worker.job /\ job'[m].kept <= worker.files /\ job'[m].kept <= Files[m]
    <2> TAKE m \in Messages
    <2>1. m \in Jobs /\ job[m].kept \in Nat /\ row.kept \in Nat
      BY DEF Jobs, Core, RowsOK, Rows
    <2>2. CASE m # worker.job
      BY <1>2, <2>1, <2>2
    <2>3. CASE m = worker.job
      <3>1. /\ worker.kept \in Nat /\ worker.files \in Nat /\ Files[m] \in Nat
            /\ worker.kept <= worker.files /\ worker.files <= Files[m]
        BY <2>3 DEF FilesInv, Core, WorkerOK, Attempts
      <3> QED
        BY <1>2, <2>1, <2>3, <3>1
    <2> QED
      BY <2>2, <2>3
  <1>4. FilesSent'
    <2> SUFFICES ASSUME NEW m \in Messages
                 PROVE  /\ \A f \in 1 .. Files[m] : f <= job'[m].kept \/ sent[m] > 0 => uploads[m][f] > 0
                        /\ job'[m].kept <= Files[m]
      BY DEF FilesSent
    <2>1. Files[m] \in Nat /\ job[m].kept \in Nat /\ job[m].kept <= Files[m] /\ sent[m] \in Nat
      BY DEF FilesInv, FilesSent, Core, RowsOK, Rows, Jobs, HistoryOK
    <2>2. CASE job'[m].kept <= job[m].kept
      BY <1>3, <2>1, <2>2 DEF FilesInv, FilesSent
    <2>3. CASE m = worker.job /\ job'[m].kept <= worker.files /\ job'[m].kept <= Files[m]
      BY <1>3, <2>1, <2>3 DEF FilesInv, FilesSent, Core, WorkerOK, Attempts
    <2> QED
      BY <1>3, <2>2, <2>3
  <1>5. \A j \in InboundJobs : job'[j].kept = 0
    BY <1>1, <1>2 DEF FilesInv, Jobs
  <1> QED
    BY <1>1, <1>4, <1>5 DEF FilesInv

LEMMA FilesStep == Core /\ FilesInv /\ [Next]_vars => FilesInv'
  <1> SUFFICES ASSUME Core, FilesInv, [Next]_vars PROVE FilesInv'
    OBVIOUS
  <1> USE BridgeAssumption
  <1>1. ASSUME NEW m \in Messages, Write(m) PROVE FilesInv'
    BY <1>1, FilesFrame DEF Write, rows, zzap
  <1>2. ASSUME NEW h \in Handlers, Webhook(h), ~CreateJob(h) PROVE FilesInv'
    BY <1>2, FilesFrame DEF Webhook, Post, RecordDelivery, FindConversation, RequestFails, rows, zzap
  <1>3. ASSUME NEW h \in Handlers, CreateJob(h) PROVE FilesInv'
    <2>1. /\ worker' = worker /\ sent' = sent /\ uploads' = uploads
          /\ \A j \in Jobs : job'[j].kept = job[j].kept
      BY <1>3, NewRowType DEF CreateJob, InsertedJob, zzap, Core, RowsOK
    <2>2. FilesSent'
      BY <2>1 DEF FilesInv, FilesSent, Jobs
    <2> QED
      BY <2>1, <2>2 DEF FilesInv, Jobs
  <1>4. ASSUME NEW j \in Jobs, TakeJob(j) PROVE FilesInv'
    <2>1. /\ worker'.job = j /\ worker'.files = job[j].kept /\ worker'.kept = job[j].kept
          /\ sent' = sent /\ uploads' = uploads
      BY <1>4, StartType DEF TakeJob, zzap
    <2>2. \A i \in Jobs : job'[i].kept = job[i].kept /\ job[i].kept \in Nat
      BY <1>4 DEF TakeJob, Core, RowsOK, Rows
    <2>3. FilesSent'
      BY <2>1, <2>2 DEF FilesInv, FilesSent, Jobs
    <2>4. j \in Messages => \A f \in 1 .. job[j].kept : uploads[j][f] > 0
      BY <2>2 DEF FilesInv, FilesSent
    <2>5. j \in Messages => job[j].kept <= Files[j]
      BY DEF FilesInv, FilesSent
    <2>6. worker'.job \in Messages =>
            /\ worker'.kept <= worker'.files /\ worker'.files <= Files[worker'.job]
            /\ \A f \in 1 .. worker'.files : uploads'[worker'.job][f] > 0
      BY <2>1, <2>2, <2>4, <2>5
    <2>7. \A i \in InboundJobs : job'[i].kept = 0 /\ (worker'.job = i => worker'.kept = 0)
      BY <2>1, <2>2 DEF FilesInv, Jobs
    <2> QED
      BY <2>1, <2>3, <2>6, <2>7 DEF FilesInv
  <1>5. CASE CallFails \/ ChatwootDenies \/ OtherHostDenies
    BY <1>5, CallFailsBecomes, FilesFrame
       DEF Becomes, CallFails, ChatwootDenies, OtherHostDenies, rows, zzap
  <1>6. CASE CreateContact \/ KnownContact \/ CreateConversation \/ KnownConversation \/ PostMessage
    BY <1>6, CreateContactBecomes, KnownContactBecomes, CreateConversationBecomes, KnownConversationBecomes,
       PostMessageBecomes, FilesFrame
       DEF Becomes, CreateContact, KnownContact, CreateConversation, KnownConversation, PostMessage, rows, zzap
  <1>7. CASE Upload
    <2> DEFINE m == worker.job
               g == worker.files + 1
    <2>1. /\ m \in Messages /\ worker.files \in Nat /\ worker.files < Files[m] /\ Files[m] \in Nat
          /\ g \in 1 .. Files[m] /\ job' = job /\ sent' = sent
          /\ worker.kept \in Nat /\ worker.kept <= worker.files
      BY <1>7, UploadBecomes DEF Upload, Core, WorkerOK, Attempts, rows, FilesInv
    <2>2. uploads' = [uploads EXCEPT ![m][g] = @ + 1]
      BY <1>7 DEF Upload
    <2>3. /\ uploads'[m] = [uploads[m] EXCEPT ![g] = @ + 1]
          /\ \A k \in Messages : k # m => uploads'[k] = uploads[k]
      BY <2>1, <2>2 DEF FilesInv
    <2>4. uploads'[m] \in [1 .. Files[m] -> Nat]
      BY <2>1, <2>3 DEF FilesInv
    <2>5. uploads'[m] \in UNION {[1 .. n -> Nat] : n \in Nat}
      BY <2>1, <2>4
    <2>6. uploads' \in [Messages -> UNION {[1 .. n -> Nat] : n \in Nat}]
      BY <2>1, <2>2, <2>3, <2>5 DEF FilesInv
    <2>7. uploads'[m][g] > 0 /\ \A f \in 1 .. Files[m] : uploads[m][f] > 0 => uploads'[m][f] > 0
      BY <2>1, <2>3 DEF FilesInv
    <2>8. FilesSent'
      BY <2>1, <2>3, <2>7 DEF FilesInv, FilesSent
    <2>9. /\ worker'.job = m /\ worker'.files \in {worker.files, g}
          /\ worker'.kept \in {worker.kept, worker'.files}
      BY <1>7, UploadBecomes DEF Becomes, KeptAfter
    <2>10. worker'.kept <= worker'.files /\ worker'.files <= Files[m]
      BY <2>1, <2>9
    <2>11. \A f \in 1 .. worker'.files : uploads'[m][f] > 0
      <3> SUFFICES ASSUME NEW f \in 1 .. worker'.files PROVE uploads'[m][f] > 0
        OBVIOUS
      <3>1. f \in 1 .. Files[m] /\ (f = g \/ f \in 1 .. worker.files)
        BY <2>1, <2>9, <2>10
      <3> QED
        BY <2>1, <2>7, <3>1 DEF FilesInv
    <2> HIDE DEF m, g
    <2> QED
      BY <2>1, <2>3, <2>4, <2>6, <2>8, <2>9, <2>10, <2>11 DEF FilesInv
  <1>8. CASE Send
    <2> DEFINE m == worker.job
    <2>1. /\ m \in Messages /\ worker.files = Files[m] /\ uploads' = uploads /\ job' = job
          /\ sent' = [sent EXCEPT ![m] = @ + 1]
      BY <1>8, SendBecomes DEF Send, rows
    <2>2. worker'.job = m /\ worker'.files = worker.files /\ worker'.kept = worker.kept
      BY <1>8, SendBecomes DEF Becomes
    <2>3. \A f \in 1 .. Files[m] : uploads[m][f] > 0
      BY <2>1 DEF FilesInv
    <2>4. FilesSent'
      BY <2>1, <2>3 DEF FilesInv, FilesSent, Core, HistoryOK
    <2> QED
      BY <2>1, <2>2, <2>4 DEF FilesInv
  <1>9. CASE Finish
    <2> DEFINE row == [job[worker.job] EXCEPT !.status = "succeeded", !.kept = 0]
    <2>1. row \in Rows /\ row.kept = 0
      BY <1>9, FinishedType DEF Finish, Core, WorkerOK, RowsOK
    <2>2. job' = [job EXCEPT ![worker.job] = row]
      BY <1>9 DEF Finish
    <2> HIDE DEF row
    <2> QED
      BY <1>9, <2>1, <2>2, FilesEnd DEF Finish, zzap
  <1>10. CASE Fail
    <2> DEFINE row == [AfterFailure(job[worker.job]) EXCEPT !.kept = worker.kept]
    <2>1. row \in Rows /\ row.kept = worker.kept
      BY <1>10, AfterFailureType DEF Fail, Core, WorkerOK, RowsOK, Attempts
    <2>2. job' = [job EXCEPT ![worker.job] = row]
      BY <1>10 DEF Fail
    <2> HIDE DEF row
    <2> QED
      BY <1>10, <2>1, <2>2, FilesEnd DEF Fail, zzap
  <1>11. CASE Crash
    <2> DEFINE row == AfterFailure(job[worker.job])
    <2>1. row \in Rows /\ row.kept = job[worker.job].kept
      BY <1>11, AfterFailureType DEF Crash, Core, WorkerOK, RowsOK, Attempts
    <2>2. job' = [job EXCEPT ![worker.job] = row]
      BY <1>11 DEF Crash
    <2> HIDE DEF row
    <2> QED
      BY <1>11, <2>1, <2>2, FilesEnd DEF Crash, zzap
  <1>12. CASE UNCHANGED vars
    BY <1>12, FilesFrame DEF vars, rows, zzap
  <1> QED
    BY <1>1, <1>2, <1>3, <1>4, <1>5, <1>6, <1>7, <1>8, <1>9, <1>10, <1>11, <1>12 DEF Next, Work

\* No message is sent before each of its files was uploaded.
THEOREM FilesHold == Spec => []FilesSent
  <1>1. FilesInv => FilesSent
    BY DEF FilesInv
  <1> QED
    BY <1>1, FilesInit, FilesStep, CoreHolds, PTL DEF Spec
---------------------------------------------------------------------------
(* Every row has a note behind it, every answer a message *)

AcceptInv ==
    /\ \A m \in Messages :
        /\ job[m] # NoRow => written[m] # Null /\ written[m].public
        /\ written[m] # Null /\ written[m].recorded => conversationRow = written[m].conversation
    /\ \A h \in Handlers : handler[h].pc # "rest" =>
            written[handler[h].message] # Null /\ written[handler[h].message].public
    /\ \A m \in accepted : written[m] # Null
    /\ \A m \in Messages, id \in Deliveries : <<m, id>> \in seen => m \in accepted
    /\ \A m \in mapped : job[m] # NoRow
    /\ AcceptedHasJob

LEMMA AcceptInit == Init => AcceptInv
  <1> SUFFICES ASSUME Init PROVE AcceptInv
    OBVIOUS
  <1>1. \A m \in Messages : job[m] = NoRow /\ written[m] = Null
    BY BridgeAssumption DEF Init, Jobs
  <1>2. \A h \in Handlers : handler[h].pc = "rest"
    BY DEF Init, NoRequest
  <1> QED
    BY <1>1, <1>2 DEF Init, AcceptInv, AcceptedHasJob

\* Steps of the worker: rows never become absent again, and the conversation in
\* use stays the same once there is one.
LEMMA AcceptWorker ==
    ASSUME Core, AcceptInv, UNCHANGED <<written, handler, accepted, seen>>,
           \A m \in Messages : job'[m] = NoRow <=> job[m] = NoRow,
           conversationRow' = conversationRow \/ conversationRow = 0,
           \A m \in mapped' \ mapped : m \in Messages /\ job[m] # NoRow
    PROVE  AcceptInv'
  <1>1. \A m \in Messages : written[m] # Null => written[m].conversation # 0
    BY DEF Core, NotesOK, IdsOK
  <1>2. AcceptedHasJob'
    BY DEF AcceptInv, AcceptedHasJob, Core, RequestsOK
  <1>3. \A m \in mapped' : job'[m] # NoRow
    BY DEF AcceptInv, Core, RowsOK
  <1> QED
    BY <1>1, <1>2, <1>3 DEF AcceptInv

\* A row that the worker takes or leaves is not an absent one.
LEMMA AcceptRow ==
    ASSUME Core, NEW j \in Jobs, NEW row, row.status # "none", job[j].status # "none",
           job' = [job EXCEPT ![j] = row]
    PROVE  \A m \in Messages : job'[m] = NoRow <=> job[m] = NoRow
  BY NewRowType DEF Core, RowsOK, Jobs

\* A request is answered: its message has a row, or is none that needs one.
LEMMA AcceptAnswer ==
    ASSUME Core, AcceptInv, NEW h \in Handlers, handler[h].pc # "rest", Answer(h),
           UNCHANGED <<written, conversationRow, mapped>>,
           seen' = seen \/ seen' = seen \cup Delivery(h),
           \A m \in Messages : job'[m] = job[m] \/ (m = handler[h].message /\ job'[m] # NoRow),
           written[handler[h].message].recorded => job'[handler[h].message] # NoRow
    PROVE  AcceptInv'
  <1> DEFINE n == handler[h].message
  <1>1. n \in Messages /\ written[n] # Null /\ written[n].public /\ accepted' = accepted \cup {n}
    BY AnswerType DEF AcceptInv, Answer
  <1>2. \A g \in Handlers : handler'[g] = handler[g] \/ handler'[g].pc = "rest"
    BY DEF Answer, NoRequest, Core, RequestsOK
  <1>3. \A m \in Messages, id \in Deliveries : <<m, id>> \in seen' => <<m, id>> \in seen \/ m = n
    BY DEF Delivery
  <1>4. AcceptedHasJob'
    BY <1>1 DEF AcceptInv, AcceptedHasJob, Core, RequestsOK
  <1>5. \A m \in Messages : job'[m] # NoRow => written[m] # Null /\ written[m].public
    BY <1>1 DEF AcceptInv
  <1> HIDE DEF n
  <1>6. \A m \in Messages, id \in Deliveries : <<m, id>> \in seen' => m \in accepted'
    BY <1>1, <1>3 DEF AcceptInv
  <1>7. \A m \in mapped' : job'[m] # NoRow
    BY DEF AcceptInv, Core, RowsOK
  <1>8. \A g \in Handlers : handler'[g].pc # "rest" =>
            written'[handler'[g].message] # Null /\ written'[handler'[g].message].public
    BY <1>2 DEF AcceptInv
  <1> QED
    BY <1>1, <1>4, <1>5, <1>6, <1>7, <1>8 DEF AcceptInv

LEMMA AcceptStep == Core /\ AcceptInv /\ [Next]_vars => AcceptInv'
  <1> SUFFICES ASSUME Core, AcceptInv, [Next]_vars PROVE AcceptInv'
    OBVIOUS
  <1> USE BridgeAssumption
  <1>1. ASSUME NEW m \in Messages, Write(m) PROVE AcceptInv'
    <2>1. PICK c \in posted, public \in BOOLEAN :
            written' = [written EXCEPT ![m] =
                           [conversation |-> c, recorded |-> conversationRow = c, public |-> public]]
      BY <1>1 DEF Write
    <2>2. /\ written[m] = Null /\ UNCHANGED <<job, conversationRow, handler, accepted, seen, mapped>>
          /\ \A k \in Messages : k # m => written'[k] = written[k]
          /\ written'[m].recorded <=> conversationRow = written'[m].conversation
      BY <1>1, <2>1 DEF Write, rows, history, Core, NotesOK
    <2>3. m \notin accepted /\ job[m] = NoRow /\ \A h \in Handlers : handler[h].pc # "rest" => handler[h].message # m
      BY <2>2 DEF AcceptInv
    <2>4. AcceptedHasJob'
      BY <2>2, <2>3 DEF AcceptInv, AcceptedHasJob, Core, RequestsOK
    <2> QED
      BY <2>2, <2>3, <2>4 DEF AcceptInv, Core, RequestsOK
  <1>2. ASSUME NEW h \in Handlers, Post(h) PROVE AcceptInv'
    <2>1. PICK m \in Messages, id \in Deliveries \cup {Null} :
            /\ written[m] # Null
            /\ handler' = IF Forwarded(m)
                          THEN [handler EXCEPT ![h] = [pc |-> "open", message |-> m, id |-> id]]
                          ELSE handler
            /\ accepted' = IF Forwarded(m) THEN accepted ELSE accepted \cup {m}
      BY <1>2 DEF Post
    <2>2. UNCHANGED <<job, written, conversationRow, seen, mapped>>
      BY <1>2 DEF Post, chatwoot, rows
    <2>3. \A g \in Handlers : handler'[g] = handler[g] \/ (handler'[g].message = m /\ written[m].public)
      BY <2>1 DEF Core, RequestsOK, Forwarded
    <2>4. AcceptedHasJob'
      BY <2>1, <2>2 DEF AcceptInv, AcceptedHasJob, Forwarded
    <2> QED
      BY <2>1, <2>2, <2>3, <2>4 DEF AcceptInv
  <1>3. ASSUME NEW h \in Handlers, RecordDelivery(h) PROVE AcceptInv'
    <2>1. handler[h].pc = "open" /\ UNCHANGED <<job, written, conversationRow, mapped>>
      BY <1>3 DEF RecordDelivery, chatwoot
    <2>2. CASE InsertDelivery(h) /\ UNCHANGED accepted
      <3>1. seen' = seen /\ accepted' = accepted
        BY <2>2 DEF InsertDelivery
      <3>2. \A g \in Handlers : handler'[g] = handler[g] \/ (g = h /\ handler'[g].message = handler[h].message)
        BY <2>1, <2>2, GoesOnType DEF InsertDelivery, Core, RequestsOK
      <3>3. AcceptedHasJob'
        BY <2>1, <3>1 DEF AcceptInv, AcceptedHasJob
      <3> QED
        BY <2>1, <3>1, <3>2, <3>3 DEF AcceptInv
    <2>3. CASE Delivery(h) \cap seen # {} /\ Answer(h) /\ UNCHANGED seen
      <3>1. handler[h].message \in Messages /\ handler[h].id \in Deliveries /\ <<handler[h].message, handler[h].id>> \in seen
        BY <2>1, <2>3, AnswerType DEF Delivery, Core, RequestsOK, Requests
      <3>2. handler[h].message \in accepted
        BY <3>1 DEF AcceptInv
      <3>3. written[handler[h].message].recorded => job[handler[h].message] # NoRow
        BY <2>1, <3>1, <3>2 DEF AcceptInv, AcceptedHasJob
      <3> QED
        BY <2>1, <2>3, <3>3, AcceptAnswer
    <2> QED
      BY <1>3, <2>2, <2>3 DEF RecordDelivery
  <1>4. ASSUME NEW h \in Handlers, FindConversation(h) PROVE AcceptInv'
    <2>1. handler[h].pc = "recorded" /\ UNCHANGED <<job, written, conversationRow, mapped>>
      BY <1>4 DEF FindConversation, chatwoot
    <2>2. CASE handler' = [handler EXCEPT ![h].pc = "found"] /\ UNCHANGED <<seen, accepted>>
      <3>1. \A g \in Handlers : handler'[g] = handler[g] \/ (g = h /\ handler'[g].message = handler[h].message)
        BY <2>1, <2>2, GoesOnType DEF Core, RequestsOK
      <3>2. AcceptedHasJob'
        BY <2>1, <2>2 DEF AcceptInv, AcceptedHasJob
      <3> QED
        BY <2>1, <2>2, <3>1, <3>2 DEF AcceptInv
    <2>3. CASE ~Wanted(handler[h].message) /\ seen' = seen \cup Delivery(h) /\ Answer(h)
      <3>1. handler[h].message \in Messages /\ written[handler[h].message] # Null
        BY <2>1, AnswerType, <2>3 DEF Answer, AcceptInv
      <3>2. written[handler[h].message].recorded => job[handler[h].message] # NoRow
        BY <2>3, <3>1 DEF Wanted, AcceptInv
      <3> QED
        BY <2>1, <2>3, <3>2, AcceptAnswer
    <2> QED
      BY <1>4, <2>2, <2>3 DEF FindConversation
  <1>5. ASSUME NEW h \in Handlers, CreateJob(h) PROVE AcceptInv'
    <2> DEFINE n == handler[h].message
    <2>1. /\ handler[h].pc = "found" /\ Answer(h) /\ seen' = seen \cup Delivery(h)
          /\ UNCHANGED <<written, conversationRow, mapped>>
      BY <1>5 DEF CreateJob, chatwoot
    <2>2. n \in Messages /\ n \in Jobs
      BY <2>1, AnswerType DEF Answer, Jobs
    <2>3. /\ \A m \in Messages : m # n => job'[m] = job[m]
          /\ job'[n] # NoRow
      BY <1>5, <2>2, NewRowType DEF CreateJob, InsertedJob, Core, RowsOK, Jobs
    <2> QED
      BY <2>1, <2>2, <2>3, AcceptAnswer
  <1>6. ASSUME NEW h \in Handlers, RequestFails(h) PROVE AcceptInv'
    <2>1. UNCHANGED <<job, written, conversationRow, seen, mapped, accepted>>
      BY <1>6 DEF RequestFails, chatwoot, rows, history
    <2>2. \A g \in Handlers : handler'[g] = handler[g] \/ handler'[g].pc = "rest"
      BY <1>6 DEF RequestFails, NoRequest, Core, RequestsOK
    <2>3. AcceptedHasJob'
      BY <2>1 DEF AcceptInv, AcceptedHasJob
    <2> QED
      BY <2>1, <2>2, <2>3 DEF AcceptInv
  <1>7. ASSUME NEW j \in Jobs, TakeJob(j) PROVE AcceptInv'
    <2> DEFINE row == [job[j] EXCEPT !.status = "processing", !.attempts = @ + 1]
    <2>1. row.status = "processing" /\ job' = [job EXCEPT ![j] = row] /\ job[j].status = "pending"
      BY <1>7, TakenType DEF TakeJob, Core, RowsOK
    <2> HIDE DEF row
    <2>2. \A m \in Messages : job'[m] = NoRow <=> job[m] = NoRow
      BY <2>1, AcceptRow
    <2> QED
      BY <1>7, <2>2, AcceptWorker DEF TakeJob, chatwoot, history
  <1>8. CASE CallFails \/ ChatwootDenies \/ OtherHostDenies \/ CreateContact \/ KnownContact \/ CreateConversation
             \/ KnownConversation \/ PostMessage \/ Upload \/ Send
    <2>1. UNCHANGED <<written, handler, accepted, seen, job, conversationRow, mapped>>
      BY <1>8 DEF CallFails, ChatwootDenies, OtherHostDenies, CreateContact, KnownContact, CreateConversation,
                  KnownConversation, PostMessage, Upload, Send, chatwoot, rows, history
    <2> QED
      BY <2>1, AcceptWorker
  <1>9. CASE Finish
    <2> DEFINE row == [job[worker.job] EXCEPT !.status = "succeeded", !.kept = 0]
    <2>1. worker.job \in Jobs /\ job[worker.job].status = "processing"
      BY <1>9 DEF Finish, Core, WorkerOK, OwnerOK
    <2>2. row.status = "succeeded" /\ job' = [job EXCEPT ![worker.job] = row]
      BY <1>9, <2>1, FinishedType DEF Finish, Core, RowsOK
    <2> HIDE DEF row
    <2>3. \A m \in Messages : job'[m] = NoRow <=> job[m] = NoRow
      BY <2>1, <2>2, AcceptRow
    <2>4. \A m \in mapped' \ mapped : m \in Messages /\ job[m] # NoRow
      BY <1>9, <2>1, NewRowType DEF Finish
    <2>5. conversationRow' = conversationRow \/ conversationRow = 0
      BY <1>9 DEF Finish, Core, WorkerOK
    <2> QED
      BY <1>9, <2>3, <2>4, <2>5, AcceptWorker DEF Finish, chatwoot
  <1>10. CASE Fail
    <2> DEFINE row == [AfterFailure(job[worker.job]) EXCEPT !.kept = worker.kept]
    <2>1. worker.job \in Jobs /\ job[worker.job].status = "processing" /\ job[worker.job] \in Rows /\ worker.kept \in Nat
      BY <1>10 DEF Fail, Core, WorkerOK, OwnerOK, RowsOK, Attempts
    <2>2. row.status # "none" /\ job' = [job EXCEPT ![worker.job] = row]
      BY <1>10, <2>1, AfterFailureType DEF Fail
    <2> HIDE DEF row
    <2>3. \A m \in Messages : job'[m] = NoRow <=> job[m] = NoRow
      BY <2>1, <2>2, AcceptRow
    <2>4. conversationRow' = conversationRow \/ conversationRow = 0
      BY <1>10 DEF Fail, RowAfterFailure, Core, WorkerOK
    <2> QED
      BY <1>10, <2>3, <2>4, AcceptWorker DEF Fail, chatwoot, history
  <1>11. CASE Crash
    <2> DEFINE row == AfterFailure(job[worker.job])
    <2>1. worker.job \in Jobs /\ job[worker.job].status = "processing" /\ job[worker.job] \in Rows
      BY <1>11 DEF Crash, Core, WorkerOK, OwnerOK, RowsOK
    <2>2. row.status # "none" /\ job' = [job EXCEPT ![worker.job] = row]
      BY <1>11, <2>1, AfterFailureType DEF Crash
    <2> HIDE DEF row
    <2>3. \A m \in Messages : job'[m] = NoRow <=> job[m] = NoRow
      BY <2>1, <2>2, AcceptRow
    <2> QED
      BY <1>11, <2>3, AcceptWorker DEF Crash, chatwoot
  <1>12. CASE UNCHANGED vars
    BY <1>12, AcceptWorker DEF vars, chatwoot, rows, history
  <1> QED
    BY <1>1, <1>2, <1>3, <1>4, <1>5, <1>6, <1>7, <1>8, <1>9, <1>10, <1>11, <1>12 DEF Next, Work, Webhook

\* No delivery id blocks the repetition of a failed request.
THEOREM AcceptedHold == Spec => []AcceptedHasJob
  <1>1. AcceptInv => AcceptedHasJob
    BY DEF AcceptInv
  <1> QED
    BY <1>1, AcceptInit, AcceptStep, CoreHolds, PTL DEF Spec

---------------------------------------------------------------------------
(* A message is sent once *)

\* A message that went out without doubt is done with, or about to be; and an
\* attempt sends at most once.
SentInv ==
    \A m \in Messages :
        /\ m \notin unsure /\ sent[m] > 0 => job[m].status = "succeeded" \/ (worker.job = m /\ worker.pc = "done")
        /\ m \notin unsure => sent[m] <= 1
        /\ sent[m] <= job[m].attempts
        /\ worker.job = m /\ worker.pc = "files" => sent[m] < job[m].attempts
        /\ worker.job = m /\ worker.pc = "done" => sent[m] > 0

LEMMA SentInit == Init => SentInv
  <1> SUFFICES ASSUME Init PROVE SentInv
    OBVIOUS
  <1>1. \A m \in Messages : job[m].attempts = 0 /\ sent[m] = 0
    BY NewRowType DEF Init, Jobs
  <1>2. worker.pc = "rest"
    BY DEF Init, AtRest
  <1> QED
    BY <1>1, <1>2 DEF SentInv

\* Steps that send nothing and leave the attempt where it is, or let it fail, or
\* work on an inbound job.
LEMMA SentFrame ==
    ASSUME Core, SentInv, sent' = sent, unsure \subseteq unsure',
           \A m \in Messages : job'[m] = job[m] \/ (job[m] = NoRow /\ job'[m] = NewRow),
           \/ worker' = worker
           \/ worker'.job = worker.job /\ worker.pc # "done" /\ worker'.pc = "failed"
           \/ worker'.job = worker.job /\ worker.pc = "files" /\ worker'.pc = "files"
           \/ worker'.job = worker.job /\ worker.job \in InboundJobs
    PROVE  SentInv'
  <1> SUFFICES ASSUME NEW m \in Messages
               PROVE  /\ m \notin unsure' /\ sent'[m] > 0 =>
                            job'[m].status = "succeeded" \/ (worker'.job = m /\ worker'.pc = "done")
                      /\ m \notin unsure' => sent'[m] <= 1
                      /\ sent'[m] <= job'[m].attempts
                      /\ worker'.job = m /\ worker'.pc = "files" => sent'[m] < job'[m].attempts
                      /\ worker'.job = m /\ worker'.pc = "done" => sent'[m] > 0
    BY DEF SentInv
  <1>1. m \notin InboundJobs /\ job[m] \in Rows /\ sent[m] \in Nat /\ m \in Jobs
    BY BridgeAssumption DEF Jobs, Core, RowsOK, HistoryOK
  <1>2. CASE job'[m] = job[m]
    BY <1>1, <1>2 DEF SentInv
  <1>3. CASE job[m] = NoRow /\ job'[m] = NewRow
    <2>1. sent[m] = 0 /\ worker.job # m /\ worker'.job # m
      BY <1>1, <1>3, NewRowType DEF SentInv, Core, OwnerOK
    <2> QED
      BY <1>1, <1>3, <2>1, NewRowType
  <1> QED
    BY <1>2, <1>3

\* An attempt ends: a message that it sent without doubt is done with.
LEMMA SentEnd ==
    ASSUME Core, SentInv, worker.pc # "rest", worker' = AtRest, sent' = sent, unsure \subseteq unsure',
           NEW row \in Rows, row.attempts = job[worker.job].attempts, job' = [job EXCEPT ![worker.job] = row],
           row.status = "succeeded" \/ worker.pc # "done" \/ worker.job \in unsure'
    PROVE  SentInv'
  <1> SUFFICES ASSUME NEW m \in Messages
               PROVE  /\ m \notin unsure' /\ sent'[m] > 0 => job'[m].status = "succeeded"
                      /\ m \notin unsure' => sent'[m] <= 1
                      /\ sent'[m] <= job'[m].attempts
                      /\ worker'.job # m
    BY DEF SentInv
  <1>1. m \in Jobs /\ sent[m] \in Nat /\ job[m] \in Rows
    BY DEF Jobs, Core, RowsOK, HistoryOK
  <1>2. worker'.job = Null /\ worker.job \in Jobs /\ job[worker.job].status = "processing"
    BY DEF AtRest, Core, WorkerOK, OwnerOK
  <1>3. CASE m # worker.job
    BY <1>1, <1>2, <1>3, BridgeAssumption DEF SentInv, Core, RowsOK
  <1>4. CASE m = worker.job
    <2>1. job'[m] = row
      BY <1>1, <1>4 DEF Core, RowsOK
    <2> QED
      BY <1>1, <1>2, <1>4, <2>1, BridgeAssumption DEF SentInv
  <1> QED
    BY <1>3, <1>4

LEMMA SentStep == Core /\ SentInv /\ [Next]_vars => SentInv'
  <1> SUFFICES ASSUME Core, SentInv, [Next]_vars PROVE SentInv'
    OBVIOUS
  <1> USE BridgeAssumption
  <1>1. ASSUME NEW m \in Messages, Write(m) PROVE SentInv'
    BY <1>1, SentFrame DEF Write, rows, zzap, history
  <1>2. ASSUME NEW h \in Handlers, Webhook(h) PROVE SentInv'
    <2>1. worker' = worker /\ sent' = sent /\ unsure' = unsure
      BY <1>2 DEF Webhook, Post, RecordDelivery, FindConversation, CreateJob, RequestFails, zzap, history
    <2>2. \A m \in Messages : job'[m] = job[m] \/ (job[m] = NoRow /\ job'[m] = NewRow)
      <3>1. job' = job \/ CreateJob(h)
        BY <1>2 DEF Webhook, Post, RecordDelivery, FindConversation, RequestFails, rows
      <3>2. CASE CreateJob(h)
        BY <3>2 DEF CreateJob, InsertedJob, Core, RowsOK, Jobs
      <3> QED
        BY <3>1, <3>2
    <2> QED
      BY <2>1, <2>2, SentFrame
  <1>3. ASSUME NEW j \in Jobs, TakeJob(j) PROVE SentInv'
    <2> DEFINE row == [job[j] EXCEPT !.status = "processing", !.attempts = @ + 1]
    <2>1. /\ job[j] \in Rows /\ row.attempts = job[j].attempts + 1 /\ job' = [job EXCEPT ![j] = row]
          /\ job[j].status = "pending"
      BY <1>3, TakenType DEF TakeJob, Core, RowsOK
    <2> HIDE DEF row
    <2>2. worker'.job = j /\ worker'.pc # "done" /\ sent' = sent /\ unsure' = unsure
      <3>1. worker'.job = j /\ worker'.pc # "done"
        BY <1>3, StartType
      <3>2. sent' = sent /\ unsure' = unsure
        BY <1>3 DEF TakeJob, zzap, history
      <3> QED
        BY <3>1, <3>2
    <2>3. \A m \in Messages : worker.job # m
      BY <1>3 DEF TakeJob, Core, WorkerOK, AtRest, Jobs
    <2>4. ASSUME NEW m \in Messages
          PROVE  /\ m \notin unsure /\ sent[m] > 0 => job'[m].status = "succeeded"
                 /\ m \notin unsure => sent[m] <= 1
                 /\ sent[m] <= job'[m].attempts
                 /\ m = j => sent[m] < job'[m].attempts
      <3>1. m \in Jobs /\ sent[m] \in Nat /\ job[m].attempts \in Nat /\ sent[m] <= job[m].attempts
        BY DEF Jobs, Core, RowsOK, Rows, HistoryOK, SentInv
      <3>2. m \notin unsure => sent[m] <= 1 /\ (sent[m] > 0 => job[m].status = "succeeded")
        BY <2>3 DEF SentInv
      <3>3. job'[m] = IF m = j THEN row ELSE job[m]
        BY <2>1, <3>1 DEF Core, RowsOK
      <3> QED
        BY <2>1, <3>1, <3>2, <3>3
    <2> QED
      BY <2>2, <2>4 DEF SentInv
  <1>4. CASE CallFails \/ ChatwootDenies \/ OtherHostDenies
    <2>1. sent' = sent /\ unsure' = unsure /\ job' = job
      BY <1>4 DEF CallFails, ChatwootDenies, OtherHostDenies, zzap, history, rows
    <2> QED
      BY <1>4, <2>1, CallFailsBecomes, SentFrame DEF Becomes
  <1>5. CASE CreateContact \/ KnownContact \/ CreateConversation \/ KnownConversation \/ PostMessage
    <2>1. sent' = sent /\ unsure \subseteq unsure' /\ job' = job
      BY <1>5 DEF CreateContact, KnownContact, CreateConversation, KnownConversation, PostMessage, zzap, history, rows
    <2>2. worker'.job = worker.job /\ worker.job \in InboundJobs
      BY <1>5, CreateContactBecomes, KnownContactBecomes, CreateConversationBecomes, KnownConversationBecomes,
         PostMessageBecomes DEF Becomes
    <2> QED
      BY <2>1, <2>2, SentFrame
  <1>6. CASE Upload
    <2>1. sent' = sent /\ unsure \subseteq unsure' /\ job' = job
      BY <1>6 DEF Upload, rows
    <2>2. worker'.job = worker.job /\ worker.pc = "files" /\ worker'.pc \in {"files", "failed"}
      BY <1>6, UploadBecomes DEF Becomes
    <2> QED
      BY <2>1, <2>2, SentFrame
  <1>7. CASE Send
    <2> DEFINE n == worker.job
    <2>1. /\ n \in Messages /\ worker.pc = "files" /\ job' = job /\ sent' = [sent EXCEPT ![n] = @ + 1]
          /\ worker'.job = n
          /\ \/ worker'.pc = "done" /\ unsure' = unsure
             \/ worker'.pc = "failed" /\ n \in unsure' /\ unsure \subseteq unsure'
      BY <1>7, SendBecomes DEF Send, rows, Becomes
    <2>2. n \in Jobs /\ job[n].status = "processing"
      BY <2>1 DEF Jobs, Core, OwnerOK
    <2> HIDE DEF n
    <2>3. ASSUME NEW m \in Messages
          PROVE  /\ m \notin unsure' /\ sent'[m] > 0 =>
                            job'[m].status = "succeeded" \/ (worker'.job = m /\ worker'.pc = "done")
                 /\ m \notin unsure' => sent'[m] <= 1
                 /\ sent'[m] <= job'[m].attempts
                 /\ worker'.job = m /\ worker'.pc = "files" => sent'[m] < job'[m].attempts
                 /\ worker'.job = m /\ worker'.pc = "done" => sent'[m] > 0
      <3>1. m \in Jobs /\ sent[m] \in Nat /\ job[m].attempts \in Nat
        BY DEF Jobs, Core, RowsOK, Rows, HistoryOK
      <3>2. sent'[m] = IF m = n THEN sent[m] + 1 ELSE sent[m]
        BY <2>1 DEF Core, HistoryOK
      <3>3. CASE m = n
        <4>1. sent[m] < job[m].attempts /\ (m \notin unsure => sent[m] = 0)
          BY <2>1, <2>2, <3>1, <3>3 DEF SentInv, n
        <4> QED
          BY <2>1, <3>1, <3>2, <3>3, <4>1
      <3>4. CASE m # n
        BY <2>1, <3>1, <3>2, <3>4 DEF SentInv, n
      <3> QED
        BY <3>3, <3>4
    <2> QED
      BY <2>3 DEF SentInv
  <1>8. CASE Finish
    <2> DEFINE row == [job[worker.job] EXCEPT !.status = "succeeded", !.kept = 0]
    <2>1. /\ row \in Rows /\ row.status = "succeeded" /\ row.attempts = job[worker.job].attempts
          /\ job' = [job EXCEPT ![worker.job] = row]
      BY <1>8, FinishedType DEF Finish, Core, WorkerOK, RowsOK
    <2> HIDE DEF row
    <2> QED
      BY <1>8, <2>1, SentEnd DEF Finish, zzap
  <1>9. CASE Fail
    <2> DEFINE row == [AfterFailure(job[worker.job]) EXCEPT !.kept = worker.kept]
    <2>1. row \in Rows /\ row.attempts = job[worker.job].attempts /\ job' = [job EXCEPT ![worker.job] = row]
      BY <1>9, AfterFailureType DEF Fail, Core, WorkerOK, RowsOK, Attempts
    <2> HIDE DEF row
    <2> QED
      BY <1>9, <2>1, SentEnd DEF Fail, zzap, history
  <1>10. CASE Crash
    <2> DEFINE row == AfterFailure(job[worker.job])
    <2>1. row \in Rows /\ row.attempts = job[worker.job].attempts /\ job' = [job EXCEPT ![worker.job] = row]
      BY <1>10, AfterFailureType DEF Crash, Core, WorkerOK, RowsOK
    <2> HIDE DEF row
    <2>2. /\ worker.pc # "rest" /\ worker' = AtRest /\ sent' = sent /\ unsure \subseteq unsure'
          /\ worker.pc # "done" \/ worker.job \in unsure'
      BY <1>10 DEF Crash, TookEffect, zzap
    <2> QED
      BY <2>1, <2>2, SentEnd
  <1>11. CASE UNCHANGED vars
    BY <1>11, SentFrame DEF vars, rows, zzap, history
  <1> QED
    BY <1>1, <1>2, <1>3, <1>4, <1>5, <1>6, <1>7, <1>8, <1>9, <1>10, <1>11 DEF Next, Work

LEMMA SentHolds == Spec => []SentInv
  BY SentInit, SentStep, CoreHolds, PTL DEF Spec

\* However often Chatwoot reports a message, the customer gets it once, unless a
\* call took effect without its outcome being recorded.
THEOREM SentOnceHolds == Spec => []MessageSentOnce
  <1>1. SentInv => MessageSentOnce
    BY DEF SentInv, MessageSentOnce
  <1> QED
    BY <1>1, SentHolds, PTL

---------------------------------------------------------------------------
(* Webhook and worker keep the contract of the queue *)

LEMMA BridgeContractStart == Init => Contract!ContractInit
  <1> SUFFICES ASSUME Init PROVE Contract!ContractInit
    OBVIOUS
  <1>1. \A m \in Messages : PhaseOf(job[m]) = "absent"
    BY BridgeAssumption DEF Init, NoRow, PhaseOf, Jobs
  <1> QED
    BY <1>1 DEF Init, Contract!ContractInit

\* Where the row of a message may go in one step.
RowMoves(m) ==
    \/ job'[m] = job[m]
    \/ job[m].status = "none" /\ job'[m].status = "pending"
    \/ job[m].status = "pending" /\ job'[m].status = "processing"
    \/ job[m].status = "processing" /\ job'[m].status \in {"pending", "failed"}
    \/ job[m].status = "processing" /\ job'[m].status = "succeeded" /\ worker.job = m /\ worker.pc = "done"

LEMMA RowStep == Core /\ [Next]_vars => \A m \in Messages : RowMoves(m)
  <1> SUFFICES ASSUME Core, [Next]_vars, NEW m \in Messages PROVE RowMoves(m)
    OBVIOUS
  <1>1. m \in Jobs /\ job[m] \in Rows
    BY DEF Jobs, Core, RowsOK
  <1>2. CASE job' = job
    BY <1>2 DEF RowMoves
  <1>3. ASSUME NEW h \in Handlers, CreateJob(h) PROVE RowMoves(m)
    <2>1. job'[m] = job[m] \/ (job[m] = NoRow /\ job'[m] = NewRow)
      BY <1>1, <1>3 DEF CreateJob, InsertedJob, Core, RowsOK
    <2> QED
      BY <2>1, NewRowType DEF RowMoves
  <1>4. ASSUME NEW j \in Jobs, TakeJob(j) PROVE RowMoves(m)
    <2> DEFINE row == [job[j] EXCEPT !.status = "processing", !.attempts = @ + 1]
    <2>1. row.status = "processing" /\ job' = [job EXCEPT ![j] = row] /\ job[j].status = "pending"
      BY <1>4, TakenType DEF TakeJob, Core, RowsOK
    <2> HIDE DEF row
    <2> QED
      BY <1>1, <2>1 DEF RowMoves, Core, RowsOK
  <1>5. CASE Finish
    <2> DEFINE row == [job[worker.job] EXCEPT !.status = "succeeded", !.kept = 0]
    <2>1. row.status = "succeeded" /\ job' = [job EXCEPT ![worker.job] = row] /\ worker.pc = "done"
          /\ job[worker.job].status = "processing"
      BY <1>5, FinishedType DEF Finish, Core, WorkerOK, OwnerOK, RowsOK
    <2> HIDE DEF row
    <2> QED
      BY <1>1, <2>1 DEF RowMoves, Core, RowsOK
  <1>6. CASE Fail
    <2> DEFINE row == [AfterFailure(job[worker.job]) EXCEPT !.kept = worker.kept]
    <2>1. row.status \in {"pending", "failed"} /\ job' = [job EXCEPT ![worker.job] = row]
          /\ job[worker.job].status = "processing"
      BY <1>6, AfterFailureType DEF Fail, Core, WorkerOK, OwnerOK, RowsOK, Attempts
    <2> HIDE DEF row
    <2> QED
      BY <1>1, <2>1 DEF RowMoves, Core, RowsOK
  <1>7. CASE Crash
    <2> DEFINE row == AfterFailure(job[worker.job])
    <2>1. row.status \in {"pending", "failed"} /\ job' = [job EXCEPT ![worker.job] = row]
          /\ job[worker.job].status = "processing"
      BY <1>7, AfterFailureType DEF Crash, Core, WorkerOK, OwnerOK, RowsOK, Attempts
    <2> HIDE DEF row
    <2> QED
      BY <1>1, <2>1 DEF RowMoves, Core, RowsOK
  <1> QED
    BY <1>2, <1>3, <1>4, <1>5, <1>6, <1>7
       DEF Next, Work, Write, Webhook, Post, RecordDelivery, FindConversation, RequestFails, CallFails, ChatwootDenies,
           OtherHostDenies, CreateContact, KnownContact, CreateConversation, KnownConversation, PostMessage,
           Upload, Send, vars, rows

\* Every step is a step of the contract, or leaves it where it was.
LEMMA BridgeContractStep ==
    Core /\ SentInv /\ [Next]_vars => [Contract!ContractNext]_(Contract!cvars)
  <1> SUFFICES ASSUME Core, SentInv, [Next]_vars
               PROVE  Contract!ContractNext \/ UNCHANGED Contract!cvars
    OBVIOUS
  <1>1. CASE sent' = sent
    <2> DEFINE ph == [m \in Messages |-> PhaseOf(job[m])]
    <2>1. \A m \in Messages : job'[m] \in Rows /\ PhaseOf(job'[m]) \in {"absent", "open", "done", "dropped"}
      BY CoreStep DEF Core, RowsOK, Rows, PhaseOf, Jobs
    <2>2. ph' \in [Messages -> {"absent", "open", "done", "dropped"}]
      BY <2>1
    <2>3. ASSUME NEW m \in Messages PROVE Contract!Moves(m)
      <3>1. RowMoves(m)
        BY RowStep
      <3>2. worker.job = m /\ worker.pc = "done" => sent[m] > 0
        BY DEF SentInv
      <3>3. ph[m] = PhaseOf(job[m]) /\ ph'[m] = PhaseOf(job'[m])
        OBVIOUS
      <3> HIDE DEF ph
      <3> QED
        BY <3>1, <3>2, <3>3 DEF Contract!Moves, RowMoves, PhaseOf, ph
    <2> QED
      BY <1>1, <2>2, <2>3 DEF Contract!ContractNext, Contract!Settle
  <1>2. CASE Send
    <2> DEFINE m == worker.job
    <2>1. m \in Messages /\ m \in Jobs /\ job[m].status = "processing" /\ worker.pc = "files"
      BY <1>2, SendBecomes DEF Jobs, Core, OwnerOK
    <2>2. sent[m] < MaxAttempts
      <3>1. sent[m] < job[m].attempts /\ sent[m] \in Nat /\ job[m].attempts \in 0 .. MaxAttempts
        BY <2>1 DEF SentInv, Core, RowsOK, Rows, HistoryOK
      <3> QED
        BY <3>1, BridgeAssumption
    <2>3. PhaseOf(job[m]) = "open"
      BY <2>1 DEF PhaseOf
    <2>4. sent' = [sent EXCEPT ![m] = @ + 1] /\ job' = job
      BY <1>2 DEF Send, rows
    <2> QED
      BY <2>1, <2>2, <2>3, <2>4 DEF Contract!ContractNext, Contract!Apply
  <1> QED
    BY <1>1, <1>2
       DEF Next, Work, Write, Webhook, Post, RecordDelivery, FindConversation, CreateJob, RequestFails, TakeJob,
           CallFails, ChatwootDenies, OtherHostDenies, CreateContact, KnownContact, CreateConversation,
           KnownConversation, PostMessage, Upload, Finish, Fail, Crash, vars, zzap

\* What operators write passes through webhook and worker as the queue promises.
THEOREM ContractKept == Spec => KeepsContract
  BY BridgeContractStart, BridgeContractStep, CoreHolds, SentHolds, PTL DEF Spec, KeepsContract, Contract!ContractSpec

---------------------------------------------------------------------------
(* The flag tells what Chatwoot said last *)

FlagAgrees == (verdict = "denied" => authFailed) /\ (verdict = "accepted" => ~authFailed)

\* Only an attempt that was denied, or an inbound one that is done, is ahead of the
\* flag, and its end brings the flag up to date.
Ahead ==
    \/ worker.pc = "failed" /\ worker.error = "denied"
    \/ worker.pc = "done" /\ worker.job \in InboundJobs

FlagInv ==
    ~misled =>
        /\ worker.pc = "failed" /\ worker.error = "denied" => verdict = "denied"
        /\ worker.pc = "done" /\ worker.job \in InboundJobs => verdict = "accepted"
        /\ Ahead \/ FlagAgrees

LEMMA FlagInit == Init => FlagInv
  BY DEF Init, FlagInv, FlagAgrees, Ahead, AtRest

\* Steps after which the attempt is not ahead, and neither flag nor verdict moved.
LEMMA FlagFrame ==
    ASSUME FlagInv, UNCHANGED <<verdict, misled, authFailed>>, worker' = worker \/ (~Ahead /\ ~Ahead')
    PROVE  FlagInv'
  <1>1. CASE worker' = worker
    BY <1>1 DEF FlagInv, FlagAgrees, Ahead
  <1>2. CASE ~Ahead /\ ~Ahead'
    BY <1>2 DEF FlagInv, FlagAgrees, Ahead
  <1> QED
    BY <1>1, <1>2

LEMMA FlagStep == Core /\ FlagInv /\ [Next]_vars => FlagInv'
  <1> SUFFICES ASSUME Core, FlagInv, [Next]_vars PROVE FlagInv'
    OBVIOUS
  <1> USE BridgeAssumption
  <1>1. ASSUME NEW m \in Messages, Write(m) PROVE FlagInv'
    BY <1>1, FlagFrame DEF Write, history
  <1>2. ASSUME NEW h \in Handlers, Webhook(h) PROVE FlagInv'
    BY <1>2, FlagFrame DEF Webhook, Post, RecordDelivery, FindConversation, CreateJob, RequestFails, history
  <1>3. ASSUME NEW j \in Jobs, TakeJob(j) PROVE FlagInv'
    <2>1. UNCHANGED <<verdict, misled, authFailed>> /\ worker.pc = "rest"
      BY <1>3 DEF TakeJob, history
    <2>2. worker'.pc \in {"contact", "files"}
      BY <1>3, StartType
    <2> QED
      BY <2>1, <2>2, FlagFrame DEF Ahead
  <1>4. CASE CallFails
    <2>1. UNCHANGED <<verdict, misled, authFailed>>
      BY <1>4 DEF CallFails, history
    <2>2. worker.pc \in {"contact", "conversation", "post", "files"}
      BY <1>4, CallFailsBecomes
    <2>3. worker'.error = "error"
      BY <1>4, FailedBecomes DEF CallFails, Becomes, Core, WorkerOK
    <2>4. worker'.pc = "failed"
      BY <1>4, CallFailsBecomes DEF Becomes
    <2> QED
      BY <2>1, <2>2, <2>3, <2>4, FlagFrame DEF Ahead
  <1>5. CASE ChatwootDenies
    <2>1. worker'.pc = "failed" /\ worker'.error = "denied"
      BY <1>5, FailedBecomes DEF ChatwootDenies, Becomes, Core, WorkerOK
    <2>2. verdict' = "denied"
      BY <1>5 DEF ChatwootDenies
    <2> QED
      BY <2>1, <2>2 DEF FlagInv, Ahead
  <1>6. CASE OtherHostDenies
    BY <1>6 DEF OtherHostDenies, FlagInv
  <1>7. CASE CreateContact \/ KnownContact \/ CreateConversation \/ KnownConversation
    <2>1. UNCHANGED <<verdict, misled, authFailed>>
      BY <1>7 DEF CreateContact, KnownContact, CreateConversation, KnownConversation, history
    <2>2. /\ worker.pc \in {"contact", "conversation"}
          /\ worker'.pc \in {"conversation", "post"} \/ (worker'.pc = "failed" /\ worker'.error = "error")
      BY <1>7, CreateContactBecomes, KnownContactBecomes, CreateConversationBecomes, KnownConversationBecomes
         DEF Becomes
    <2> QED
      BY <2>1, <2>2, FlagFrame DEF Ahead
  <1>8. CASE PostMessage
    <2>1. CASE worker'.pc = "done" /\ verdict' = "accepted"
      BY <2>1, <1>8, PostMessageBecomes DEF FlagInv, Ahead, Becomes
    <2>2. CASE worker'.pc = "failed" /\ worker'.error = "error" /\ UNCHANGED <<verdict, misled>>
      <3>1. authFailed' = authFailed /\ worker.pc = "post"
        BY <1>8 DEF PostMessage
      <3> QED
        BY <2>2, <3>1, FlagFrame DEF Ahead
    <2> QED
      BY <1>8, <2>1, <2>2, PostMessageBecomes DEF Becomes
  <1>9. CASE Upload \/ Send
    <2>1. UNCHANGED <<verdict, misled, authFailed>>
      BY <1>9 DEF Upload, Send
    <2>2. /\ worker.pc = "files" /\ worker.job \in Messages /\ worker'.job = worker.job
          /\ worker'.pc \in {"files", "done"} \/ (worker'.pc = "failed" /\ worker'.error = "error")
      BY <1>9, UploadBecomes, SendBecomes DEF Becomes
    <2> QED
      BY <2>1, <2>2, FlagFrame DEF Ahead
  <1>10. CASE Finish
    <2>1. ~Ahead'
      BY <1>10 DEF Finish, Ahead, AtRest
    <2>2. worker.pc = "done" /\ worker.job \in Jobs
      BY <1>10 DEF Finish, Core, WorkerOK
    <2>3. ~misled' => FlagAgrees'
      <3>1. CASE worker.job \in InboundJobs
        <4>1. worker.job \notin Messages /\ job[worker.job].kept \in Nat
          BY <2>2, <3>1 DEF Core, RowsOK, Rows
        <4>2. UNCHANGED <<verdict, misled>>
          <5>1. ~(job[worker.job].kept < 0)
            BY <4>1
          <5> QED
            BY <1>10, <4>1, <5>1 DEF Finish, Telling
        <4>3. ~authFailed'
          BY <1>10, <3>1 DEF Finish, ClearsFlag
        <4>4. misled \/ verdict = "accepted"
          BY <2>2, <3>1 DEF FlagInv
        <4> QED
          BY <4>2, <4>3, <4>4 DEF FlagAgrees
      <3>2. CASE worker.job \in Messages
        <4>1. worker.job \notin InboundJobs /\ ~Ahead
          BY <2>2, <3>2 DEF Ahead
        <4>2. CASE Files[worker.job] = 0
          <5>1. authFailed' = (authFailed /\ TRUE)
            BY <1>10, <4>1, <4>2 DEF Finish, ClearsFlag
          <5>2. UNCHANGED <<verdict, misled>>
            <6>1. job[worker.job].kept \in Nat
              BY <2>2 DEF Core, RowsOK, Rows
            <6>2. ~(job[worker.job].kept < 0)
              BY <6>1
            <6> QED
              BY <1>10, <3>2, <4>2, <6>2 DEF Finish, Telling
          <5> QED
            BY <4>1, <5>1, <5>2 DEF FlagInv, FlagAgrees
        <4>3. CASE Files[worker.job] # 0
          <5>1. Files[worker.job] > 0
            BY <3>2, <4>3
          <5>2. ~authFailed'
            BY <1>10, <5>1 DEF Finish, ClearsFlag
          <5>3. misled' \/ verdict' = "accepted"
            BY <1>10, <3>2, <4>3 DEF Finish, Telling
          <5> QED
            BY <5>2, <5>3 DEF FlagAgrees
        <4> QED
          BY <4>2, <4>3
      <3> QED
        BY <2>2, <3>1, <3>2 DEF Jobs
    <2> QED
      BY <2>1, <2>3 DEF FlagInv, Ahead
  <1>11. CASE Fail
    <2>1. ~Ahead' /\ UNCHANGED <<verdict, misled>> /\ authFailed' = (authFailed \/ worker.error = "denied")
          /\ worker.pc = "failed"
      BY <1>11 DEF Fail, Ahead, AtRest, history
    <2>2. ~misled' => FlagAgrees'
      BY <2>1 DEF FlagInv, FlagAgrees, Ahead
    <2> QED
      BY <2>1, <2>2 DEF FlagInv, Ahead
  <1>12. CASE Crash
    <2>1. ~Ahead' /\ UNCHANGED <<verdict, authFailed>> /\ misled' = (misled \/ worker.pc = "done" \/ worker.error = "denied")
      BY <1>12 DEF Crash, Ahead, AtRest
    <2>2. ~misled' => FlagAgrees'
      BY <2>1 DEF FlagInv, FlagAgrees, Ahead
    <2> QED
      BY <2>1, <2>2 DEF FlagInv, Ahead
  <1>13. CASE UNCHANGED vars
    BY <1>13, FlagFrame DEF vars, history
  <1> QED
    BY <1>1, <1>2, <1>3, <1>4, <1>5, <1>6, <1>7, <1>8, <1>9, <1>10, <1>11, <1>12, <1>13 DEF Next, Work

\* Between two jobs the flag is what the last telling answer of Chatwoot made it.
THEOREM FlagHolds == Spec => []FlagCurrent
  <1>1. FlagInv => FlagCurrent
    BY DEF FlagInv, FlagAgrees, FlagCurrent, Ahead
  <1> QED
    BY <1>1, FlagInit, FlagStep, CoreHolds, PTL DEF Spec

---------------------------------------------------------------------------
(* What was created is in use or was lost *)

Used(id) == IF id = 0 THEN 0 ELSE 1

LEMMA UsedCount == ASSUME NEW id PROVE Cardinality({id} \ {0}) = Used(id)
  <1>1. CASE id = 0
    <2>1. {id} \ {0} = {}
      BY <1>1
    <2> QED
      BY <1>1, <2>1, FS_EmptySet DEF Used
  <1>2. CASE id # 0
    <2>1. {id} \ {0} = {id}
      BY <1>2
    <2> QED
      BY <1>2, <2>1, FS_Singleton DEF Used
  <1> QED
    BY <1>1, <1>2

Contact == InUse(worker.contact, contactRow)
Conversation == InUse(worker.conversation, conversationRow)

OrphanInv ==
    /\ contacts + conversations = wasted + Used(Contact) + Used(Conversation)
    /\ wasted = 0 => posted \subseteq {Conversation}

LEMMA OrphanInit == Init => OrphanInv
  BY BridgeAssumption DEF Init, OrphanInv, Used, Contact, Conversation, InUse, AtRest

LEMMA OrphanFrame ==
    ASSUME OrphanInv, UNCHANGED <<contacts, conversations, wasted, posted>>,
           Contact' = Contact, Conversation' = Conversation
    PROVE  OrphanInv'
  BY DEF OrphanInv, Used

LEMMA OrphanStep == Core /\ OrphanInv /\ [Next]_vars => OrphanInv'
  <1> SUFFICES ASSUME Core, OrphanInv, [Next]_vars PROVE OrphanInv'
    OBVIOUS
  <1> USE BridgeAssumption
  <1>0. contacts \in Nat /\ conversations \in Nat /\ wasted \in Nat /\ Contact \in Nat /\ Conversation \in Nat
    BY DEF Core, IdsOK, WorkerOK, Attempts, Contact, Conversation, InUse
  <1>1. ASSUME NEW m \in Messages, Write(m) PROVE OrphanInv'
    BY <1>1, OrphanFrame DEF Write, rows, history, Contact, Conversation, InUse
  <1>2. ASSUME NEW h \in Handlers, Webhook(h) PROVE OrphanInv'
    BY <1>2, OrphanFrame DEF Webhook, Post, RecordDelivery, FindConversation, CreateJob, RequestFails,
                             chatwoot, rows, history, Contact, Conversation, InUse
  <1>3. ASSUME NEW j \in Jobs, TakeJob(j) PROVE OrphanInv'
    <2>1. UNCHANGED <<contacts, conversations, wasted, posted, contactRow, conversationRow>> /\ worker.pc = "rest"
      BY <1>3 DEF TakeJob, chatwoot, history
    <2>2. worker'.contact = contactRow /\ worker'.conversation = conversationRow
      BY <1>3, StartType
    <2>3. worker.job \notin InboundJobs
      BY <2>1 DEF Core, WorkerOK, AtRest
    <2> QED
      BY <2>1, <2>2, <2>3, OrphanFrame DEF Contact, Conversation, InUse
  <1>4. CASE CallFails \/ ChatwootDenies \/ OtherHostDenies
    <2>1. UNCHANGED <<contacts, conversations, wasted, posted, contactRow, conversationRow>>
      BY <1>4 DEF CallFails, ChatwootDenies, OtherHostDenies, chatwoot, history, rows
    <2> QED
      BY <1>4, <2>1, CallFailsBecomes, OrphanFrame DEF Contact, Conversation, InUse, Becomes
  <1>5. CASE KnownContact \/ KnownConversation
    <2>1. UNCHANGED <<contacts, conversations, wasted, posted, contactRow, conversationRow>>
      BY <1>5 DEF KnownContact, KnownConversation, chatwoot, history, rows
    <2> QED
      BY <1>5, <2>1, KnownContactBecomes, KnownConversationBecomes, OrphanFrame
         DEF Contact, Conversation, InUse, Becomes
  <1>6. CASE Upload \/ Send
    <2>1. UNCHANGED <<contacts, conversations, wasted, posted, contactRow, conversationRow>>
      BY <1>6 DEF Upload, Send, chatwoot, rows
    <2> QED
      BY <1>6, <2>1, UploadBecomes, SendBecomes, OrphanFrame DEF Contact, Conversation, InUse, Becomes
  <1>7. CASE CreateContact
    <2>1. /\ contacts' = contacts + 1 /\ UNCHANGED <<conversations, posted, contactRow, conversationRow>>
          /\ Contact = 0
      BY <1>7, CreateContactBecomes DEF CreateContact, rows, Contact, InUse
    <2>2. Conversation' = Conversation
      BY <1>7, <2>1, CreateContactBecomes DEF Conversation, InUse, Becomes
    <2>3. \/ Contact' = contacts + 1 /\ wasted' = wasted
          \/ Contact' = 0 /\ wasted' = wasted + 1
      BY <1>7, <2>1, CreateContactBecomes DEF Contact, InUse, Becomes
    <2> QED
      BY <1>0, <2>1, <2>2, <2>3 DEF OrphanInv, Used
  <1>8. CASE CreateConversation
    <2>1. /\ conversations' = conversations + 1 /\ UNCHANGED <<contacts, posted, contactRow, conversationRow>>
          /\ Conversation = 0
      BY <1>8, CreateConversationBecomes DEF CreateConversation, rows, Conversation, InUse
    <2>2. Contact' = Contact
      BY <1>8, <2>1, CreateConversationBecomes DEF Contact, InUse, Becomes
    <2>3. \/ Conversation' = conversations + 1 /\ wasted' = wasted
          \/ Conversation' = 0 /\ wasted' = wasted + 1
      BY <1>8, <2>1, CreateConversationBecomes DEF Conversation, InUse, Becomes
    <2>4. wasted = 0 => posted = {}
      BY <2>1 DEF OrphanInv, Core, IdsOK
    <2> QED
      BY <1>0, <2>1, <2>2, <2>3, <2>4 DEF OrphanInv, Used
  <1>9. CASE PostMessage
    <2>1. /\ posted' = posted \cup {worker.conversation}
          /\ UNCHANGED <<contacts, conversations, wasted, contactRow, conversationRow>>
      BY <1>9 DEF PostMessage, rows
    <2>2. Contact' = Contact /\ Conversation' = Conversation /\ Conversation = worker.conversation
      BY <1>9, <2>1, PostMessageBecomes DEF Contact, Conversation, InUse, Becomes
    <2> QED
      BY <2>1, <2>2 DEF OrphanInv, Used
  <1>10. ASSUME worker.pc # "rest", worker' = AtRest, UNCHANGED <<contacts, conversations, wasted, posted>>,
                contactRow' = worker.contact, conversationRow' = worker.conversation
         PROVE  OrphanInv'
    <2>1. worker'.job \notin InboundJobs
      BY <1>10 DEF AtRest
    <2>2. worker.job \notin InboundJobs => worker.contact = contactRow /\ worker.conversation = conversationRow
      BY <1>10 DEF Core, WorkerOK
    <2> QED
      BY <1>10, <2>1, <2>2, OrphanFrame DEF Contact, Conversation, InUse
  <1>11. CASE Crash
    <2>1. /\ UNCHANGED <<contacts, conversations, posted, contactRow, conversationRow>>
          /\ wasted' = wasted + (IF worker.contact # contactRow THEN 1 ELSE 0)
                              + (IF worker.conversation # conversationRow THEN 1 ELSE 0)
          /\ worker.pc # "rest" /\ worker' = AtRest
      BY <1>11 DEF Crash, chatwoot
    <2>2. Contact' = contactRow /\ Conversation' = conversationRow
      BY <2>1 DEF AtRest, Contact, Conversation, InUse
    <2>3. /\ Contact # contactRow <=> worker.contact # contactRow
          /\ Conversation # conversationRow <=> worker.conversation # conversationRow
          /\ Contact # contactRow => contactRow = 0
          /\ Conversation # conversationRow => conversationRow = 0
      BY <2>1 DEF Contact, Conversation, InUse, Core, WorkerOK
    <2> QED
      BY <1>0, <2>1, <2>2, <2>3 DEF OrphanInv, Used
  <1>12. CASE UNCHANGED vars
    BY <1>12, OrphanFrame DEF vars, chatwoot, rows, history, Contact, Conversation, InUse
  <1>13. CASE Finish
    BY <1>10, <1>13 DEF Finish, chatwoot
  <1>14. CASE Fail
    BY <1>10, <1>14 DEF Fail, chatwoot, history, RowAfterFailure
  <1> QED
    BY <1>1, <1>2, <1>3, <1>4, <1>5, <1>6, <1>7, <1>8, <1>9, <1>11, <1>12, <1>13, <1>14 DEF Next, Work

\* A contact or conversation that is not used any more was lost with an answer or
\* a crash, and only then are the messages split over two conversations.
THEOREM OrphansHold == Spec => []OrphansExplained
  <1>1. OrphanInv => OrphansExplained
    BY UsedCount DEF OrphanInv, OrphansExplained, Contact, Conversation
  <1> QED
    BY <1>1, OrphanInit, OrphanStep, CoreHolds, PTL DEF Spec
======================================
