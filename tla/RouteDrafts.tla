----------------------------- MODULE RouteDrafts ----------------------------
(* Drafts of evening routes for the back office. Workers make batches of    *)
(* them, from a language model's answer or the planner's; moderators        *)
(* approve, reject, convert to a template and publish.                      *)
(*                                                                          *)
(* Nothing guards a batch against a second worker, and every decision reads *)
(* the draft, acts in commits of its own and writes the draft by its id.    *)
(* Templates are also edited without a draft; of that only archiving is     *)
(* here. The edit of a draft's wording has no operation.                    *)
EXTENDS RoutePlanner

CONSTANTS
    Workers,
    Calls,      \* decisions that may overlap
    Mood, Budget,
    Lists,      \* what the candidates may be when a batch is run
    Answers,    \* what the model may answer: sequences of routes
    MaxDrafts,  \* drafts asked for
    Bounds      \* bounds on batches, scans and decisions

VARIABLES
    batch,      \* GeneratedRouteDraftBatch rows by createdAt
    run,        \* per worker: its scan and the batch it runs
    drafts,     \* GeneratedRouteReviewDraft rows
    templates,  \* EveningRouteTemplate rows made from drafts
    call,       \* per open decision: what it has read and done
    left,       \* what is left of the bounds
    stopped,    \* (history) batches whose worker has crashed
    shared,     \* (history) batches started again by a worker that had read them as pending
    approved,   \* (history) drafts that have been approved
    crossed,    \* (history) drafts written over a status other than the one read
    loose       \* (history) templates of conversions that failed or were written over

vars == <<batch, run, drafts, templates, call, left, stopped, shared, approved, crossed, loose>>

Idle == [at |-> "idle"]

Init ==
    /\ batch = <<>> /\ drafts = <<>> /\ templates = <<>>
    /\ run = [w \in Workers |-> Idle]
    /\ call = [c \in Calls |-> Idle]
    /\ left \in Bounds
    /\ stopped = {} /\ shared = {} /\ approved = {} /\ crossed = {} /\ loose = {}

-----------------------------------------------------------------------------
(* Batches *)

(* Slip: the model's routes are taken as they are.                          *)
KeptAny(answer, list) ==
    LET s == SelectSeq(answer, LAMBDA r : Len(r) \in 2 .. 4)
    IN  SubSeq(s, 1, Min({MaxDrafts, Len(s)}))

(* validGeneratedRoutes                                                     *)
Kept(answer, list) ==
    LET s == SelectSeq(answer, LAMBDA r : Len(r) \in 2 .. 4 /\ Verdict(r, list, Budget) # "invalid")
    IN  SubSeq(s, 1, Min({MaxDrafts, Len(s)}))

(* generateRoutes: an answer without usable routes, or no answer, gives way *)
(* to the planner's first route; without one the batch fails.               *)
Generated(answer, list) ==
    IF Kept(answer, list) # <<>> THEN Kept(answer, list)
    ELSE Skeletons(Mood, Budget, list, 1)

(* createGenerationRun                                                      *)
Ask ==
    /\ left.asks > 0
    /\ left' = [left EXCEPT !.asks = @ - 1]
    /\ batch' = Append(batch, [status |-> "pending_manual", old |-> FALSE])
    /\ UNCHANGED <<run, drafts, templates, call, stopped, shared, approved, crossed, loose>>

(* The creation of a batch is longer ago than the stale timeout.            *)
Age(b) ==
    /\ batch[b].status \in {"pending_manual", "running"} /\ ~batch[b].old
    /\ batch' = [batch EXCEPT ![b].old = TRUE]
    /\ UNCHANGED <<run, drafts, templates, call, left, stopped, shared, approved, crossed, loose>>

Running(w, b, routes, list, todo) ==
    run' = [run EXCEPT ![w] = [at |-> "save", batch |-> b, routes |-> routes,
                               list |-> list, failed |-> routes = <<>>, todo |-> todo]]

(* failStaleRunningBatches; a scan that runs keeps this worker from another.*)
BeginScan(w) ==
    /\ run[w] = Idle
    /\ left.scans > 0
    /\ left' = [left EXCEPT !.scans = @ - 1]
    /\ batch' = [b \in DOMAIN batch |->
                    IF batch[b].status = "running" /\ batch[b].old
                    THEN [batch[b] EXCEPT !.status = "failed"] ELSE batch[b]]
    /\ run' = [run EXCEPT ![w] = [at |-> "find"]]
    /\ UNCHANGED <<drafts, templates, call, stopped, shared, approved, crossed, loose>>

After(todo) == IF todo = <<>> THEN Idle ELSE [at |-> "next", todo |-> todo]

Find(w) ==
    /\ run[w].at = "find"
    /\ LET pending(b) == batch[b].status = "pending_manual"
       IN  run' = [run EXCEPT ![w] = After(SelectSeq([b \in DOMAIN batch |-> b], pending))]
    /\ UNCHANGED <<batch, drafts, templates, call, left, stopped, shared, approved, crossed, loose>>

(* The batch is marked as running whatever it is by now, and the model is   *)
(* asked.                                                                   *)
Start(w) ==
    /\ run[w].at = "next"
    /\ LET b == Head(run[w].todo) IN
       /\ \E list \in Lists, answer \in Answers :
             IF Len(list) < 2
             THEN /\ batch' = [batch EXCEPT ![b].status = "failed"]
                  /\ run' = [run EXCEPT ![w] = After(Tail(run[w].todo))]
             ELSE /\ batch' = [batch EXCEPT ![b].status = "running"]
                  /\ Running(w, b, Generated(answer, list), list, Tail(run[w].todo))
       /\ shared' = IF batch[b].status # "pending_manual" THEN shared \union {b} ELSE shared
    /\ UNCHANGED <<drafts, templates, call, left, stopped, approved, crossed, loose>>

(* generateForCity, the scheduled batches                                   *)
Schedule(w) ==
    /\ run[w] = Idle
    /\ left.asks > 0 /\ left.scans > 0
    /\ left' = [left EXCEPT !.asks = @ - 1, !.scans = @ - 1]
    /\ \E list \in {l \in Lists : Len(l) >= 2}, answer \in Answers :
          Running(w, Len(batch) + 1, Generated(answer, list), list, <<>>)
    /\ batch' = Append(batch, [status |-> "running", old |-> FALSE])
    /\ UNCHANGED <<drafts, templates, call, stopped, shared, approved, crossed, loose>>

(* saveDraft, which validates once more                                     *)
Save(w) ==
    /\ run[w].at = "save" /\ run[w].routes # <<>>
    /\ drafts' = Append(drafts, [batch |-> run[w].batch, status |-> "needs_review",
                                 verdict |-> Verdict(Head(run[w].routes), run[w].list, Budget),
                                 template |-> 0])
    /\ run' = [run EXCEPT ![w].routes = Tail(@)]
    /\ UNCHANGED <<batch, templates, call, left, stopped, shared, approved, crossed, loose>>

EndBatch(w, status) ==
    /\ batch' = [batch EXCEPT ![run[w].batch].status = status]
    /\ run' = [run EXCEPT ![w] = After(run[w].todo)]
    /\ UNCHANGED <<drafts, templates, call, left, stopped, shared, approved, crossed, loose>>

Complete(w) ==
    /\ run[w].at = "save" /\ run[w].routes = <<>>
    /\ EndBatch(w, IF run[w].failed THEN "failed" ELSE "completed")

(* An error while drafts are saved; those saved stay.                       *)
Break(w) == run[w].at = "save" /\ run[w].routes # <<>> /\ EndBatch(w, "failed")

Crash(w) ==
    /\ run[w] # Idle
    /\ run' = [run EXCEPT ![w] = Idle]
    /\ stopped' = IF run[w].at = "save" THEN stopped \union {run[w].batch} ELSE stopped
    /\ UNCHANGED <<batch, drafts, templates, call, left, shared, approved, crossed, loose>>

-----------------------------------------------------------------------------
(* Decisions *)

(* Slip: what has been converted may still be rejected.                     *)
AllowedLater(op, d) ==
    CASE op = "approve" -> d.status = "needs_review" /\ d.verdict # "invalid"
      [] op = "reject"  -> d.status # "published"
      [] op = "convert" -> d.status = "approved" /\ d.template = 0
      [] op = "publish" -> d.status = "converted" /\ d.template # 0

(* A draft approved with a template already answers with that template.     *)
Allowed(op, d) ==
    CASE op = "approve" -> d.status = "needs_review" /\ d.verdict # "invalid"
      [] op = "reject"  -> d.status \in {"needs_review", "approved"}
      [] op = "convert" -> d.status = "approved" /\ d.template = 0
      [] op = "publish" -> d.status = "converted" /\ d.template # 0

Decide(c, op, d) ==
    /\ call[c] = Idle
    /\ left.calls > 0
    /\ left' = [left EXCEPT !.calls = @ - 1]
    /\ Allowed(op, drafts[d])
    /\ call' = [call EXCEPT ![c] = [at |-> op, draft |-> d, was |-> drafts[d].status,
                                    template |-> drafts[d].template]]
    /\ UNCHANGED <<batch, run, drafts, templates, stopped, shared, approved, crossed, loose>>

Write(c, d, row) ==
    /\ drafts' = [drafts EXCEPT ![d] = row]
    /\ call' = [call EXCEPT ![c] = Idle]
    /\ crossed' = IF drafts[d].status # call[c].was THEN crossed \union {d} ELSE crossed

Approve(c) ==
    LET d == call[c].draft IN
    /\ call[c].at = "approve"
    /\ Write(c, d, [drafts[d] EXCEPT !.status = "approved"])
    /\ approved' = approved \union {d}
    /\ UNCHANGED <<batch, run, templates, left, stopped, shared, loose>>

Reject(c) ==
    LET d == call[c].draft IN
    /\ call[c].at = "reject"
    /\ Write(c, d, [drafts[d] EXCEPT !.status = "rejected"])
    /\ UNCHANGED <<batch, run, templates, left, stopped, shared, approved, loose>>

CreateTemplate(c) ==
    /\ call[c].at = "convert"
    /\ templates' = Append(templates, [of |-> call[c].draft, status |-> "draft", route |-> FALSE])
    /\ call' = [call EXCEPT ![c].at = "revise", ![c].template = Len(templates) + 1]
    /\ UNCHANGED <<batch, run, drafts, left, stopped, shared, approved, crossed, loose>>

(* The first revision: its route and the template in one transaction.       *)
CreateRevision(c) ==
    /\ call[c].at = "revise"
    /\ templates' = [templates EXCEPT ![call[c].template].route = TRUE]
    /\ call' = [call EXCEPT ![c].at = "name"]
    /\ UNCHANGED <<batch, run, drafts, left, stopped, shared, approved, crossed, loose>>

Convert(c) ==
    LET d == call[c].draft IN
    /\ call[c].at = "name"
    /\ Write(c, d, [drafts[d] EXCEPT !.status = "converted", !.template = call[c].template])
    /\ loose' = IF drafts[d].template # 0 THEN loose \union {drafts[d].template} ELSE loose
    /\ UNCHANGED <<batch, run, templates, left, stopped, shared, approved>>

(* publishTemplate: the template and its route in one transaction.          *)
PublishTemplate(c) ==
    LET t == call[c].template IN
    /\ call[c].at = "publish"
    /\ templates[t].route
    /\ templates' = [templates EXCEPT ![t].status = "published"]
    /\ call' = [call EXCEPT ![c].at = "tell"]
    /\ UNCHANGED <<batch, run, drafts, left, stopped, shared, approved, crossed, loose>>

Publish(c) ==
    LET d == call[c].draft IN
    /\ call[c].at = "tell"
    /\ Write(c, d, [drafts[d] EXCEPT !.status = "published"])
    /\ UNCHANGED <<batch, run, templates, left, stopped, shared, approved, loose>>

(* A crash or an error between the commits of a decision.                   *)
Fail(c) ==
    /\ call[c] # Idle
    /\ call' = [call EXCEPT ![c] = Idle]
    /\ loose' = IF call[c].at \in {"revise", "name"} THEN loose \union {call[c].template} ELSE loose
    /\ UNCHANGED <<batch, run, drafts, templates, left, stopped, shared, approved, crossed>>

(* archiveTemplate                                                          *)
Archive(t) ==
    /\ left.calls > 0
    /\ left' = [left EXCEPT !.calls = @ - 1]
    /\ templates' = [templates EXCEPT ![t].status = "archived"]
    /\ UNCHANGED <<batch, run, drafts, call, stopped, shared, approved, crossed, loose>>

-----------------------------------------------------------------------------
Next ==
    \/ Ask
    \/ \E b \in DOMAIN batch : Age(b)
    \/ \E w \in Workers :
          \/ BeginScan(w) \/ Find(w) \/ Start(w) \/ Schedule(w)
          \/ Save(w) \/ Complete(w) \/ Break(w) \/ Crash(w)
    \/ \E c \in Calls :
          \/ \E op \in {"approve", "reject", "convert", "publish"}, d \in DOMAIN drafts :
                Decide(c, op, d)
          \/ Approve(c) \/ Reject(c)
          \/ CreateTemplate(c) \/ CreateRevision(c) \/ Convert(c)
          \/ PublishTemplate(c) \/ Publish(c) \/ Fail(c)
    \/ \E t \in DOMAIN templates : Archive(t)

Spec == Init /\ [][Next]_vars

-----------------------------------------------------------------------------
TypeOK ==
    /\ \A b \in DOMAIN batch : batch[b].status \in {"pending_manual", "running", "completed", "failed"}
    /\ \A d \in DOMAIN drafts :
          /\ drafts[d].batch \in DOMAIN batch
          /\ drafts[d].status \in {"needs_review", "approved", "rejected", "converted", "published"}
          /\ drafts[d].template \in 0 .. Len(templates)

Of(b) == {d \in DOMAIN drafts : drafts[d].batch = b}
RunBy(b) == {w \in Workers : run[w].at = "save" /\ run[w].batch = b}
Held == {call[c].template : c \in {e \in Calls : call[e].at \in {"revise", "name"}}}
Named == {drafts[d].template : d \in DOMAIN drafts}

(* What a worker leaves, whatever happens to it and whoever else runs the   *)
(* batch: a completed batch has drafts; one nobody shares has at most as    *)
(* many as were asked for; one left running is a crashed worker's. No draft *)
(* that breaks the rules of a route is ever shown for review.               *)
BatchesHold ==
    /\ \A b \in DOMAIN batch :
          /\ batch[b].status = "pending_manual" => Of(b) = {}
          /\ batch[b].status = "completed" => Of(b) # {}
          /\ b \notin shared => Cardinality(Of(b)) <= MaxDrafts
          /\ batch[b].status = "running" => RunBy(b) # {} \/ b \in stopped \union shared
    /\ \A d \in DOMAIN drafts : drafts[d].verdict # "invalid"

(* What is public has been approved. Unless two decisions on a draft have   *)
(* crossed, its status tells what became of it: a template with a route if  *)
(* it was converted, which is or was public if the draft is published, and  *)
(* none if it was rejected. Every template belongs to a draft, but for the  *)
(* ones that failed or overlapping conversions leave behind.                *)
DecisionsHold ==
    /\ \A t \in DOMAIN templates :
          /\ templates[t].status = "published" => templates[t].of \in approved /\ templates[t].route
          /\ t \in Named \union Held \union loose
    /\ \A d \in DOMAIN drafts \ crossed :
          LET t == drafts[d].template IN
          /\ drafts[d].status \in {"converted", "published"} <=> t # 0
          /\ t # 0 => templates[t].route
          /\ drafts[d].status = "published" => templates[t].status \in {"published", "archived"}

RoutesAsReviewed == BatchesHold /\ DecisionsHold
=============================================================================
