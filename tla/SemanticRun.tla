---------------------------- MODULE SemanticRun ----------------------------
(***************************************************************************)
(* The paid model calls of tools/semantic-workflow: run() of runner.mjs    *)
(* over the SQLite tables of state.mjs, beside the other processes that    *)
(* use the same tables: prepare (savePack), pilot-revalidate and the       *)
(* review pages (saveItemReview).  A runner may be killed at any step, or  *)
(* thrown out by a failing statement; the run.lock file it leaves behind   *)
(* is removed by a person who has made sure that the process is gone.      *)
(*                                                                         *)
(* Data abstraction: a pack is an item and a version; a request is the     *)
(* pack and its context, the context being which results and accepted      *)
(* reviews of other items it quotes and which attempt it corrects.  Equal  *)
(* requests have equal hashes.  Every request reserves Cost tokens.  A     *)
(* result has one relation, "rel", of which one end may change its verdict.*)
(***************************************************************************)
EXTENDS Integers, Sequences, FiniteSetsExt

CONSTANTS
    Procs,        \* processes that may execute run()
    Pages,        \* review pages, possibly of two servers
    Items,        \* source items, numbered in the order run() takes them
    Pilots,       \* the ones with a pilot entry
    Versions,     \* versions of a pack
    NONE,
    Cost,         \* reserveTokens of a request
    Usages,       \* total_tokens a response may report
    Limit,        \* limits.totalTokens
    Calls,        \* values of --limit
    Saves,        \* pairs of a part and the verdict a page may save for it
    FaultPoints,  \* "crash", "throws", "prepare"
    MaxTrouble,   \* bound: crashes, failing statements and new pack versions
    MaxRuns,      \* bound: runs
    MaxReviews    \* bound: committed reviews

Parts    == {"end", "rel"}
Verdicts == {"draft", "accepted"}
Marks    == [Parts -> Verdicts \cup {"none"}]
Unread   == [x \in Parts |-> "none"]

Packs    == [item : Items, ver : Versions]
Contexts == SUBSET (Nat \X SUBSET Parts)
Requests == [pack : Packs, shared : Contexts, fixes : Nat, reserved : {Cost}, st : {NONE},
             charged : {NONE}]
Attempts == [pack : Packs, shared : Contexts, fixes : Nat, reserved : {Cost},
             st : {"inflight", "uncertain", "invalid", "success"}, charged : Usages \cup {NONE}]
OpenPages == [id : Nat, rev : Nat, part : Parts \cup {NONE}, to : Verdicts \cup {NONE}]

ASSUME SemanticAssumption ==
    /\ Items \subseteq Nat /\ Pilots \subseteq Items /\ Versions # {}
    /\ Cost \in Nat \ {0} /\ Usages \subseteq Nat \ {0} /\ Limit \in Nat
    /\ Calls \subseteq Nat \ {0}
    /\ Saves \subseteq Parts \X Verdicts
    /\ NONE \notin Procs \cup Versions \cup Nat
    /\ NONE \notin Parts \cup Verdicts /\ NONE \notin OpenPages
    /\ MaxTrouble \in Nat /\ MaxRuns \in Nat /\ MaxReviews \in Nat

VARIABLES
    attempts,  \* rows of attempts, in the order of their rowid
    current,   \* current_packs
    replaced,  \* attempt_retries: attempts with a replacement
    repairs,   \* request_repairs: pairs <<base request, repair request>>
    verdicts,  \* pilot_reviews, per attempt
    revision,  \* pilot_meta
    lock,      \* run.lock: the process whose pid is in it
    pc,        \* per process: where run() is
    list,      \* per process: packs not yet looked at
    opts,      \* per process: options of the run and calls made
    job,       \* per process: the request underway
    page,      \* per page: attempt and revision shown, verdict being saved
    runs, trouble

tables == <<attempts, current, replaced, repairs, verdicts, revision>>
locals == <<pc, list, opts, job>>
vars   == <<tables, lock, locals, page, runs, trouble>>

Ids == DOMAIN attempts

Trouble(point) ==
    /\ point \in FaultPoints
    /\ trouble < MaxTrouble
    /\ trouble' = trouble + 1

-----------------------------------------------------------------------------
(* Queries *)

\* Slip: only what a response reported is counted.
ReportedOnly(a) == IF attempts[a].charged = NONE THEN 0 ELSE attempts[a].charged

Counted(a) == IF attempts[a].charged = NONE THEN attempts[a].reserved
              ELSE attempts[a].charged

\* SUM: the values of a function added up.
Total(f) == MapThenSumSet(LAMBDA a : f[a], DOMAIN f)

\* State.usage().accountedTokens
Accounted == Total([a \in Ids |-> Counted(a)])

Request(a) == [attempts[a] EXCEPT !.st = NONE, !.charged = NONE]

\* State.cached: the latest attempt of a request, 0 if there is none.
Cached(r) == Max({a \in Ids : Request(a) = r} \cup {0})

Reviewed(a) == verdicts[a] # Unread

\* Slip: the newest attempt is shown, reviewed or not.
Newest(k) == Max({a \in Ids : attempts[a].pack = k} \cup {0})

\* State.items(): the attempt shown for a pack, reviewed ones first.
Shown(k) ==
    LET mine == {a \in Ids : attempts[a].pack = k}
        read == {a \in mine : Reviewed(a)}
    IN  Max((IF read = {} THEN mine ELSE read) \cup {0})

Pack(i) == [item |-> i, ver |-> current[i]]

\* sharedContext: accepted reviews of the other pilots, results of the earlier.
Shared(i) ==
    {<<a, {x \in Parts : verdicts[a][x] = "accepted"}>> :
        a \in {b \in {Shown(Pack(j)) : j \in Pilots \ {i}} \ {0} :
                  /\ attempts[b].st = "success"
                  /\ \/ attempts[b].pack.item < i
                     \/ \E x \in Parts : verdicts[b][x] = "accepted"}}

\* Slip: every call of the item that was not replaced, however it ended.
NotReplaced(i) == {a \in Ids \ replaced : attempts[a].pack.item = i /\ i \in Pilots}

\* State.unresolvedPilot
Unresolved(i) ==
    {a \in Ids \ replaced : /\ attempts[a].pack.item = i /\ i \in Pilots
                            /\ attempts[a].st \in {"inflight", "uncertain"}}

-----------------------------------------------------------------------------
Idle  == [failed |-> FALSE, uncertain |-> FALSE, left |-> 0]
NoJob == [req |-> NONE, base |-> NONE, olds |-> {}, id |-> 0]

Init ==
    /\ attempts = <<>> /\ verdicts = <<>>
    /\ current \in [Items -> {CHOOSE v \in Versions : TRUE}]
    /\ replaced = {} /\ repairs = {} /\ revision = 0
    /\ lock = NONE
    /\ pc = [p \in Procs |-> "idle"]
    /\ list = [p \in Procs |-> {}]
    /\ opts = [p \in Procs |-> Idle]
    /\ job = [p \in Procs |-> NoJob]
    /\ page = [w \in Pages |-> NONE]
    /\ runs = 0 /\ trouble = 0

Goto(p, l) == pc' = [pc EXCEPT ![p] = l]

\* Nothing of run() is left in memory.
Forget(p) ==
    /\ Goto(p, "idle")
    /\ list' = [list EXCEPT ![p] = {}]
    /\ opts' = [opts EXCEPT ![p] = Idle]
    /\ job' = [job EXCEPT ![p] = NoJob]

\* openSync(lock, "wx"): a process that finds the lock throws.
Locks(p) == lock = NONE /\ lock' = p

Start(p) ==
    /\ pc[p] = "idle" /\ runs < MaxRuns
    /\ Locks(p)
    /\ runs' = runs + 1
    /\ \E S \in {Items, Pilots} \cup {{i} : i \in Items} :
       \E f, u \in BOOLEAN, n \in Calls :
          /\ u => Cardinality(S) = 1 /\ S \subseteq Pilots
          /\ list' = [list EXCEPT ![p] = {Pack(i) : i \in S}]
          /\ opts' = [opts EXCEPT ![p] = [failed |-> f, uncertain |-> u, left |-> n]]
    /\ Goto(p, "next")
    /\ UNCHANGED <<tables, job, page, trouble>>

\* The finally block.
Stop(p) ==
    /\ Forget(p)
    /\ lock' = NONE

First(p) == CHOOSE k \in list[p] : \A l \in list[p] : k.item <= l.item

\* The item may not be called before somebody has looked into its open calls.
Blocked(p, i) ==
    /\ Unresolved(i) # {}
    /\ opts[p].uncertain => \E a \in Unresolved(i) : attempts[a].st = "inflight"

Preserved(k) == k.item \in Pilots /\ k = Pack(k.item) /\ Shown(k) # 0 /\ Reviewed(Shown(k))

BaseRequest(k) ==
    [pack |-> k, shared |-> IF k.item \in Pilots THEN Shared(k.item) ELSE {},
     fixes |-> 0, reserved |-> Cost, st |-> NONE, charged |-> NONE]

\* The attempt that answers the request, through its repair if it has one.
Previous(k) ==
    LET base == BaseRequest(k)
        fix  == {r \in repairs : r[1] = base /\ k.item \in Pilots}
    IN  IF fix = {} THEN Cached(base) ELSE Max({Cached(r[2]) : r \in fix})

\* Slip: only a success answers a request.
SuccessAnswers(p, k) == Previous(k) # 0 /\ attempts[Previous(k)].st = "success"

\* What is there already answers the request, or was not released for a retry.
Answered(p, k) ==
    /\ Previous(k) # 0
    /\ ~(attempts[Previous(k)].st = "invalid" /\ opts[p].failed)
    /\ ~(attempts[Previous(k)].st = "uncertain" /\ opts[p].uncertain)

NextRequest(p, k) ==
    LET prev == Previous(k)
        base == BaseRequest(k)
    IN  IF k.item \in Pilots /\ prev # 0
        THEN IF attempts[prev].st = "uncertain" THEN Request(prev)
             ELSE [base EXCEPT !.fixes = prev]
        ELSE base

End(p) ==
    /\ pc[p] = "next" /\ (list[p] = {} \/ opts[p].left = 0)
    /\ Stop(p)
    /\ UNCHANGED <<tables, page, runs, trouble>>

\* One pack: stop the run, skip the pack, or make its request.
Look(p) ==
    /\ pc[p] = "next" /\ list[p] # {} /\ opts[p].left > 0
    /\ LET k == First(p)
       IN  \/ /\ Blocked(p, k.item)
              /\ Stop(p)
           \/ /\ ~Blocked(p, k.item)
              /\ Preserved(k) \/ Answered(p, k)
              /\ list' = [list EXCEPT ![p] = @ \ {k}]
              /\ UNCHANGED <<pc, opts, job, lock>>
           \/ /\ ~Blocked(p, k.item) /\ ~Preserved(k) /\ ~Answered(p, k)
              /\ list' = [list EXCEPT ![p] = @ \ {k}]
              /\ job' = [job EXCEPT ![p] = [req |-> NextRequest(p, k), base |-> BaseRequest(k),
                                            olds |-> Unresolved(k.item), id |-> 0]]
              /\ Goto(p, "reserve")
              /\ UNCHANGED <<opts, lock>>
    /\ UNCHANGED <<tables, page, runs, trouble>>

\* State.reserve, in one transaction.
Reserve(p) ==
    /\ pc[p] = "reserve"
    /\ IF Accounted + Cost > Limit
       THEN Stop(p) /\ UNCHANGED tables
       ELSE /\ attempts' = Append(attempts, [job[p].req EXCEPT !.st = "inflight"])
            /\ verdicts' = Append(verdicts, Unread)
            /\ job' = [job EXCEPT ![p].id = Len(attempts) + 1]
            /\ Goto(p, "note")
            /\ UNCHANGED <<current, replaced, repairs, revision, list, opts, lock>>
    /\ UNCHANGED <<page, runs, trouble>>

\* attempt_context and request_repairs.
Note(p) ==
    /\ pc[p] = "note"
    /\ LET base == job[p].base
       IN  repairs' = IF job[p].req.fixes # 0 /\ job[p].req.pack.item \in Pilots
                      THEN {r \in repairs : r[1] # base} \cup {<<base, job[p].req>>}
                      ELSE repairs
    /\ Goto(p, "replace")
    /\ UNCHANGED <<attempts, current, replaced, verdicts, revision, list, opts, job, lock,
                   page, runs, trouble>>

\* Slip: the calls that this one replaces are not put on record.
ForgetsOlds(p) ==
    /\ pc[p] = "replace"
    /\ Goto(p, "sent")
    /\ opts' = [opts EXCEPT ![p].left = @ - 1]
    /\ UNCHANGED <<tables, list, job, lock, page, runs, trouble>>

\* attempt_retries, a row for each open call; then the request is sent.
Replace(p) ==
    /\ pc[p] = "replace"
    /\ IF job[p].olds = {}
       THEN /\ Goto(p, "sent")
            /\ opts' = [opts EXCEPT ![p].left = @ - 1]
            /\ UNCHANGED <<replaced, job>>
       ELSE /\ replaced' = replaced \cup {Max(job[p].olds)}
            /\ job' = [job EXCEPT ![p].olds = @ \ {Max(@)}]
            /\ UNCHANGED <<pc, opts>>
    /\ UNCHANGED <<attempts, current, repairs, verdicts, revision, list, lock, page, runs,
                   trouble>>

\* Slip: an uncertain call is taken for a free one.
FinishFree(p, st, charged) ==
    attempts' = [attempts EXCEPT ![job[p].id].st = st,
                                 ![job[p].id].charged = IF charged = NONE THEN 0 ELSE charged]

\* State.finish
FinishWith(p, st, charged) ==
    attempts' = [attempts EXCEPT ![job[p].id].st = st, ![job[p].id].charged = charged]

\* A timeout, an HTTP error, a broken stream, or a response without usage.
Uncertain(p) ==
    /\ pc[p] = "sent"
    /\ FinishWith(p, "uncertain", NONE)
    /\ Stop(p)
    /\ UNCHANGED <<current, replaced, repairs, verdicts, revision, page, runs, trouble>>

Answer(p) ==
    /\ pc[p] = "sent"
    /\ \E used \in Usages, st \in {"success", "invalid"} :
          /\ FinishWith(p, st, used)
          /\ IF st = "invalid" \/ used > Cost \/ Accounted' >= Limit
             THEN Stop(p)
             ELSE /\ Goto(p, "next")
                  /\ job' = [job EXCEPT ![p] = NoJob]
                  /\ UNCHANGED <<list, opts, lock>>
    /\ UNCHANGED <<current, replaced, repairs, verdicts, revision, page, runs, trouble>>

\* A statement of the run throws: the finally block runs.
Throws(p) ==
    /\ pc[p] # "idle"
    /\ Trouble("throws")
    /\ Stop(p)
    /\ UNCHANGED <<tables, page, runs>>

Crash(p) ==
    /\ pc[p] # "idle"
    /\ Trouble("crash")
    /\ Forget(p)
    /\ UNCHANGED <<tables, lock, page, runs>>

\* README: verify that the process has ended, then remove this one file.
Unlock ==
    /\ lock # NONE /\ pc[lock] = "idle"
    /\ lock' = NONE
    /\ UNCHANGED <<tables, locals, page, runs, trouble>>

-----------------------------------------------------------------------------
(* The other commands. *)

\* prepare: the sources give another pack for an item.
Prepare ==
    /\ Trouble("prepare")
    /\ \E i \in Items, v \in Versions :
          /\ current[i] # v
          /\ current' = [current EXCEPT ![i] = v]
    /\ UNCHANGED <<attempts, replaced, repairs, verdicts, revision, lock, locals, page, runs>>

\* pilot-revalidate: today's rules accept an output that was paid for.
Revalidate ==
    /\ \E i \in Pilots :
          LET a == Shown(Pack(i))
          IN  /\ a # 0 /\ attempts[a].st = "invalid" /\ attempts[a].charged # NONE
              /\ attempts' = [attempts EXCEPT ![a].st = "success"]
    /\ UNCHANGED <<current, replaced, repairs, verdicts, revision, lock, locals, page, runs,
                   trouble>>

-----------------------------------------------------------------------------
(* saveItemReview: the page was made at some revision; the checks read the *)
(* tables, the transaction compares the revision and writes.               *)

Reviewable(a) ==
    /\ attempts[a].st = "success"
    /\ \E i \in Pilots : a = Shown(Pack(i))

OpenPage(w) ==
    /\ page[w] = NONE /\ revision < MaxReviews
    /\ \E a \in Ids :
          /\ Reviewable(a)
          /\ page' = [page EXCEPT ![w] = [id |-> a, rev |-> revision, part |-> NONE, to |-> NONE]]
    /\ UNCHANGED <<tables, lock, locals, runs, trouble>>

\* An accepted relation needs its end accepted.
CheckReview(w) ==
    /\ page[w] # NONE /\ page[w].part = NONE
    /\ Reviewable(page[w].id)
    /\ \E s \in Saves :
          /\ s = <<"rel", "accepted">> => verdicts[page[w].id]["end"] = "accepted"
          /\ page' = [page EXCEPT ![w].part = s[1], ![w].to = s[2]]
    /\ UNCHANGED <<tables, lock, locals, runs, trouble>>

\* Slip: the revision is not compared.
Anyhow(w) == TRUE

\* REVIEW_CHANGED_REFRESH_REQUIRED otherwise.
Fresh(w) == page[w].rev = revision

\* The verdict, and the withdrawal of the relation whose end it changes.
Withdrawn(v, x, d) ==
    [v EXCEPT ![x] = d,
              !["rel"] = IF x = "rel" THEN d
                         ELSE IF v["rel"] = "accepted" THEN "draft" ELSE v["rel"]]

CommitReview(w) ==
    /\ page[w] # NONE /\ page[w].part # NONE
    /\ IF Fresh(w)
       THEN /\ verdicts' = [verdicts EXCEPT
                  ![page[w].id] = Withdrawn(@, page[w].part, page[w].to)]
            /\ revision' = revision + 1
       ELSE UNCHANGED <<verdicts, revision>>
    /\ page' = [page EXCEPT ![w] = NONE]
    /\ UNCHANGED <<attempts, current, replaced, repairs, lock, locals, runs, trouble>>

Step(p) == \/ End(p) \/ Look(p) \/ Reserve(p) \/ Note(p) \/ Replace(p)
           \/ Uncertain(p) \/ Answer(p)

Next ==
    \/ \E p \in Procs : Start(p) \/ Step(p) \/ Throws(p) \/ Crash(p)
    \/ Unlock \/ Prepare \/ Revalidate
    \/ \E w \in Pages : OpenPage(w) \/ CheckReview(w) \/ CommitReview(w)

Spec == Init /\ [][Next]_vars

-----------------------------------------------------------------------------
(* Properties *)

\* The tables and the locals of run().
TypeOK ==
    /\ attempts \in Seq(Attempts) /\ verdicts \in Seq(Marks) /\ DOMAIN verdicts = Ids
    /\ current \in [Items -> Versions]
    /\ replaced \subseteq Ids
    /\ repairs \subseteq Requests \X Requests
    /\ revision \in 0..MaxReviews
    /\ lock \in Procs \cup {NONE}
    /\ pc \in [Procs -> {"idle", "next", "reserve", "note", "replace", "sent"}]
    /\ list \in [Procs -> SUBSET Packs]
    /\ opts \in [Procs -> [failed : BOOLEAN, uncertain : BOOLEAN, left : Nat]]
    /\ job \in [Procs -> [req : Requests \cup {NONE}, base : Requests \cup {NONE},
                          olds : SUBSET Ids, id : Ids \cup {0}]]
    /\ page \in [Pages -> OpenPages \cup {NONE}]
    /\ runs \in 0..MaxRuns /\ trouble \in 0..MaxTrouble

Due  == [a \in Ids |-> IF attempts[a].charged = NONE THEN Cost ELSE attempts[a].charged]
Over == [a \in Ids |-> IF attempts[a].charged = NONE THEN 0
                       ELSE Max({attempts[a].charged - Cost, 0})]

\* What may have to be paid, open calls with their whole reservation, never
\* exceeds totalTokens by more than the responses exceeded their reservations,
\* over all runs, crashes and restarts.
BudgetHeld == Total(Due) <= Limit + Total(Over)

\* A call whose outcome is not known is counted with its whole reservation for
\* ever: "this option does not turn an unknown charge into zero" (README).
UnknownStaysReserved ==
    [][\A a \in Ids : attempts[a].st \in {"inflight", "uncertain"} =>
          \/ attempts'[a].charged = NONE /\ attempts'[a].reserved = Cost
          \/ \E p \in Procs : pc[p] = "sent" /\ job[p].id = a]_vars

\* A new call for a pilot item is made only when each open call of that item,
\* of whatever version, ended uncertain and the user asked for its retry; and
\* no request is sent again while it has an answer, or is still under way; a
\* correction of an invalid answer is asked for, too.
NoBlindReplay ==
    [][\A a \in DOMAIN attempts' \ Ids :
          \E p \in Procs :
             /\ pc[p] = "reserve"
             /\ \A b \in Unresolved(attempts'[a].pack.item) :
                   attempts[b].st = "uncertain" /\ opts[p].uncertain
             /\ \A b \in Ids : Request(b) = job[p].req =>
                   \/ attempts[b].st = "invalid" /\ opts[p].failed
                   \/ attempts[b].st = "uncertain" /\ (opts[p].uncertain \/ b \in replaced)
             /\ job[p].req.fixes # 0 =>
                   \/ opts[p].failed
                   \/ opts[p].uncertain /\ \E b \in Ids : Request(b) = job[p].req]_vars

\* A replaced call is on record: of two open calls of a pilot item the later
\* one is still in flight, in a run or left by one that died.
OneOpenCall ==
    \A a, b \in Ids : a < b /\ attempts[a].pack.item = attempts[b].pack.item
          /\ {a, b} \subseteq Unresolved(attempts[a].pack.item)
        => attempts[b].st = "inflight"

\* A call that may still be running, in a process that lives or died, is never
\* replaced: what is on record as replaced ended uncertain, and the call that
\* replaces it was reserved before.
ReplacedHaveEnded ==
    \A a \in replaced :
        /\ attempts[a].st = "uncertain"
        /\ \E b \in Ids : a < b /\ attempts[b].pack.item = attempts[a].pack.item

\* A result that somebody reviewed stays the one that is shown and exported for
\* its pack, whatever later runs, revalidations and reviews do.
ReviewedStaysShown ==
    [][\A a \in Ids : Reviewed(a) /\ Shown(attempts[a].pack) = a =>
          /\ Shown(attempts[a].pack)' = a
          /\ attempts'[a] = attempts[a]]_vars

\* A relation is accepted only while its end is: a changed end withdraws it, and
\* a page that is behind cannot bring it back.
AcceptedHasEnds ==
    \A a \in Ids : verdicts[a]["rel"] = "accepted" => verdicts[a]["end"] = "accepted"
=============================================================================
