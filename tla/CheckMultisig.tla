---------------------------- MODULE CheckMultisig ----------------------------
(***************************************************************************)
(* CHECKMULTISIG (pkg/vm/vm.go) and the parallel matching it starts,       *)
(* checkMultisigPar: the goroutine of the VM hands (key, signature) pairs  *)
(* to a few workers over the channel `tasks' and reads their answers from  *)
(* `results', working on the list of keys from both ends at once.          *)
(*                                                                         *)
(* A key or a signature is its position in the list popped from the stack, *)
(* and what ecdsa decides about a pair is the relation in.valid.           *)
(***************************************************************************)
EXTENDS MultisigCall, Sequences

CONSTANTS
  Inputs,      \* the calls to examine, a set of records, see InputsAssumption
  Workers,     \* the goroutines started by a call (workerCount)
  TasksCap     \* capacity of the channel tasks

VARIABLES
  in,          \* the arguments of this call; never changes
  pc,          \* where the VM's goroutine is
  k1, k2,      \* first and last key not yet discarded
  s1, s2,      \* first and last signature not yet matched
  goingForward,\* which end the pending send works for
  taskCount,   \* tasks handed out and not yet answered
  sigok,       \* the answer being built
  tasks,       \* channel of [key, signum]
  closed,      \* whether tasks has been closed
  results,     \* channel of [ok, signum]
  wstate,      \* what each worker is doing
  wtask,       \* the task each worker took last
  crashed      \* a panic nobody recovers ended the process

vars == <<in, pc, k1, k2, s1, s2, goingForward, taskCount, sigok, tasks, closed,
          results, wstate, wtask, crashed>>

search == <<k1, k2, s1, s2, goingForward, taskCount>>
channels == <<tasks, closed, results>>
workers == <<wstate, wtask>>

V == INSTANCE MultisigVerdict WITH
       verdict <- CASE pc = "fault" -> "FAULT"
                    [] pc = "returned" -> (IF sigok THEN "TRUE" ELSE "FALSE")
                    [] OTHER -> "none"

\* popSigElements never returns an empty list, and an undecodable key
\* verifies nothing.
ASSUME InputsAssumption ==
  \A i \in Inputs : /\ i \in Input
                    /\ \A p \in i.valid : /\ p[2] \notin i.undecodable
                                          /\ p[2] \notin i.infinity
                                          /\ p[1] \notin i.short
ASSUME WorkersAssumption == Workers # {}
ASSUME TasksCapAssumption == TasksCap \in Nat /\ TasksCap >= 2

Task == [key : Nat, signum : Nat]
Result == [ok : BOOLEAN, signum : Nat]

TypeOK ==
  /\ in \in Input
  /\ pc \in {"enter", "seq", "first", "last", "loop", "send", "returned", "fault"}
  /\ k1 \in Int /\ k2 \in Int /\ s1 \in Int /\ s2 \in Int
  /\ goingForward \in BOOLEAN
  /\ taskCount \in Int
  /\ sigok \in BOOLEAN
  /\ tasks \in Seq(Task)
  /\ closed \in BOOLEAN
  /\ results \in Seq(Result)
  /\ wstate \in [Workers -> {"none", "idle", "busy", "exited"}]
  /\ wtask \in [Workers -> Task]
  /\ crashed \in BOOLEAN

\* Capacity of the channel results: len(sigs).
\* Mutant: one answer is expected to be read in time.
OneResultLess == in.nsigs - 1
ResultsCap == in.nsigs

-----------------------------------------------------------------------------
(* PublicKey.Verify and VM.bytesToPublicKey                                *)

\* The key is in VM.keys or DecodeBytes accepts it; otherwise a panic.
Decodable(k) == k \notin in.undecodable

\* Verify slices the signature to 64 bytes, but only under a finite key.
VerifyPanics(k, s) == k \notin in.infinity /\ s \in in.short

Verify(k, s) == <<s, k>> \in in.valid

-----------------------------------------------------------------------------
(* The goroutine of the VM                                                 *)

Init ==
  /\ in \in Inputs
  /\ pc = "enter"
  /\ k1 = 0 /\ k2 = 0 /\ s1 = 0 /\ s2 = 0
  /\ goingForward = TRUE
  /\ taskCount = 0
  /\ sigok = FALSE
  /\ tasks = <<>> /\ closed = FALSE /\ results = <<>>
  /\ wstate = [w \in Workers |-> "none"]
  /\ wtask = [w \in Workers |-> [key |-> 0, signum |-> 0]]
  /\ crashed = FALSE

Running == ~crashed

\* The instruction itself: its checks, then the choice of the algorithm.
Enter ==
  /\ Running /\ pc = "enter"
  /\ \/ /\ in.nkeys < in.nsigs \/ ~in.checkhash
        /\ pc' = "fault"
        /\ UNCHANGED <<k2, s2, sigok, wstate>>
     \/ /\ in.nkeys >= in.nsigs /\ in.checkhash
        /\ in.nsigs = 1
        /\ pc' = "seq"
        /\ UNCHANGED <<k2, s2, sigok, wstate>>
     \/ /\ in.nkeys >= in.nsigs /\ in.checkhash
        /\ in.nsigs # 1
        /\ pc' = "first"
        /\ k2' = in.nkeys - 1
        /\ s2' = in.nsigs - 1
        /\ sigok' = TRUE
        /\ wstate' = [w \in Workers |-> "idle"]
  /\ UNCHANGED <<in, k1, s1, goingForward, taskCount, channels, wtask, crashed>>

\* One iteration of checkMultisig1, which runs in the VM's own goroutine.
CheckOne ==
  /\ Running /\ pc = "seq"
  /\ \/ /\ k1 = in.nkeys
        /\ pc' = "returned" /\ sigok' = FALSE
        /\ UNCHANGED k1
     \/ /\ k1 < in.nkeys
        /\ ~Decodable(k1) \/ VerifyPanics(k1, 0)
        /\ pc' = "fault"
        /\ UNCHANGED <<k1, sigok>>
     \/ /\ k1 < in.nkeys /\ Decodable(k1) /\ ~VerifyPanics(k1, 0)
        /\ IF Verify(k1, 0)
             THEN pc' = "returned" /\ sigok' = TRUE /\ UNCHANGED k1
             ELSE k1' = k1 + 1 /\ UNCHANGED <<pc, sigok>>
  /\ UNCHANGED <<in, k2, s1, s2, goingForward, taskCount, channels, workers, crashed>>

\* tasks <- task{pub: v.bytesToPublicKey(pkeys[k]), signum: s}.  A panic of
\* bytesToPublicKey leaves the function: the deferred recover of execute
\* faults the VM and tasks stays open.
SendTask(k, s, next) ==
  \/ /\ ~Decodable(k)
     /\ pc' = "fault"
     /\ UNCHANGED tasks
  \/ /\ Decodable(k)
     /\ Len(tasks) < TasksCap
     /\ tasks' = Append(tasks, [key |-> k, signum |-> s])
     /\ pc' = next

SendFirst ==
  /\ Running /\ pc = "first"
  /\ SendTask(k1, s1, "last")
  /\ UNCHANGED <<in, search, sigok, closed, results, workers, crashed>>

\* A panic drops the locals, so taskCount no longer matters then.
SendLast ==
  /\ Running /\ pc = "last"
  /\ SendTask(k2, s2, "loop")
  /\ taskCount' = 2
  /\ UNCHANGED <<in, k1, k2, s1, s2, goingForward, sigok, closed, results, workers,
                 crashed>>

SendNext ==
  /\ Running /\ pc = "send"
  /\ IF goingForward THEN SendTask(k1, s1, "loop") ELSE SendTask(k2, s2, "loop")
  /\ UNCHANGED <<in, search, sigok, closed, results, workers, crashed>>

\* Leave the loop: close(tasks) and return sigok.
\* Mutant: tasks stays open.
ReturnOnly == pc' = "returned" /\ UNCHANGED closed
BreakLoop == pc' = "returned" /\ closed' = TRUE

ContinueLoop == UNCHANGED <<pc, closed>>

\* No key is left between the two ends: this answer and the other one decide.
\* Mutants: signatures left over are forgotten; an answer nobody owes is awaited.
DecideByAnswer(r) ==
  /\ k1 + 1 = k2
  /\ sigok' = r.ok
  /\ taskCount' = taskCount - 1
  /\ IF taskCount' # 0 /\ sigok' THEN ContinueLoop ELSE BreakLoop
  /\ UNCHANGED <<k1, k2, s1, s2, goingForward>>
DecideTooLate(r) ==
  /\ k1 + 1 = k2
  /\ sigok' = (r.ok /\ s1 + 1 = s2)
  /\ taskCount' = taskCount - 1
  /\ IF sigok' THEN ContinueLoop ELSE BreakLoop
  /\ UNCHANGED <<k1, k2, s1, s2, goingForward>>
DecideLastPair(r) ==
  /\ k1 + 1 = k2
  /\ sigok' = (r.ok /\ s1 + 1 = s2)
  /\ taskCount' = taskCount - 1
  /\ IF taskCount' # 0 /\ sigok' THEN ContinueLoop ELSE BreakLoop
  /\ UNCHANGED <<k1, k2, s1, s2, goingForward>>

\* A match, and no signature is left between the two ends.
\* Mutant: the other end's answer is not awaited.
MatchWithoutOther(r) ==
  /\ k1 + 1 # k2
  /\ r.ok /\ s1 + 1 = s2
  /\ taskCount' = taskCount - 1
  /\ BreakLoop
  /\ UNCHANGED <<k1, k2, s1, s2, goingForward, sigok>>
MatchLastSig(r) ==
  /\ k1 + 1 # k2
  /\ r.ok /\ s1 + 1 = s2
  /\ taskCount' = taskCount - 1
  /\ IF taskCount' # 0 /\ sigok THEN ContinueLoop ELSE BreakLoop
  /\ UNCHANGED <<k1, k2, s1, s2, goingForward, sigok>>

\* Discard the key, on a match the signature with it, and prepare a new task
\* for the same end.  The counter goes down and up again.
\* Mutants: the signature is discarded without a match; a match of the last
\* signature goes on searching.
AdvanceBoth(r) ==
  /\ k1 + 1 # k2
  /\ ~(r.ok /\ s1 + 1 = s2)
  /\ goingForward' = (r.signum # s2)
  /\ IF goingForward'
       THEN k1' = k1 + 1 /\ s1' = s1 + 1 /\ UNCHANGED <<k2, s2>>
       ELSE k2' = k2 - 1 /\ s2' = s2 - 1 /\ UNCHANGED <<k1, s1>>
  /\ pc' = "send"
  /\ UNCHANGED <<taskCount, sigok, closed>>
AdvanceAlways(r) ==
  /\ k1 + 1 # k2
  /\ goingForward' = (r.signum # s2)
  /\ IF goingForward'
       THEN k1' = k1 + 1 /\ s1' = (IF r.ok THEN s1 + 1 ELSE s1) /\ UNCHANGED <<k2, s2>>
       ELSE k2' = k2 - 1 /\ s2' = (IF r.ok THEN s2 - 1 ELSE s2) /\ UNCHANGED <<k1, s1>>
  /\ pc' = "send"
  /\ UNCHANGED <<taskCount, sigok, closed>>
Advance(r) ==
  /\ k1 + 1 # k2
  /\ ~(r.ok /\ s1 + 1 = s2)
  /\ goingForward' = (r.signum # s2)
  /\ IF goingForward'
       THEN k1' = k1 + 1 /\ s1' = (IF r.ok THEN s1 + 1 ELSE s1) /\ UNCHANGED <<k2, s2>>
       ELSE k2' = k2 - 1 /\ s2' = (IF r.ok THEN s2 - 1 ELSE s2) /\ UNCHANGED <<k1, s1>>
  /\ pc' = "send"
  /\ UNCHANGED <<taskCount, sigok, closed>>

ReceiveResult ==
  /\ Running /\ pc = "loop"
  /\ results # <<>>
  /\ results' = Tail(results)
  /\ LET r == Head(results) IN DecideLastPair(r) \/ MatchLastSig(r) \/ Advance(r)
  /\ UNCHANGED <<in, tasks, workers, crashed>>

-----------------------------------------------------------------------------
(* The workers                                                             *)

WorkerTake(w) ==
  /\ Running /\ wstate[w] = "idle"
  /\ tasks # <<>>
  /\ tasks' = Tail(tasks)
  /\ wtask' = [wtask EXCEPT ![w] = Head(tasks)]
  /\ wstate' = [wstate EXCEPT ![w] = "busy"]
  /\ UNCHANGED <<in, pc, search, sigok, closed, results, crashed>>

\* A receive on a closed channel succeeds with ok = FALSE once it is empty.
WorkerExit(w) ==
  /\ Running /\ wstate[w] = "idle"
  /\ closed /\ tasks = <<>>
  /\ wstate' = [wstate EXCEPT ![w] = "exited"]
  /\ UNCHANGED <<in, pc, search, sigok, channels, wtask, crashed>>

WorkerAnswer(w) ==
  /\ Running /\ wstate[w] = "busy"
  /\ ~VerifyPanics(wtask[w].key, wtask[w].signum)
  /\ Len(results) < ResultsCap
  /\ results' = Append(results, [ok |-> Verify(wtask[w].key, wtask[w].signum),
                                 signum |-> wtask[w].signum])
  /\ wstate' = [wstate EXCEPT ![w] = "idle"]
  /\ UNCHANGED <<in, pc, search, sigok, tasks, closed, wtask, crashed>>

\* The panic happens in a goroutine without a deferred recover: the Go
\* runtime ends the process.
WorkerCrash(w) ==
  /\ Running /\ wstate[w] = "busy"
  /\ VerifyPanics(wtask[w].key, wtask[w].signum)
  /\ crashed' = TRUE
  /\ UNCHANGED <<in, pc, search, sigok, channels, workers>>

-----------------------------------------------------------------------------
Main == Enter \/ CheckOne \/ SendFirst \/ SendLast \/ SendNext \/ ReceiveResult

Worker(w) == WorkerTake(w) \/ WorkerExit(w) \/ WorkerAnswer(w) \/ WorkerCrash(w)

Next == Main \/ \E w \in Workers : Worker(w)

Spec == Init /\ [][Next]_vars

\* The Go scheduler runs every goroutine that can run.
FairSpec == Spec /\ WF_vars(Main) /\ \A w \in Workers : WF_vars(Worker(w))

-----------------------------------------------------------------------------
(* Properties                                                              *)

\* Whatever the schedule of the workers, the answer checkMultisigPar and
\* checkMultisig1 return is the sequential definition: some order-preserving
\* assignment of the signatures to distinct keys exists.
VerdictIsMatching ==
  pc = "returned" => (sigok <=> AllMatch(in))

\* The two ends of the search never meet, so pkeys[nextKey] and sigs[signum]
\* are always in range and an answer always belongs to exactly one end.
EndsNeverMeet ==
  pc \in {"first", "last", "loop", "send"} =>
    /\ 0 <= k1 /\ k1 < k2 /\ k2 < in.nkeys
    /\ 0 <= s1 /\ s1 < s2 /\ s2 < in.nsigs

\* Neither channel fills up: the VM's goroutine never blocks on tasks (cap 2)
\* while its workers block on results (cap len(sigs)), even when the loop is
\* left with answers outstanding that nobody will read.
ChannelsNeverFull ==
  /\ pc \in {"first", "last", "send"} => Len(tasks) < TasksCap
  /\ (\E w \in Workers : wstate[w] = "busy") => Len(results) < ResultsCap

\* CHECKMULTISIG gives at most one verdict, the one MultisigVerdict allows.
ImplementsVerdict == V!Spec

\* The call ends, whatever the workers' relative speed.
CallEnds == <>(pc \in {"returned", "fault"})

\* close(tasks) lets every worker leave, the ones still verifying a pair whose
\* answer is no longer needed included: no goroutine outlives the call for good.
WorkersLeave ==
  (pc = "returned" /\ in.nsigs # 1) ~> (\A w \in Workers : wstate[w] = "exited")

\* The comment on execute: "we will recover each panic at a central point,
\* putting the VM in a fault state".
PanicsAreRecovered == ~crashed

-----------------------------------------------------------------------------
(* The inductive invariant behind VerdictIsMatching                        *)

\* Signature s has a task under way: queued, being verified, or answered.
Queued(s) == \E i \in DOMAIN tasks : tasks[i].signum = s
Verifying(s) == \E w \in Workers : wstate[w] = "busy" /\ wtask[w].signum = s
Answered(s) == \E i \in DOMAIN results : results[i].signum = s
Out(s) == Queued(s) \/ Verifying(s) \/ Answered(s)

Ends == /\ 0 <= k1 /\ k1 < k2 /\ k2 < in.nkeys
        /\ 0 <= s1 /\ s1 < s2 /\ s2 < in.nsigs

\* Nothing is under way outside a parallel search.
Quiet == /\ tasks = <<>> /\ results = <<>>
         /\ \A w \in Workers : wstate[w] = "none"

\* Every task under way is the one of the lower or of the upper end...
AtEnd(k, s) == (s = s1 /\ k = k1) \/ (s = s2 /\ k = k2)
QueuedAtEnds == \A i \in DOMAIN tasks : AtEnd(tasks[i].key, tasks[i].signum)
VerifiedAtEnds ==
  \A w \in Workers : wstate[w] = "busy" => AtEnd(wtask[w].key, wtask[w].signum)
AnsweredAtEnds ==
  \A i \in DOMAIN results :
    \/ results[i].signum = s1 /\ (results[i].ok <=> <<s1, k1>> \in in.valid)
    \/ results[i].signum = s2 /\ (results[i].ok <=> <<s2, k2>> \in in.valid)
TasksAtEnds == QueuedAtEnds /\ VerifiedAtEnds /\ AnsweredAtEnds

\* ...and there is at most one for each.
QueuedOnce ==
  \A i, j \in DOMAIN tasks : tasks[i].signum = tasks[j].signum => i = j
AnsweredOnce ==
  \A i, j \in DOMAIN results : results[i].signum = results[j].signum => i = j
VerifiedOnce ==
  \A v, w \in Workers : /\ wstate[v] = "busy" /\ wstate[w] = "busy"
                        /\ wtask[v].signum = wtask[w].signum
                        => v = w
InOnePlace ==
  \A s \in {s1, s2} : /\ ~(Queued(s) /\ Verifying(s))
                      /\ ~(Queued(s) /\ Answered(s))
                      /\ ~(Verifying(s) /\ Answered(s))
OneTaskPerEnd == QueuedOnce /\ AnsweredOnce /\ VerifiedOnce /\ InOnePlace

\* An end with nothing under way has matched its last signature.
LowerDone == s1 + 1 = s2 /\ <<s1, k1>> \in in.valid
UpperDone == s1 + 1 = s2 /\ <<s2, k2>> \in in.valid

One(b) == IF b THEN 1 ELSE 0

LoopInv ==
  /\ taskCount = One(Out(s1)) + One(Out(s2))
  /\ Out(s1) \/ LowerDone
  /\ Out(s2) \/ UpperDone

SendInv ==
  IF goingForward
    THEN ~Out(s1) /\ taskCount = 1 + One(Out(s2)) /\ (Out(s2) \/ UpperDone)
    ELSE ~Out(s2) /\ taskCount = 1 + One(Out(s1)) /\ (Out(s1) \/ LowerDone)

\* The search has lost nothing: what is left to match decides the whole call.
WindowDecides == AllMatch(in) <=> Matchable(in.valid, s1, s2, k1, k2)

\* What holds at each place of the VM's goroutine, conjoined with the shape of
\* the tasks under way: enough to be preserved by every step.
SearchInv ==
  /\ TypeOK
  /\ in.valid \subseteq Nat \X (Nat \ in.undecodable)
  /\ Quiet \/ (Ends /\ in.nsigs >= 2)
  /\ TasksAtEnds
  /\ OneTaskPerEnd
  /\ pc = "enter" => Quiet /\ k1 = 0 /\ s1 = 0
  /\ pc = "seq" => /\ Quiet /\ in.nsigs = 1 /\ 0 <= k1 /\ k1 <= in.nkeys
                   /\ \A k \in 0..k1 - 1 : <<0, k>> \notin in.valid
  /\ pc \in {"first", "last", "loop", "send"} =>
       Ends /\ in.nsigs >= 2 /\ sigok /\ WindowDecides
  /\ pc = "first" => ~Out(s1) /\ ~Out(s2)
  /\ pc = "last" => Out(s1) /\ ~Out(s2)
  /\ pc = "loop" => LoopInv
  /\ pc = "send" => SendInv
  /\ VerdictIsMatching
=============================================================================
