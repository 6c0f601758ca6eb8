------------------------ MODULE CheckMultisigProofs ------------------------
(***************************************************************************)
(* Proofs that the parallel search of CHECKMULTISIG answers the sequential *)
(* question, for any number of keys, signatures and workers.               *)
(***************************************************************************)
EXTENDS CheckMultisig, TLAPS

-----------------------------------------------------------------------------
(* Order-preserving matchings: what each end of the search relies on.      *)

\* A first key that does not verify the first signature can be dropped.
LEMMA SkipFirst ==
  ASSUME NEW valid, NEW sl \in Int, NEW sh \in Int, NEW kl \in Int, NEW kh \in Int,
         sl <= sh, <<sl, kl>> \notin valid
  PROVE  Matchable(valid, sl, sh, kl, kh) <=> Matchable(valid, sl, sh, kl + 1, kh)
<1>1. ASSUME NEW f \in [sl..sh -> kl..kh],
             \A s \in sl..sh : <<s, f[s]>> \in valid,
             \A s, t \in sl..sh : s < t => f[s] < f[t]
      PROVE  f \in [sl..sh -> (kl + 1)..kh]
  <2>1. f[sl] \in kl..kh /\ f[sl] # kl
    BY <1>1
  <2>2. ASSUME NEW s \in sl..sh PROVE f[s] \in (kl + 1)..kh
    BY <1>1, <2>1
  <2> QED BY <2>2
<1>2. ASSUME NEW f \in [sl..sh -> (kl + 1)..kh] PROVE f \in [sl..sh -> kl..kh]
  <2>1. ASSUME NEW s \in sl..sh PROVE f[s] \in kl..kh
    OBVIOUS
  <2> QED BY <2>1
<1> QED BY <1>1, <1>2 DEF Matchable

\* A last key that does not verify the last signature can be dropped.
LEMMA SkipLast ==
  ASSUME NEW valid, NEW sl \in Int, NEW sh \in Int, NEW kl \in Int, NEW kh \in Int,
         sl <= sh, <<sh, kh>> \notin valid
  PROVE  Matchable(valid, sl, sh, kl, kh) <=> Matchable(valid, sl, sh, kl, kh - 1)
<1>1. ASSUME NEW f \in [sl..sh -> kl..kh],
             \A s \in sl..sh : <<s, f[s]>> \in valid,
             \A s, t \in sl..sh : s < t => f[s] < f[t]
      PROVE  f \in [sl..sh -> kl..(kh - 1)]
  <2>1. f[sh] \in kl..kh /\ f[sh] # kh
    BY <1>1
  <2>2. ASSUME NEW s \in sl..sh PROVE f[s] \in kl..(kh - 1)
    BY <1>1, <2>1
  <2> QED BY <2>2
<1>2. ASSUME NEW f \in [sl..sh -> kl..(kh - 1)] PROVE f \in [sl..sh -> kl..kh]
  <2>1. ASSUME NEW s \in sl..sh PROVE f[s] \in kl..kh
    OBVIOUS
  <2> QED BY <2>1
<1> QED BY <1>1, <1>2 DEF Matchable

\* A first key that verifies the first signature can be given to it.
LEMMA TakeFirst ==
  ASSUME NEW valid, NEW sl \in Int, NEW sh \in Int, NEW kl \in Int, NEW kh \in Int,
         sl < sh, kl <= kh, <<sl, kl>> \in valid
  PROVE  Matchable(valid, sl, sh, kl, kh)
           <=> Matchable(valid, sl + 1, sh, kl + 1, kh)
<1>1. ASSUME NEW f \in [sl..sh -> kl..kh],
             \A s \in sl..sh : <<s, f[s]>> \in valid,
             \A s, t \in sl..sh : s < t => f[s] < f[t]
      PROVE  Matchable(valid, sl + 1, sh, kl + 1, kh)
  <2> DEFINE g == [s \in (sl + 1)..sh |-> f[s]]
  <2>1. f[sl] \in kl..kh
    BY <1>1
  <2>2. ASSUME NEW s \in (sl + 1)..sh PROVE f[s] \in (kl + 1)..kh
    BY <1>1, <2>1
  <2>3. g \in [(sl + 1)..sh -> (kl + 1)..kh]
    BY <2>2
  <2>4. \A s \in (sl + 1)..sh : <<s, g[s]>> \in valid
    BY <1>1
  <2>5. \A s, t \in (sl + 1)..sh : s < t => g[s] < g[t]
    BY <1>1
  <2> HIDE DEF g
  <2> QED BY <2>3, <2>4, <2>5 DEF Matchable
<1>2. ASSUME NEW g \in [(sl + 1)..sh -> (kl + 1)..kh],
             \A s \in (sl + 1)..sh : <<s, g[s]>> \in valid,
             \A s, t \in (sl + 1)..sh : s < t => g[s] < g[t]
      PROVE  Matchable(valid, sl, sh, kl, kh)
  <2> DEFINE f == [s \in sl..sh |-> IF s = sl THEN kl ELSE g[s]]
  <2>1. ASSUME NEW s \in sl..sh, s # sl
        PROVE  s \in (sl + 1)..sh /\ g[s] \in (kl + 1)..kh
    BY <1>2, <2>1
  <2>2. f \in [sl..sh -> kl..kh]
    BY <2>1
  <2>3. \A s \in sl..sh : <<s, f[s]>> \in valid
    BY <1>2, <2>1
  <2>4. \A s, t \in sl..sh : s < t => f[s] < f[t]
    BY <1>2, <2>1
  <2> HIDE DEF f
  <2> QED BY <2>2, <2>3, <2>4 DEF Matchable
<1> QED BY <1>1, <1>2 DEF Matchable

\* A last key that verifies the last signature can be given to it.
LEMMA TakeLast ==
  ASSUME NEW valid, NEW sl \in Int, NEW sh \in Int, NEW kl \in Int, NEW kh \in Int,
         sl < sh, kl <= kh, <<sh, kh>> \in valid
  PROVE  Matchable(valid, sl, sh, kl, kh)
           <=> Matchable(valid, sl, sh - 1, kl, kh - 1)
<1>1. ASSUME NEW f \in [sl..sh -> kl..kh],
             \A s \in sl..sh : <<s, f[s]>> \in valid,
             \A s, t \in sl..sh : s < t => f[s] < f[t]
      PROVE  Matchable(valid, sl, sh - 1, kl, kh - 1)
  <2> DEFINE g == [s \in sl..(sh - 1) |-> f[s]]
  <2>1. f[sh] \in kl..kh
    BY <1>1
  <2>2. ASSUME NEW s \in sl..(sh - 1) PROVE f[s] \in kl..(kh - 1)
    BY <1>1, <2>1
  <2>3. g \in [sl..(sh - 1) -> kl..(kh - 1)]
    BY <2>2
  <2>4. \A s \in sl..(sh - 1) : <<s, g[s]>> \in valid
    BY <1>1
  <2>5. \A s, t \in sl..(sh - 1) : s < t => g[s] < g[t]
    BY <1>1
  <2> HIDE DEF g
  <2> QED BY <2>3, <2>4, <2>5 DEF Matchable
<1>2. ASSUME NEW g \in [sl..(sh - 1) -> kl..(kh - 1)],
             \A s \in sl..(sh - 1) : <<s, g[s]>> \in valid,
             \A s, t \in sl..(sh - 1) : s < t => g[s] < g[t]
      PROVE  Matchable(valid, sl, sh, kl, kh)
  <2> DEFINE f == [s \in sl..sh |-> IF s = sh THEN kh ELSE g[s]]
  <2>1. ASSUME NEW s \in sl..sh, s # sh
        PROVE  s \in sl..(sh - 1) /\ g[s] \in kl..(kh - 1)
    BY <1>2, <2>1
  <2>2. f \in [sl..sh -> kl..kh]
    BY <2>1
  <2>3. \A s \in sl..sh : <<s, f[s]>> \in valid
    BY <1>2, <2>1
  <2>4. \A s, t \in sl..sh : s < t => f[s] < f[t]
    BY <1>2, <2>1
  <2> HIDE DEF f
  <2> QED BY <2>2, <2>3, <2>4 DEF Matchable
<1> QED BY <1>1, <1>2 DEF Matchable

\* Two signatures fit into two neighbouring keys in one way only.
LEMMA LastPair ==
  ASSUME NEW valid, NEW sl \in Int, NEW sh \in Int, NEW kl \in Int, NEW kh \in Int,
         sl < sh, kl + 1 = kh, Matchable(valid, sl, sh, kl, kh)
  PROVE  sl + 1 = sh /\ <<sl, kl>> \in valid /\ <<sh, kh>> \in valid
<1>1. PICK f \in [sl..sh -> kl..kh] :
        /\ \A s \in sl..sh : <<s, f[s]>> \in valid
        /\ \A s, t \in sl..sh : s < t => f[s] < f[t]
  BY DEF Matchable
<1>2. f[sl] \in kl..kh /\ f[sh] \in kl..kh /\ f[sl] < f[sh]
  BY <1>1
<1>3. f[sl] = kl /\ f[sh] = kh
  BY <1>2
<1>4. sl + 1 = sh
  <2>1. SUFFICES ASSUME sl + 1 < sh PROVE FALSE
    OBVIOUS
  <2>2. f[sl + 1] \in kl..kh /\ f[sl] < f[sl + 1] /\ f[sl + 1] < f[sh]
    BY <1>1, <2>1
  <2> QED BY <1>3, <2>2
<1> QED BY <1>1, <1>3, <1>4

\* Two matched ends are a matching of the two signatures that were left.
LEMMA BothEnds ==
  ASSUME NEW valid, NEW sl \in Int, NEW sh \in Int, NEW kl \in Int, NEW kh \in Int,
         sl + 1 = sh, kl < kh, <<sl, kl>> \in valid, <<sh, kh>> \in valid
  PROVE  Matchable(valid, sl, sh, kl, kh)
<1> DEFINE f == [s \in sl..sh |-> IF s = sl THEN kl ELSE kh]
<1>1. f \in [sl..sh -> kl..kh]
  OBVIOUS
<1>2. \A s \in sl..sh : <<s, f[s]>> \in valid
  OBVIOUS
<1>3. \A s, t \in sl..sh : s < t => f[s] < f[t]
  OBVIOUS
<1> HIDE DEF f
<1> QED BY <1>1, <1>2, <1>3 DEF Matchable

\* A single signature matches when some key verifies it.
LEMMA SingleSig ==
  ASSUME NEW valid, NEW n \in Int
  PROVE  Matchable(valid, 0, 0, 0, n - 1) <=> \E k \in 0..n - 1 : <<0, k>> \in valid
<1>1. ASSUME NEW k \in 0..n - 1, <<0, k>> \in valid
      PROVE  Matchable(valid, 0, 0, 0, n - 1)
  <2> DEFINE f == [s \in 0..0 |-> k]
  <2>1. f \in [0..0 -> 0..n - 1]
    OBVIOUS
  <2>2. \A s \in 0..0 : <<s, f[s]>> \in valid
    BY <1>1
  <2>3. \A s, t \in 0..0 : s < t => f[s] < f[t]
    OBVIOUS
  <2> HIDE DEF f
  <2> QED BY <2>1, <2>2, <2>3 DEF Matchable
<1>2. ASSUME Matchable(valid, 0, 0, 0, n - 1)
      PROVE  \E k \in 0..n - 1 : <<0, k>> \in valid
  <2>1. PICK f \in [0..0 -> 0..n - 1] : \A s \in 0..0 : <<s, f[s]>> \in valid
    BY <1>2 DEF Matchable
  <2>2. 0 \in 0..0
    OBVIOUS
  <2> QED BY <2>1, <2>2
<1> QED BY <1>1, <1>2

-----------------------------------------------------------------------------
(* Sequences used as channels.                                             *)

\* What receiving from a non-empty channel leaves behind.
LEMMA TailFacts ==
  ASSUME NEW T, NEW q \in Seq(T), q # <<>>
  PROVE  /\ Head(q) = q[1] /\ Head(q) \in T /\ 1 \in DOMAIN q
         /\ Tail(q) \in Seq(T)
         /\ \A i \in DOMAIN Tail(q) : i + 1 \in DOMAIN q /\ Tail(q)[i] = q[i + 1] /\ i \in Nat
         /\ \A i \in DOMAIN q : i # 1 => i - 1 \in DOMAIN Tail(q) /\ Tail(q)[i - 1] = q[i]
OBVIOUS

\* What sending to a channel adds.
LEMMA AppendFacts ==
  ASSUME NEW T, NEW q \in Seq(T), NEW e \in T
  PROVE  /\ Append(q, e) \in Seq(T)
         /\ Len(q) + 1 \in DOMAIN Append(q, e) /\ Append(q, e)[Len(q) + 1] = e
         /\ \A i \in DOMAIN q : i \in DOMAIN Append(q, e) /\ Append(q, e)[i] = q[i]
                                 /\ i # Len(q) + 1
         /\ \A i \in DOMAIN Append(q, e) : i \in DOMAIN q \/ i = Len(q) + 1
OBVIOUS

-----------------------------------------------------------------------------
(* The invariant, action by action.                                        *)

LEMMA WorkerTakeInv ==
  ASSUME SearchInv, NEW w \in Workers, WorkerTake(w)
  PROVE  SearchInv'
<1> DEFINE t == Head(tasks)
<1>1. /\ t = tasks[1] /\ t \in Task /\ 1 \in DOMAIN tasks
      /\ tasks' \in Seq(Task)
      /\ \A i \in DOMAIN tasks' : i + 1 \in DOMAIN tasks /\ tasks'[i] = tasks[i + 1] /\ i \in Nat
      /\ \A i \in DOMAIN tasks : i # 1 => i - 1 \in DOMAIN tasks' /\ tasks'[i - 1] = tasks[i]
  BY TailFacts DEF WorkerTake, SearchInv, TypeOK
<1>2. Ends /\ in.nsigs >= 2
  BY DEF SearchInv, Quiet, WorkerTake
<1>3. AtEnd(t.key, t.signum)
  BY <1>1 DEF SearchInv, TasksAtEnds, QueuedAtEnds
<1>4. TypeOK'
  BY <1>1 DEF SearchInv, TypeOK, WorkerTake, search
<1> HIDE DEF t
<1>5. \A s : Queued(s)' <=> Queued(s) /\ s # t.signum
  BY <1>1 DEF Queued, SearchInv, OneTaskPerEnd, QueuedOnce
<1>6. \A s : Verifying(s)' <=> Verifying(s) \/ s = t.signum
  BY DEF Verifying, WorkerTake, SearchInv, TypeOK, t
<1>7. \A s : Answered(s)' <=> Answered(s)
  BY DEF Answered, WorkerTake
<1>8. \A s : Out(s)' <=> Out(s)
  BY <1>1, <1>5, <1>6, <1>7 DEF Out, Queued
<1>9. /\ wtask'[w] = t /\ wstate'[w] = "busy" /\ wstate[w] # "busy"
      /\ \A v \in Workers : v # w => wtask'[v] = wtask[v] /\ wstate'[v] = wstate[v]
  BY DEF WorkerTake, SearchInv, TypeOK, t
<1>10. TasksAtEnds'
  <2>1. QueuedAtEnds'
    BY <1>1 DEF SearchInv, TasksAtEnds, QueuedAtEnds, AtEnd, WorkerTake, search
  <2>2. VerifiedAtEnds'
    BY <1>3, <1>9 DEF SearchInv, TasksAtEnds, VerifiedAtEnds, AtEnd, WorkerTake, search
  <2>3. AnsweredAtEnds'
    BY DEF SearchInv, TasksAtEnds, AnsweredAtEnds, WorkerTake, search
  <2> QED BY <2>1, <2>2, <2>3 DEF TasksAtEnds
<1>11. OneTaskPerEnd'
  <2>1. QueuedOnce'
    BY <1>1 DEF SearchInv, OneTaskPerEnd, QueuedOnce
  <2>2. AnsweredOnce'
    BY DEF SearchInv, OneTaskPerEnd, AnsweredOnce, WorkerTake
  <2>3. t.signum \in {s1, s2} /\ Queued(t.signum) /\ ~Verifying(t.signum) /\ ~Answered(t.signum)
    BY <1>1, <1>3 DEF SearchInv, OneTaskPerEnd, InOnePlace, Queued, AtEnd
  <2>4. VerifiedOnce'
    BY <1>9, <2>3 DEF SearchInv, OneTaskPerEnd, VerifiedOnce, Verifying
  <2>5. InOnePlace'
    BY <1>5, <1>6, <1>7, <2>3 DEF SearchInv, OneTaskPerEnd, InOnePlace, WorkerTake, search
  <2> QED BY <2>1, <2>2, <2>4, <2>5 DEF OneTaskPerEnd
<1>12. (LoopInv <=> LoopInv') /\ (SendInv <=> SendInv')
  BY <1>8 DEF LoopInv, SendInv, LowerDone, UpperDone, WorkerTake, search, One
<1> QED
  BY <1>2, <1>4, <1>8, <1>10, <1>11, <1>12
  DEF SearchInv, WorkerTake, search, Ends, VerdictIsMatching, WindowDecides, Quiet

LEMMA WorkerAnswerInv ==
  ASSUME SearchInv, NEW w \in Workers, WorkerAnswer(w)
  PROVE  SearchInv'
<1> DEFINE t == wtask[w]
           r == [ok |-> Verify(t.key, t.signum), signum |-> t.signum]
<1>1. t \in Task /\ r \in Result
  BY DEF SearchInv, TypeOK, Task, Result, Verify
<1>2. /\ results' \in Seq(Result)
      /\ Len(results) + 1 \in DOMAIN results' /\ results'[Len(results) + 1] = r
      /\ \A i \in DOMAIN results : i \in DOMAIN results' /\ results'[i] = results[i]
                                   /\ i # Len(results) + 1
      /\ \A i \in DOMAIN results' : i \in DOMAIN results \/ i = Len(results) + 1
  BY <1>1, AppendFacts DEF WorkerAnswer, SearchInv, TypeOK
<1>3. Ends /\ in.nsigs >= 2
  BY DEF SearchInv, Quiet, WorkerAnswer
<1>4. AtEnd(t.key, t.signum)
  BY DEF SearchInv, TasksAtEnds, VerifiedAtEnds, WorkerAnswer
<1>5. TypeOK'
  BY <1>2 DEF SearchInv, TypeOK, WorkerAnswer, search
<1>6. /\ wstate[w] = "busy" /\ wstate'[w] = "idle" /\ wtask' = wtask
      /\ \A v \in Workers : v # w => wstate'[v] = wstate[v]
  BY DEF WorkerAnswer, SearchInv, TypeOK
<1>7. r.signum = t.signum /\ (r.ok <=> <<t.signum, t.key>> \in in.valid)
  BY DEF Verify
<1> HIDE DEF t, r
<1>8. \A s : Queued(s)' <=> Queued(s)
  BY DEF Queued, WorkerAnswer
<1>9. \A s : Verifying(s)' <=> Verifying(s) /\ s # t.signum
  BY <1>6 DEF Verifying, SearchInv, OneTaskPerEnd, VerifiedOnce, t
<1>10. \A s : Answered(s)' <=> Answered(s) \/ s = t.signum
  BY <1>2, <1>7 DEF Answered
<1>11. Verifying(t.signum) /\ t.signum \in {s1, s2}
  BY <1>4, <1>6 DEF Verifying, t, AtEnd
<1>12. \A s : Out(s)' <=> Out(s)
  BY <1>8, <1>9, <1>10, <1>11 DEF Out
<1>13. TasksAtEnds'
  <2>1. QueuedAtEnds'
    BY DEF SearchInv, TasksAtEnds, QueuedAtEnds, AtEnd, WorkerAnswer, search
  <2>2. VerifiedAtEnds'
    BY <1>6 DEF SearchInv, TasksAtEnds, VerifiedAtEnds, AtEnd, WorkerAnswer, search
  <2>3. AnsweredAtEnds'
    <3>1. UNCHANGED <<in, k1, k2, s1, s2>> /\ AnsweredAtEnds
      BY DEF SearchInv, TasksAtEnds, WorkerAnswer, search
    <3>2. ASSUME NEW i \in DOMAIN results'
          PROVE  \/ /\ results'[i].signum = s1
                    /\ results'[i].ok <=> <<s1, k1>> \in in.valid
                 \/ /\ results'[i].signum = s2
                    /\ results'[i].ok <=> <<s2, k2>> \in in.valid
      <4>1. CASE i \in DOMAIN results
        <5>1. results'[i] = results[i]
          BY <1>2, <4>1
        <5> QED BY <3>1, <4>1, <5>1, Zenon DEF AnsweredAtEnds
      <4>2. CASE i = Len(results) + 1
        <5>1. results'[i] = r
          BY <1>2, <4>2
        <5>2. (t.signum = s1 /\ t.key = k1) \/ (t.signum = s2 /\ t.key = k2)
          BY <1>4 DEF AtEnd
        <5> QED BY <1>7, <5>1, <5>2, Zenon
      <4> QED BY <1>2, <4>1, <4>2
    <3> QED BY <3>1, <3>2 DEF AnsweredAtEnds
  <2> QED BY <2>1, <2>2, <2>3 DEF TasksAtEnds
<1>14. OneTaskPerEnd'
  <2>1. QueuedOnce'
    BY DEF SearchInv, OneTaskPerEnd, QueuedOnce, WorkerAnswer
  <2>2. ~Queued(t.signum) /\ ~Answered(t.signum)
    BY <1>11 DEF SearchInv, OneTaskPerEnd, InOnePlace
  <2>3. AnsweredOnce'
    BY <1>2, <1>7, <2>2 DEF SearchInv, OneTaskPerEnd, AnsweredOnce, Answered
  <2>4. VerifiedOnce'
    <3>1. VerifiedOnce
      BY DEF SearchInv, OneTaskPerEnd
    <3>2. \A v \in Workers : wstate'[v] = "busy" => wstate[v] = "busy"
      BY <1>6
    <3> QED BY <1>6, <3>1, <3>2 DEF VerifiedOnce
  <2>5. InOnePlace'
    BY <1>8, <1>9, <1>10, <2>2 DEF SearchInv, OneTaskPerEnd, InOnePlace, WorkerAnswer, search
  <2> QED BY <2>1, <2>3, <2>4, <2>5 DEF OneTaskPerEnd
<1>15. (LoopInv <=> LoopInv') /\ (SendInv <=> SendInv')
  BY <1>12 DEF LoopInv, SendInv, LowerDone, UpperDone, WorkerAnswer, search, One
<1> QED
  BY <1>3, <1>5, <1>12, <1>13, <1>14, <1>15
  DEF SearchInv, WorkerAnswer, search, Ends, VerdictIsMatching, WindowDecides, Quiet

LEMMA WorkerExitInv ==
  ASSUME SearchInv, NEW w \in Workers, WorkerExit(w)
  PROVE  SearchInv'
<1>1. Ends /\ in.nsigs >= 2
  BY DEF SearchInv, Quiet, WorkerExit
<1>2. TypeOK'
  BY DEF SearchInv, TypeOK, WorkerExit, search, channels
<1>3. \A v \in Workers : wstate'[v] = "busy" <=> wstate[v] = "busy"
  BY DEF WorkerExit, SearchInv, TypeOK
<1>4. /\ \A s : Queued(s)' <=> Queued(s)
      /\ \A s : Verifying(s)' <=> Verifying(s)
      /\ \A s : Answered(s)' <=> Answered(s)
  BY <1>3 DEF Queued, Verifying, Answered, WorkerExit, channels
<1>5. \A s : Out(s)' <=> Out(s)
  BY <1>4 DEF Out
<1>6. TasksAtEnds'
  BY <1>3 DEF SearchInv, TasksAtEnds, QueuedAtEnds, VerifiedAtEnds, AnsweredAtEnds, AtEnd,
              WorkerExit, search, channels
<1>7. OneTaskPerEnd'
  <2>1. QueuedOnce' /\ AnsweredOnce'
    BY DEF SearchInv, OneTaskPerEnd, QueuedOnce, AnsweredOnce, WorkerExit, channels
  <2>2. VerifiedOnce'
    BY <1>3 DEF SearchInv, OneTaskPerEnd, VerifiedOnce, WorkerExit
  <2>3. InOnePlace'
    BY <1>4 DEF SearchInv, OneTaskPerEnd, InOnePlace, WorkerExit, search
  <2> QED BY <2>1, <2>2, <2>3 DEF OneTaskPerEnd
<1>8. (LoopInv <=> LoopInv') /\ (SendInv <=> SendInv')
  BY <1>5 DEF LoopInv, SendInv, LowerDone, UpperDone, WorkerExit, search, One
<1> QED
  BY <1>1, <1>2, <1>5, <1>6, <1>7, <1>8
  DEF SearchInv, WorkerExit, search, channels, Ends, VerdictIsMatching, WindowDecides, Quiet

\* Everything but pc, the answer and the bookkeeping of the sends.
shape == <<in, k1, k2, s1, s2, tasks, results, wstate, wtask>>

\* A step that touches neither the ends nor the tasks keeps their relation.
LEMMA SameShape ==
  ASSUME SearchInv, UNCHANGED shape
  PROVE  /\ TasksAtEnds' /\ OneTaskPerEnd'
         /\ \A s : Out(s)' <=> Out(s)
         /\ Quiet' <=> Quiet
<1>1. /\ \A s : Queued(s)' <=> Queued(s)
      /\ \A s : Verifying(s)' <=> Verifying(s)
      /\ \A s : Answered(s)' <=> Answered(s)
  BY DEF Queued, Verifying, Answered, shape
<1>2. TasksAtEnds'
  BY DEF SearchInv, TasksAtEnds, QueuedAtEnds, VerifiedAtEnds, AnsweredAtEnds, AtEnd, shape
<1>3. OneTaskPerEnd'
  BY <1>1 DEF SearchInv, OneTaskPerEnd, QueuedOnce, AnsweredOnce, VerifiedOnce, InOnePlace, shape
<1>4. Quiet' <=> Quiet
  BY DEF Quiet, shape
<1> QED BY <1>1, <1>2, <1>3, <1>4 DEF Out

\* Sending the task of an end that has none under way.
LEMMA AppendShape ==
  ASSUME SearchInv, Ends, NEW k \in Nat, NEW s \in Nat, AtEnd(k, s), ~Out(s),
         tasks' = Append(tasks, [key |-> k, signum |-> s]),
         UNCHANGED <<in, k1, k2, s1, s2, results, wstate, wtask>>
  PROVE  /\ tasks' \in Seq(Task)
         /\ TasksAtEnds' /\ OneTaskPerEnd'
         /\ \A x : Out(x)' <=> Out(x) \/ x = s
<1> DEFINE t == [key |-> k, signum |-> s]
<1>1. t \in Task /\ t.key = k /\ t.signum = s
  BY DEF Task
<1>2. tasks \in Seq(Task)
  BY DEF SearchInv, TypeOK
<1>3. tasks' = Append(tasks, t)
  OBVIOUS
<1> HIDE DEF t
<1>4. /\ tasks' \in Seq(Task)
      /\ Len(tasks) + 1 \in DOMAIN tasks' /\ tasks'[Len(tasks) + 1] = t
      /\ \A i \in DOMAIN tasks : i \in DOMAIN tasks' /\ tasks'[i] = tasks[i]
                                 /\ i # Len(tasks) + 1
      /\ \A i \in DOMAIN tasks' : i \in DOMAIN tasks \/ i = Len(tasks) + 1
  BY <1>1, <1>2, <1>3, AppendFacts
<1>5. /\ \A x : Queued(x)' <=> Queued(x) \/ x = s
      /\ \A x : Verifying(x)' <=> Verifying(x)
      /\ \A x : Answered(x)' <=> Answered(x)
  BY <1>1, <1>4 DEF Queued, Verifying, Answered
<1>6. TasksAtEnds'
  <2>1. QueuedAtEnds'
    BY <1>1, <1>4 DEF SearchInv, TasksAtEnds, QueuedAtEnds, AtEnd
  <2> QED BY <2>1 DEF SearchInv, TasksAtEnds, VerifiedAtEnds, AnsweredAtEnds, AtEnd
<1>7. OneTaskPerEnd'
  <2>1. QueuedOnce'
    BY <1>1, <1>4 DEF SearchInv, OneTaskPerEnd, QueuedOnce, Out, Queued
  <2>2. AnsweredOnce' /\ VerifiedOnce'
    BY DEF SearchInv, OneTaskPerEnd, AnsweredOnce, VerifiedOnce
  <2>3. InOnePlace'
    BY <1>5 DEF SearchInv, OneTaskPerEnd, InOnePlace, Out
  <2> QED BY <2>1, <2>2, <2>3 DEF OneTaskPerEnd
<1> QED BY <1>4, <1>5, <1>6, <1>7 DEF Out

LEMMA InitInv ==
  ASSUME Init
  PROVE  SearchInv
<1>1. in \in Input /\ in.valid \subseteq Nat \X (Nat \ in.undecodable)
  BY InputsAssumption DEF Init, Input
<1>2. TypeOK
  <2>1. goingForward \in BOOLEAN /\ sigok \in BOOLEAN /\ closed \in BOOLEAN /\ crashed \in BOOLEAN
    BY Zenon DEF Init
  <2>2. [key |-> 0, signum |-> 0] \in Task
    BY DEF Task
  <2> QED BY <1>1, <2>1, <2>2 DEF Init, TypeOK
<1>3. Quiet
  BY DEF Init, Quiet
<1>4. TasksAtEnds
  BY <1>3 DEF Quiet, TasksAtEnds, QueuedAtEnds, VerifiedAtEnds, AnsweredAtEnds
<1>5. OneTaskPerEnd
  BY <1>3 DEF Quiet, OneTaskPerEnd, QueuedOnce, AnsweredOnce, VerifiedOnce, InOnePlace, Queued,
              Verifying, Answered
<1> QED
  BY <1>1, <1>2, <1>3, <1>4, <1>5 DEF SearchInv, Init, VerdictIsMatching

LEMMA EnterInv ==
  ASSUME SearchInv, Enter
  PROVE  SearchInv'
<1>1. Quiet /\ k1 = 0 /\ s1 = 0
  BY DEF SearchInv, Enter
<1>2. in.nkeys \in Nat /\ in.nkeys > 0 /\ in.nsigs \in Nat /\ in.nsigs > 0
  BY DEF SearchInv, TypeOK, Input
<1>3. TypeOK'
  <2>1. sigok' \in BOOLEAN
    BY Zenon DEF SearchInv, TypeOK, Enter
  <2>2. k2' \in Int /\ s2' \in Int
    BY <1>2 DEF SearchInv, TypeOK, Enter
  <2>3. wstate' \in [Workers -> {"none", "idle", "busy", "exited"}]
    BY DEF SearchInv, TypeOK, Enter
  <2>4. pc' \in {"fault", "seq", "first"}
    BY DEF Enter
  <2>5. UNCHANGED <<in, k1, s1, goingForward, taskCount, tasks, closed, results, wtask, crashed>>
    BY DEF Enter, channels
  <2> QED BY <2>1, <2>2, <2>3, <2>4, <2>5 DEF SearchInv, TypeOK
<1>4. /\ TasksAtEnds' /\ OneTaskPerEnd' /\ tasks' = <<>> /\ results' = <<>>
      /\ \A s : ~Out(s)'
  <2>1. tasks' = <<>> /\ results' = <<>> /\ \A w \in Workers : wstate'[w] # "busy"
    BY <1>1 DEF Enter, Quiet, channels
  <2>2. \A s : ~Queued(s)' /\ ~Verifying(s)' /\ ~Answered(s)'
    BY <2>1 DEF Queued, Verifying, Answered
  <2>3. TasksAtEnds'
    BY <2>1 DEF TasksAtEnds, QueuedAtEnds, VerifiedAtEnds, AnsweredAtEnds
  <2>4. OneTaskPerEnd'
    BY <2>1, <2>2 DEF OneTaskPerEnd, QueuedOnce, AnsweredOnce, VerifiedOnce, InOnePlace
  <2> QED BY <2>1, <2>2, <2>3, <2>4 DEF Out
<1>5. CASE in.nsigs = 1 \/ in.nkeys < in.nsigs \/ ~in.checkhash
  <2>1. Quiet' /\ pc' \in {"fault", "seq"}
    BY <1>1, <1>2, <1>5 DEF Enter, Quiet, channels
  <2>2. pc' = "seq" => in.nsigs = 1
    BY DEF Enter
  <2> QED BY <1>1, <1>2, <1>3, <1>4, <2>1, <2>2 DEF SearchInv, Enter, VerdictIsMatching
<1>6. CASE in.nsigs # 1 /\ in.nkeys >= in.nsigs /\ in.checkhash
  <2>1. /\ pc' = "first" /\ sigok' /\ UNCHANGED <<in, k1, s1>>
        /\ k2' = in.nkeys - 1 /\ s2' = in.nsigs - 1
    BY <1>2, <1>6 DEF Enter
  <2>2. Ends' /\ (in.nsigs >= 2)'
    BY <1>1, <1>2, <1>6, <2>1 DEF Ends
  <2>3. WindowDecides'
    BY <1>1, <2>1 DEF WindowDecides, AllMatch
  <2> QED BY <1>3, <1>4, <2>1, <2>2, <2>3 DEF SearchInv, VerdictIsMatching
<1> QED BY <1>2, <1>5, <1>6

LEMMA CheckOneInv ==
  ASSUME SearchInv, CheckOne
  PROVE  SearchInv'
<1>1. /\ Quiet /\ in.nsigs = 1 /\ 0 <= k1 /\ k1 <= in.nkeys
      /\ \A k \in 0..k1 - 1 : <<0, k>> \notin in.valid
  BY DEF SearchInv, CheckOne
<1>2. in.nkeys \in Nat /\ k1 \in Int
  BY DEF SearchInv, TypeOK, Input
<1>3. TypeOK'
  <2>1. sigok' \in BOOLEAN
    BY Zenon DEF SearchInv, TypeOK, CheckOne
  <2>2. k1' \in Int
    BY <1>2 DEF CheckOne
  <2>3. pc' \in {"fault", "seq", "returned"}
    BY DEF CheckOne
  <2>4. UNCHANGED <<in, k2, s1, s2, goingForward, taskCount, tasks, closed, results, wstate,
                    wtask, crashed>>
    BY DEF CheckOne, channels, workers
  <2> QED BY <2>1, <2>2, <2>3, <2>4 DEF SearchInv, TypeOK
<1>4. tasks' = <<>> /\ results' = <<>> /\ Quiet'
  BY <1>1 DEF CheckOne, Quiet, channels, workers
<1>5. TasksAtEnds' /\ OneTaskPerEnd'
  BY <1>4 DEF TasksAtEnds, QueuedAtEnds, VerifiedAtEnds, AnsweredAtEnds, Quiet,
              OneTaskPerEnd, QueuedOnce, AnsweredOnce, VerifiedOnce, InOnePlace, Queued,
              Verifying, Answered
<1>6. AllMatch(in) <=> \E k \in 0..in.nkeys - 1 : <<0, k>> \in in.valid
  BY <1>1, <1>2, SingleSig DEF AllMatch
<1>7. CASE k1 = in.nkeys
  <2>1. pc' = "returned" /\ ~sigok' /\ in' = in
    BY <1>2, <1>7 DEF CheckOne
  <2>2. ~AllMatch(in)
    BY <1>1, <1>6, <1>7
  <2> QED BY <1>3, <1>4, <1>5, <2>1, <2>2 DEF SearchInv, VerdictIsMatching
<1>8. CASE k1 < in.nkeys /\ (~Decodable(k1) \/ VerifyPanics(k1, 0))
  <2>1. pc' = "fault" /\ in' = in
    BY <1>2, <1>8 DEF CheckOne
  <2> QED BY <1>3, <1>4, <1>5, <2>1 DEF SearchInv, VerdictIsMatching
<1>9. CASE k1 < in.nkeys /\ Decodable(k1) /\ ~VerifyPanics(k1, 0)
  <2>1. CASE Verify(k1, 0)
    <3>1. pc' = "returned" /\ sigok' /\ in' = in
      BY <1>2, <1>9, <2>1 DEF CheckOne
    <3>2. AllMatch(in)
      BY <1>1, <1>2, <1>6, <1>9, <2>1 DEF Verify
    <3> QED BY <1>3, <1>4, <1>5, <3>1, <3>2 DEF SearchInv, VerdictIsMatching
  <2>2. CASE ~Verify(k1, 0)
    <3>1. pc' = "seq" /\ k1' = k1 + 1 /\ in' = in
      BY <1>2, <1>9, <2>2 DEF CheckOne
    <3>2. ASSUME NEW k \in 0..k1' - 1 PROVE <<0, k>> \notin in'.valid
      <4>1. k \in 0..k1 - 1 \/ k = k1
        BY <1>2, <3>1
      <4> QED BY <1>1, <2>2, <3>1, <4>1 DEF Verify
    <3>3. in'.nsigs = 1 /\ 0 <= k1' /\ k1' <= in'.nkeys
      BY <1>1, <1>2, <1>9, <3>1
    <3> QED BY <1>3, <1>4, <1>5, <3>1, <3>2, <3>3 DEF SearchInv, VerdictIsMatching
  <2> QED BY <2>1, <2>2
<1> QED BY <1>1, <1>2, <1>7, <1>8, <1>9

\* A send that panics changes nothing the invariant still speaks of.
LEMMA SendPanicInv ==
  ASSUME SearchInv, pc' = "fault", UNCHANGED shape, TypeOK'
  PROVE  SearchInv'
BY SameShape DEF SearchInv, VerdictIsMatching, shape, Ends

\* A successful send keeps the shape, whatever it leads to.
LEMMA SendTaskInv ==
  ASSUME SearchInv, Ends, NEW k \in Nat, NEW s \in Nat, AtEnd(k, s), ~Out(s),
         NEW next, SendTask(k, s, next), next \in {"last", "loop"},
         in.nsigs >= 2, sigok, WindowDecides,
         UNCHANGED <<in, k1, k2, s1, s2, goingForward, sigok, closed, results, wstate, wtask,
                     crashed>>,
         taskCount' \in Int,
         next = "last" => s = s1 /\ ~Out(s2),
         next = "loop" => \/ /\ s = s1 /\ taskCount' = 1 + One(Out(s2))
                             /\ Out(s2) \/ UpperDone
                          \/ /\ s = s2 /\ taskCount' = 1 + One(Out(s1))
                             /\ Out(s1) \/ LowerDone
  PROVE  SearchInv'
<1>1. CASE ~Decodable(k)
  <2>1. pc' = "fault" /\ UNCHANGED shape
    BY <1>1 DEF SendTask, shape
  <2>2. TypeOK'
    BY <2>1 DEF SearchInv, TypeOK, shape
  <2> QED BY <2>1, <2>2, SendPanicInv
<1>2. CASE Decodable(k)
  <2>1. pc' = next /\ tasks' = Append(tasks, [key |-> k, signum |-> s])
    BY <1>2 DEF SendTask
  <2>2. /\ tasks' \in Seq(Task)
        /\ TasksAtEnds' /\ OneTaskPerEnd'
        /\ \A x : Out(x)' <=> Out(x) \/ x = s
    BY <2>1, AppendShape
  <2>3. TypeOK'
    BY <2>1, <2>2 DEF SearchInv, TypeOK
  <2>4. Ends' /\ (in.nsigs >= 2)' /\ sigok' /\ WindowDecides' /\ s1 # s2
    BY DEF Ends, WindowDecides, SearchInv, TypeOK
  <2>5. pc' = "last" => Out(s1)' /\ ~Out(s2)'
    BY <2>1, <2>2, <2>4
  <2>6. pc' = "loop" => LoopInv'
    <3>1. CASE next = "loop" /\ s = s1
      <4>1. Out(s1)' /\ (Out(s2)' <=> Out(s2))
        BY <2>2, <2>4, <3>1
      <4>2. taskCount' = 1 + One(Out(s2)) /\ (Out(s2) \/ UpperDone)
        BY <2>4, <3>1
      <4> QED BY <4>1, <4>2 DEF LoopInv, One, UpperDone
    <3>2. CASE next = "loop" /\ s = s2
      <4>1. Out(s2)' /\ (Out(s1)' <=> Out(s1))
        BY <2>2, <2>4, <3>2
      <4>2. taskCount' = 1 + One(Out(s1)) /\ (Out(s1) \/ LowerDone)
        BY <2>4, <3>2
      <4> QED BY <4>1, <4>2 DEF LoopInv, One, LowerDone
    <3> QED BY <2>1, <3>1, <3>2
  <2> QED BY <2>1, <2>2, <2>3, <2>4, <2>5, <2>6 DEF SearchInv, VerdictIsMatching
<1> QED BY <1>1, <1>2

LEMMA SendFirstInv ==
  ASSUME SearchInv, SendFirst
  PROVE  SearchInv'
<1>1. /\ Ends /\ in.nsigs >= 2 /\ sigok /\ WindowDecides
      /\ ~Out(s1) /\ ~Out(s2) /\ k1 \in Nat /\ s1 \in Nat /\ taskCount \in Int
  BY DEF SearchInv, SendFirst, Ends, TypeOK
<1>2. /\ SendTask(k1, s1, "last") /\ AtEnd(k1, s1)
      /\ UNCHANGED <<in, k1, k2, s1, s2, goingForward, sigok, closed, results, wstate, wtask,
                      crashed, taskCount>>
  BY DEF SendFirst, search, workers, AtEnd
<1> QED BY <1>1, <1>2, SendTaskInv

LEMMA SendLastInv ==
  ASSUME SearchInv, SendLast
  PROVE  SearchInv'
<1>1. /\ Ends /\ in.nsigs >= 2 /\ sigok /\ WindowDecides
      /\ Out(s1) /\ ~Out(s2) /\ k2 \in Nat /\ s2 \in Nat
  BY DEF SearchInv, SendLast, Ends, TypeOK
<1>2. /\ SendTask(k2, s2, "loop") /\ AtEnd(k2, s2) /\ taskCount' = 1 + One(Out(s1))
      /\ UNCHANGED <<in, k1, k2, s1, s2, goingForward, sigok, closed, results, wstate, wtask,
                      crashed>>
  BY <1>1 DEF SendLast, workers, AtEnd, One
<1>3. taskCount' \in Int
  BY DEF SendLast
<1> QED BY <1>1, <1>2, <1>3, SendTaskInv

LEMMA SendNextInv ==
  ASSUME SearchInv, SendNext
  PROVE  SearchInv'
<1>1. /\ Ends /\ in.nsigs >= 2 /\ sigok /\ WindowDecides /\ SendInv
      /\ k1 \in Nat /\ s1 \in Nat /\ k2 \in Nat /\ s2 \in Nat
      /\ taskCount' \in Int /\ taskCount' = taskCount
  BY DEF SearchInv, SendNext, Ends, TypeOK, search
<1>2. /\ AtEnd(k1, s1) /\ AtEnd(k2, s2)
      /\ UNCHANGED <<in, k1, k2, s1, s2, goingForward, sigok, closed, results, wstate, wtask,
                      crashed>>
  BY DEF SendNext, workers, AtEnd, search
<1>3. CASE goingForward
  <2>1. SendTask(k1, s1, "loop") /\ ~Out(s1) /\ taskCount = 1 + One(Out(s2))
        /\ (Out(s2) \/ UpperDone)
    BY <1>1, <1>3 DEF SendNext, SendInv
  <2> QED BY <1>1, <1>2, <2>1, SendTaskInv
<1>4. CASE ~goingForward
  <2>1. SendTask(k2, s2, "loop") /\ ~Out(s2) /\ taskCount = 1 + One(Out(s1))
        /\ (Out(s1) \/ LowerDone)
    BY <1>1, <1>4 DEF SendNext, SendInv
  <2> QED BY <1>1, <1>2, <2>1, SendTaskInv
<1> QED BY <1>3, <1>4

\* The answer read in a turn of the loop, and what stays under way after it:
\* only the task of the other end.
LEMMA ReceiveFacts ==
  ASSUME SearchInv, ReceiveResult
  PROVE  LET r == Head(results) IN
         /\ r \in Result /\ results' \in Seq(Result)
         /\ \/ r.signum = s1 /\ (r.ok <=> <<s1, k1>> \in in.valid)
            \/ r.signum = s2 /\ (r.ok <=> <<s2, k2>> \in in.valid)
         /\ \A i \in DOMAIN tasks : /\ AtEnd(tasks[i].key, tasks[i].signum)
                                    /\ tasks[i].signum # r.signum
         /\ \A w \in Workers : wstate[w] = "busy" =>
              AtEnd(wtask[w].key, wtask[w].signum) /\ wtask[w].signum # r.signum
         /\ \A i \in DOMAIN results' : i \in Nat /\ i + 1 \in DOMAIN results
                                       /\ results'[i] = results[i + 1]
                                       /\ results'[i].signum # r.signum
         /\ \A x : Queued(x)' <=> Queued(x)
         /\ \A x : Verifying(x)' <=> Verifying(x)
         /\ \A x : Answered(x)' <=> Answered(x) /\ x # r.signum
         /\ Answered(r.signum) /\ ~Queued(r.signum) /\ ~Verifying(r.signum)
<1> DEFINE r == Head(results)
<1>1. /\ r = results[1] /\ r \in Result /\ 1 \in DOMAIN results
      /\ results' \in Seq(Result)
      /\ \A i \in DOMAIN results' :
           i + 1 \in DOMAIN results /\ results'[i] = results[i + 1] /\ i \in Nat
      /\ \A i \in DOMAIN results : i # 1 =>
           i - 1 \in DOMAIN results' /\ results'[i - 1] = results[i]
  BY TailFacts DEF ReceiveResult, SearchInv, TypeOK
<1> HIDE DEF r
<1>2. \/ r.signum = s1 /\ (r.ok <=> <<s1, k1>> \in in.valid)
      \/ r.signum = s2 /\ (r.ok <=> <<s2, k2>> \in in.valid)
  BY <1>1, Zenon DEF SearchInv, TasksAtEnds, AnsweredAtEnds
<1>3. Answered(r.signum) /\ ~Queued(r.signum) /\ ~Verifying(r.signum)
  <2>1. Answered(r.signum) /\ r.signum \in {s1, s2}
    BY <1>1, <1>2 DEF Answered
  <2> QED BY <2>1 DEF SearchInv, OneTaskPerEnd, InOnePlace
<1>4. \A i \in DOMAIN tasks : /\ AtEnd(tasks[i].key, tasks[i].signum)
                             /\ tasks[i].signum # r.signum
  BY <1>3 DEF SearchInv, TasksAtEnds, QueuedAtEnds, Queued
<1>5. \A w \in Workers : wstate[w] = "busy" =>
        AtEnd(wtask[w].key, wtask[w].signum) /\ wtask[w].signum # r.signum
  BY <1>3 DEF SearchInv, TasksAtEnds, VerifiedAtEnds, Verifying
<1>6. \A i \in DOMAIN results' : i \in Nat /\ i + 1 \in DOMAIN results
                                /\ results'[i] = results[i + 1]
                                /\ results'[i].signum # r.signum
  BY <1>1 DEF SearchInv, OneTaskPerEnd, AnsweredOnce
<1>7. /\ \A x : Queued(x)' <=> Queued(x)
      /\ \A x : Verifying(x)' <=> Verifying(x)
  BY DEF Queued, Verifying, ReceiveResult, workers
<1>8. \A x : Answered(x)' <=> Answered(x) /\ x # r.signum
  BY <1>1, <1>6 DEF Answered
<1> QED BY <1>1, <1>2, <1>3, <1>4, <1>5, <1>6, <1>7, <1>8 DEF r

\* A turn of the loop that leaves the ends where they are.
LEMMA ReceiveShape ==
  ASSUME SearchInv, ReceiveResult, UNCHANGED <<k1, k2, s1, s2>>
  PROVE  TasksAtEnds' /\ OneTaskPerEnd'
<1> DEFINE r == Head(results)
<1>1. in' = in /\ tasks' = tasks /\ wstate' = wstate /\ wtask' = wtask
  BY DEF ReceiveResult, workers
<1>2. QueuedAtEnds' /\ VerifiedAtEnds' /\ QueuedOnce' /\ VerifiedOnce'
  BY <1>1 DEF SearchInv, TasksAtEnds, OneTaskPerEnd, QueuedAtEnds, VerifiedAtEnds, QueuedOnce,
              VerifiedOnce, AtEnd
<1>3. \A i \in DOMAIN results' : i \in Nat /\ i + 1 \in DOMAIN results
                                /\ results'[i] = results[i + 1]
  BY ReceiveFacts
<1>4. AnsweredAtEnds'
  BY <1>1, <1>3, Zenon DEF SearchInv, TasksAtEnds, AnsweredAtEnds
<1>5. AnsweredOnce'
  BY <1>3 DEF SearchInv, OneTaskPerEnd, AnsweredOnce
<1>6. InOnePlace'
  BY ReceiveFacts DEF SearchInv, OneTaskPerEnd, InOnePlace
<1> QED BY <1>2, <1>4, <1>5, <1>6 DEF TasksAtEnds, OneTaskPerEnd

\* What a turn of the loop knows about the two ends before it looks at them.
LEMMA LoopFacts ==
  ASSUME SearchInv, ReceiveResult
  PROVE  /\ Ends /\ in.nsigs >= 2 /\ sigok /\ WindowDecides
         /\ k1 \in Int /\ k2 \in Int /\ s1 \in Int /\ s2 \in Int /\ s1 # s2
         /\ in' = in /\ tasks' = tasks /\ wstate' = wstate /\ wtask' = wtask
         /\ crashed' = crashed
         /\ Head(results).ok \in BOOLEAN
         /\ \/ /\ Head(results).signum = s1
               /\ Head(results).ok <=> <<s1, k1>> \in in.valid
               /\ \A x : Out(x)' <=> Out(x) /\ x # s1
               /\ taskCount = 1 + One(Out(s2)) /\ (Out(s2) \/ UpperDone)
            \/ /\ Head(results).signum = s2
               /\ Head(results).ok <=> <<s2, k2>> \in in.valid
               /\ \A x : Out(x)' <=> Out(x) /\ x # s2
               /\ taskCount = 1 + One(Out(s1)) /\ (Out(s1) \/ LowerDone)
<1> DEFINE r == Head(results)
<1>1. /\ Ends /\ in.nsigs >= 2 /\ sigok /\ WindowDecides /\ LoopInv
      /\ k1 \in Int /\ k2 \in Int /\ s1 \in Int /\ s2 \in Int
  BY DEF SearchInv, ReceiveResult, TypeOK
<1>2. s1 # s2
  BY <1>1 DEF Ends
<1>3. /\ in' = in /\ tasks' = tasks /\ wstate' = wstate /\ wtask' = wtask
      /\ crashed' = crashed
  BY DEF ReceiveResult, workers
<1>4. r.ok \in BOOLEAN
  BY ReceiveFacts DEF Result
<1>5. \A x : Out(x)' <=> Out(x) /\ x # r.signum
  BY ReceiveFacts DEF Out
<1>6. Out(r.signum)
  BY ReceiveFacts DEF Out
<1>7. \/ r.signum = s1 /\ (r.ok <=> <<s1, k1>> \in in.valid)
      \/ r.signum = s2 /\ (r.ok <=> <<s2, k2>> \in in.valid)
  BY ReceiveFacts, Zenon
<1> HIDE DEF r
<1>8. CASE r.signum = s1
  <2>1. taskCount = 1 + One(Out(s2)) /\ (Out(s2) \/ UpperDone)
    BY <1>1, <1>6, <1>8 DEF LoopInv, One
  <2>2. r.ok <=> <<s1, k1>> \in in.valid
    BY <1>2, <1>7, <1>8
  <2>3. \A x : Out(x)' <=> Out(x) /\ x # s1
    BY <1>5, <1>8
  <2> QED BY <1>1, <1>2, <1>3, <1>4, <1>8, <2>1, <2>2, <2>3, Zenon DEF r
<1>9. CASE r.signum = s2
  <2>1. taskCount = 1 + One(Out(s1)) /\ (Out(s1) \/ LowerDone)
    BY <1>1, <1>6, <1>9 DEF LoopInv, One
  <2>2. r.ok <=> <<s2, k2>> \in in.valid
    BY <1>2, <1>7, <1>9
  <2>3. \A x : Out(x)' <=> Out(x) /\ x # s2
    BY <1>5, <1>9
  <2> QED BY <1>1, <1>2, <1>3, <1>4, <1>9, <2>1, <2>2, <2>3, Zenon DEF r
<1> QED BY <1>7, <1>8, <1>9

\* Going on after a match that leaves the ends where they are.
LEMMA ContinueInv ==
  ASSUME SearchInv, ReceiveResult, UNCHANGED <<k1, k2, s1, s2, goingForward, pc, closed>>,
         taskCount' = taskCount - 1, sigok' = TRUE, Head(results).ok, s1 + 1 = s2
  PROVE  SearchInv'
<1>1. TasksAtEnds' /\ OneTaskPerEnd'
  BY ReceiveShape
<1>2. results' \in Seq(Result)
  BY ReceiveFacts
<1>3. /\ in' = in /\ tasks' = tasks /\ wstate' = wstate /\ wtask' = wtask
      /\ crashed' = crashed /\ taskCount \in Int
  BY LoopFacts DEF SearchInv, TypeOK
<1>4. TypeOK'
  BY <1>2, <1>3 DEF SearchInv, TypeOK
<1>5. Ends' /\ (in.nsigs >= 2)' /\ WindowDecides' /\ pc' = "loop"
  BY LoopFacts DEF Ends, WindowDecides, ReceiveResult
<1>6. LoopInv'
  <2>1. CASE Head(results).signum = s1
    <3>1. /\ ~Out(s1)' /\ (Out(s2)' <=> Out(s2)) /\ <<s1, k1>> \in in.valid
          /\ taskCount = 1 + One(Out(s2)) /\ (Out(s2) \/ UpperDone)
      BY <2>1, LoopFacts
    <3> QED BY <1>3, <3>1 DEF LoopInv, LowerDone, UpperDone, One
  <2>2. CASE Head(results).signum = s2
    <3>1. /\ ~Out(s2)' /\ (Out(s1)' <=> Out(s1)) /\ <<s2, k2>> \in in.valid
          /\ taskCount = 1 + One(Out(s1)) /\ (Out(s1) \/ LowerDone)
      BY <2>2, LoopFacts
    <3> QED BY <1>3, <3>1 DEF LoopInv, LowerDone, UpperDone, One
  <2> QED BY <2>1, <2>2, LoopFacts
<1> QED BY <1>1, <1>3, <1>4, <1>5, <1>6 DEF SearchInv, VerdictIsMatching

\* Leaving the loop with the right answer.
LEMMA BreakInv ==
  ASSUME SearchInv, ReceiveResult, UNCHANGED <<k1, k2, s1, s2, goingForward>>,
         taskCount' = taskCount - 1, pc' = "returned", closed' = TRUE, sigok' \in BOOLEAN,
         sigok' <=> AllMatch(in)
  PROVE  SearchInv'
<1>1. TasksAtEnds' /\ OneTaskPerEnd'
  BY ReceiveShape
<1>2. results' \in Seq(Result)
  BY ReceiveFacts
<1>3. /\ in' = in /\ tasks' = tasks /\ wstate' = wstate /\ wtask' = wtask
      /\ crashed' = crashed /\ taskCount \in Int
  BY LoopFacts DEF SearchInv, TypeOK
<1>4. TypeOK'
  BY <1>2, <1>3 DEF SearchInv, TypeOK
<1>5. Ends' /\ (in.nsigs >= 2)'
  BY LoopFacts DEF Ends
<1> QED BY <1>1, <1>3, <1>4, <1>5 DEF SearchInv, VerdictIsMatching

\* With the task just answered the last one, both ends have matched.
LEMMA LastAnswer ==
  ASSUME SearchInv, ReceiveResult, Head(results).ok, s1 + 1 = s2, taskCount - 1 = 0
  PROVE  AllMatch(in)
<1>1. <<s1, k1>> \in in.valid /\ <<s2, k2>> \in in.valid
  BY LoopFacts DEF One, LowerDone, UpperDone
<1>2. Matchable(in.valid, s1, s2, k1, k2)
  BY <1>1, LoopFacts, BothEnds DEF Ends
<1> QED BY <1>2, LoopFacts DEF WindowDecides

LEMMA DecideLastPairInv ==
  ASSUME SearchInv, ReceiveResult, DecideLastPair(Head(results))
  PROVE  SearchInv'
<1> DEFINE r == Head(results)
<1>1. /\ k1 + 1 = k2 /\ taskCount' = taskCount - 1
      /\ sigok' = (r.ok /\ s1 + 1 = s2)
      /\ UNCHANGED <<k1, k2, s1, s2, goingForward>>
  BY DEF DecideLastPair
<1>2. CASE r.ok /\ s1 + 1 = s2 /\ taskCount' # 0
  <2>1. sigok' = TRUE /\ UNCHANGED <<pc, closed>>
    BY <1>1, <1>2 DEF DecideLastPair, ContinueLoop
  <2> QED BY <1>1, <1>2, <2>1, ContinueInv
<1>3. CASE r.ok /\ s1 + 1 = s2 /\ taskCount' = 0
  <2>1. sigok' = TRUE /\ pc' = "returned" /\ closed' = TRUE
    BY <1>1, <1>3 DEF DecideLastPair, BreakLoop
  <2>2. AllMatch(in)
    BY <1>1, <1>3, LastAnswer
  <2> QED BY <1>1, <2>1, <2>2, BreakInv
<1>4. CASE ~(r.ok /\ s1 + 1 = s2)
  <2>1. sigok' = FALSE /\ pc' = "returned" /\ closed' = TRUE
    BY <1>1, <1>4, LoopFacts DEF DecideLastPair, BreakLoop
  <2>2. ~Matchable(in.valid, s1, s2, k1, k2)
    BY <1>1, <1>4, LoopFacts, LastPair DEF Ends
  <2>3. ~AllMatch(in)
    BY <2>2, LoopFacts DEF WindowDecides
  <2> QED BY <1>1, <2>1, <2>3, BreakInv
<1> QED BY <1>2, <1>3, <1>4

LEMMA MatchLastSigInv ==
  ASSUME SearchInv, ReceiveResult, MatchLastSig(Head(results))
  PROVE  SearchInv'
<1>1. /\ Head(results).ok /\ s1 + 1 = s2 /\ taskCount' = taskCount - 1
      /\ UNCHANGED <<k1, k2, s1, s2, goingForward, sigok>>
  BY DEF MatchLastSig
<1>2. sigok' = TRUE
  BY <1>1, LoopFacts DEF SearchInv, TypeOK
<1>3. CASE taskCount' # 0
  <2>1. UNCHANGED <<pc, closed>>
    BY <1>3, LoopFacts DEF MatchLastSig, ContinueLoop
  <2> QED BY <1>1, <1>2, <2>1, ContinueInv
<1>4. CASE taskCount' = 0
  <2>1. pc' = "returned" /\ closed' = TRUE
    BY <1>4 DEF MatchLastSig, BreakLoop
  <2>2. AllMatch(in)
    BY <1>1, <1>4, LastAnswer
  <2> QED BY <1>1, <1>2, <2>1, <2>2, BreakInv
<1> QED BY <1>3, <1>4

\* Moving one end: the tasks that stay under way belong to the other.
LEMMA AdvanceInv ==
  ASSUME SearchInv, ReceiveResult, Advance(Head(results))
  PROVE  SearchInv'
<1> DEFINE r == Head(results)
<1>1. /\ k1 + 1 # k2 /\ ~(r.ok /\ s1 + 1 = s2)
      /\ pc' = "send" /\ UNCHANGED <<taskCount, sigok, closed>>
  BY DEF Advance
<1>2. /\ results' \in Seq(Result) /\ r.ok \in BOOLEAN
      /\ in' = in /\ tasks' = tasks /\ wstate' = wstate /\ wtask' = wtask
      /\ crashed' = crashed /\ sigok
      /\ k1 \in Int /\ k2 \in Int /\ s1 \in Int /\ s2 \in Int /\ s1 # s2
  BY ReceiveFacts, LoopFacts
<1>3. goingForward' \in BOOLEAN /\ (goingForward' <=> r.signum # s2)
  BY Zenon DEF Advance
<1>4. AnsweredOnce' /\ QueuedOnce' /\ VerifiedOnce'
  <2>1. AnsweredOnce'
    BY ReceiveFacts DEF SearchInv, OneTaskPerEnd, AnsweredOnce
  <2> QED BY <1>2, <2>1 DEF SearchInv, OneTaskPerEnd, QueuedOnce, VerifiedOnce
<1>5. Ends /\ in.nkeys \in Int /\ in.nsigs \in Int
  BY LoopFacts DEF SearchInv, TypeOK, Input
<1>6. CASE r.signum = s1
  <2>1. /\ goingForward' = TRUE /\ k1' = k1 + 1 /\ s1' = (IF r.ok THEN s1 + 1 ELSE s1)
        /\ k2' = k2 /\ s2' = s2
    BY <1>2, <1>3, <1>6 DEF Advance
  <2>2. Ends' /\ s1' \in Int /\ s1' < s2
    BY <1>1, <1>2, <1>5, <2>1 DEF Ends
  <2>3. TypeOK'
    BY <1>1, <1>2, <2>1, <2>2 DEF SearchInv, TypeOK
  <2>4. QueuedAtEnds' /\ VerifiedAtEnds'
    BY <1>2, <1>6, <2>1, ReceiveFacts DEF QueuedAtEnds, VerifiedAtEnds, AtEnd
  <2>5. AnsweredAtEnds'
    <3>1. ASSUME NEW i \in DOMAIN results'
          PROVE  results'[i].signum = s2 /\ (results'[i].ok <=> <<s2, k2>> \in in.valid)
      <4>1. i + 1 \in DOMAIN results /\ results'[i] = results[i + 1]
            /\ results'[i].signum # s1
        BY <1>6, ReceiveFacts
      <4> QED BY <4>1, Zenon DEF SearchInv, TasksAtEnds, AnsweredAtEnds
    <3> QED BY <1>2, <2>1, <3>1, Zenon DEF AnsweredAtEnds
  <2>6. \A x : /\ Queued(x)' => x = s2
               /\ Verifying(x)' => x = s2
               /\ Answered(x)' => x = s2
    <3>1. \A i \in DOMAIN tasks : tasks[i].signum = s2
      BY <1>6, ReceiveFacts DEF AtEnd
    <3>2. \A w \in Workers : wstate[w] = "busy" => wtask[w].signum = s2
      BY <1>6, ReceiveFacts DEF AtEnd
    <3>3. ASSUME NEW i \in DOMAIN results' PROVE results'[i].signum = s2
      <4>1. i + 1 \in DOMAIN results /\ results'[i] = results[i + 1]
            /\ results'[i].signum # s1
        BY <1>6, ReceiveFacts
      <4> QED BY <4>1, Zenon DEF SearchInv, TasksAtEnds, AnsweredAtEnds
    <3>4. ASSUME NEW x PROVE Queued(x)' => x = s2
      BY <1>2, <3>1 DEF Queued
    <3>5. ASSUME NEW x PROVE Verifying(x)' => x = s2
      BY <1>2, <3>2 DEF Verifying
    <3>6. ASSUME NEW x PROVE Answered(x)' => x = s2
      BY <3>3, Zenon DEF Answered
    <3> QED BY <3>4, <3>5, <3>6
  <2>7. InOnePlace'
    BY <2>1, <2>2, <2>6, <1>6, ReceiveFacts DEF InOnePlace, SearchInv, OneTaskPerEnd
  <2>8. SendInv'
    <3>1. ~Out(s1)'
      BY <2>2, <2>6, <1>2 DEF Out
    <3>2. (Out(s2)' <=> Out(s2)) /\ taskCount = 1 + One(Out(s2)) /\ (Out(s2) \/ UpperDone)
      BY <1>2, <1>6, <2>1, LoopFacts
    <3>3. Out(s2) \/ (s1' = s1 /\ UpperDone)
      BY <1>1, <1>2, <2>1, <3>2 DEF UpperDone
    <3> QED BY <1>1, <1>2, <2>1, <3>1, <3>2, <3>3 DEF SendInv, UpperDone, One
  <2>9. WindowDecides'
    <3>1. r.ok <=> <<s1, k1>> \in in.valid
      BY <1>2, <1>6, LoopFacts
    <3>2. CASE r.ok
      <4>1. Matchable(in.valid, s1, s2, k1, k2)
              <=> Matchable(in.valid, s1 + 1, s2, k1 + 1, k2)
        <5>1. k1 \in Int /\ k2 \in Int /\ s1 \in Int /\ s2 \in Int
          BY <1>2
        <5>2. s1 < s2 /\ k1 <= k2
          BY <1>5, <5>1 DEF Ends
        <5>3. <<s1, k1>> \in in.valid
          BY <3>1, <3>2
        <5> QED BY <5>1, <5>2, <5>3, TakeFirst
      <4> QED BY <1>2, <2>1, <3>2, <4>1, LoopFacts DEF WindowDecides
    <3>3. CASE ~r.ok
      <4>1. Matchable(in.valid, s1, s2, k1, k2) <=> Matchable(in.valid, s1, s2, k1 + 1, k2)
        <5>1. k1 \in Int /\ k2 \in Int /\ s1 \in Int /\ s2 \in Int
          BY <1>2
        <5>2. s1 <= s2 /\ k1 <= k2
          BY <1>5, <5>1 DEF Ends
        <5>3. <<s1, k1>> \notin in.valid
          BY <3>1, <3>3
        <5> QED BY <5>1, <5>2, <5>3, SkipFirst
      <4> QED BY <1>2, <2>1, <3>3, <4>1, LoopFacts DEF WindowDecides
    <3> QED BY <3>2, <3>3
  <2>10. TasksAtEnds' /\ OneTaskPerEnd'
    BY <1>4, <2>4, <2>5, <2>7 DEF TasksAtEnds, OneTaskPerEnd
  <2>11. in'.valid \subseteq Nat \X (Nat \ in'.undecodable) /\ in'.nsigs >= 2
    BY <1>2, LoopFacts DEF SearchInv
  <2> QED BY <1>1, <1>2, <2>2, <2>3, <2>8, <2>9, <2>10, <2>11
          DEF SearchInv, VerdictIsMatching
<1>7. CASE r.signum = s2
  <2>1. /\ goingForward' = FALSE /\ k2' = k2 - 1 /\ s2' = (IF r.ok THEN s2 - 1 ELSE s2)
        /\ k1' = k1 /\ s1' = s1
    BY <1>2, <1>3, <1>7 DEF Advance
  <2>2. Ends' /\ s2' \in Int /\ s1 < s2'
    BY <1>1, <1>2, <1>5, <2>1 DEF Ends
  <2>3. TypeOK'
    <3>1. k2' \in Int /\ goingForward' \in BOOLEAN
      BY <1>2, <1>3, <2>1
    <3> QED BY <1>1, <1>2, <2>1, <2>2, <3>1 DEF SearchInv, TypeOK
  <2>4. QueuedAtEnds' /\ VerifiedAtEnds'
    BY <1>2, <1>7, <2>1, ReceiveFacts DEF QueuedAtEnds, VerifiedAtEnds, AtEnd
  <2>5. AnsweredAtEnds'
    <3>1. ASSUME NEW i \in DOMAIN results'
          PROVE  results'[i].signum = s1 /\ (results'[i].ok <=> <<s1, k1>> \in in.valid)
      <4>1. i + 1 \in DOMAIN results /\ results'[i] = results[i + 1]
            /\ results'[i].signum # s2
        BY <1>7, ReceiveFacts
      <4> QED BY <4>1, Zenon DEF SearchInv, TasksAtEnds, AnsweredAtEnds
    <3> QED BY <1>2, <2>1, <3>1, Zenon DEF AnsweredAtEnds
  <2>6. \A x : /\ Queued(x)' => x = s1
               /\ Verifying(x)' => x = s1
               /\ Answered(x)' => x = s1
    <3>1. \A i \in DOMAIN tasks : tasks[i].signum = s1
      BY <1>7, ReceiveFacts DEF AtEnd
    <3>2. \A w \in Workers : wstate[w] = "busy" => wtask[w].signum = s1
      BY <1>7, ReceiveFacts DEF AtEnd
    <3>3. ASSUME NEW i \in DOMAIN results' PROVE results'[i].signum = s1
      <4>1. i + 1 \in DOMAIN results /\ results'[i] = results[i + 1]
            /\ results'[i].signum # s2
        BY <1>7, ReceiveFacts
      <4> QED BY <4>1, Zenon DEF SearchInv, TasksAtEnds, AnsweredAtEnds
    <3>4. ASSUME NEW x PROVE Queued(x)' => x = s1
      BY <1>2, <3>1 DEF Queued
    <3>5. ASSUME NEW x PROVE Verifying(x)' => x = s1
      BY <1>2, <3>2 DEF Verifying
    <3>6. ASSUME NEW x PROVE Answered(x)' => x = s1
      BY <3>3, Zenon DEF Answered
    <3> QED BY <3>4, <3>5, <3>6
  <2>7. InOnePlace'
    BY <2>1, <2>2, <2>6, <1>7, ReceiveFacts DEF InOnePlace, SearchInv, OneTaskPerEnd
  <2>8. SendInv'
    <3>1. ~Out(s2)'
      BY <2>2, <2>6, <1>2 DEF Out
    <3>2. (Out(s1)' <=> Out(s1)) /\ taskCount = 1 + One(Out(s1)) /\ (Out(s1) \/ LowerDone)
      BY <1>2, <1>7, <2>1, LoopFacts
    <3>3. Out(s1) \/ (s2' = s2 /\ LowerDone)
      BY <1>1, <1>2, <2>1, <3>2 DEF LowerDone
    <3> QED BY <1>1, <1>2, <2>1, <3>1, <3>2, <3>3 DEF SendInv, LowerDone, One
  <2>9. WindowDecides'
    <3>1. r.ok <=> <<s2, k2>> \in in.valid
      BY <1>2, <1>7, LoopFacts
    <3>2. CASE r.ok
      <4>1. Matchable(in.valid, s1, s2, k1, k2)
              <=> Matchable(in.valid, s1, s2 - 1, k1, k2 - 1)
        <5>1. k1 \in Int /\ k2 \in Int /\ s1 \in Int /\ s2 \in Int
          BY <1>2
        <5>2. s1 < s2 /\ k1 <= k2
          BY <1>5, <5>1 DEF Ends
        <5>3. <<s2, k2>> \in in.valid
          BY <3>1, <3>2
        <5> QED BY <5>1, <5>2, <5>3, TakeLast
      <4> QED BY <1>2, <2>1, <3>2, <4>1, LoopFacts DEF WindowDecides
    <3>3. CASE ~r.ok
      <4>1. Matchable(in.valid, s1, s2, k1, k2) <=> Matchable(in.valid, s1, s2, k1, k2 - 1)
        <5>1. k1 \in Int /\ k2 \in Int /\ s1 \in Int /\ s2 \in Int
          BY <1>2
        <5>2. s1 <= s2 /\ k1 <= k2
          BY <1>5, <5>1 DEF Ends
        <5>3. <<s2, k2>> \notin in.valid
          BY <3>1, <3>3
        <5> QED BY <5>1, <5>2, <5>3, SkipLast
      <4> QED BY <1>2, <2>1, <3>3, <4>1, LoopFacts DEF WindowDecides
    <3> QED BY <3>2, <3>3
  <2>10. TasksAtEnds' /\ OneTaskPerEnd'
    BY <1>4, <2>4, <2>5, <2>7 DEF TasksAtEnds, OneTaskPerEnd
  <2>11. in'.valid \subseteq Nat \X (Nat \ in'.undecodable) /\ in'.nsigs >= 2
    BY <1>2, LoopFacts DEF SearchInv
  <2> QED BY <1>1, <1>2, <2>2, <2>3, <2>8, <2>9, <2>10, <2>11
          DEF SearchInv, VerdictIsMatching
<1> QED BY <1>6, <1>7, LoopFacts

LEMMA ReceiveResultInv ==
  ASSUME SearchInv, ReceiveResult
  PROVE  SearchInv'
BY DecideLastPairInv, MatchLastSigInv, AdvanceInv DEF ReceiveResult

\* Steps that leave the search alone: a crash, or nothing at all.
LEMMA IdleInv ==
  ASSUME SearchInv,
         UNCHANGED <<in, pc, k1, k2, s1, s2, goingForward, taskCount, sigok, tasks, closed,
                     results, wstate, wtask>>,
         crashed' \in BOOLEAN
  PROVE  SearchInv'
<1>1. UNCHANGED shape
  BY DEF shape
<1>2. TypeOK'
  BY DEF SearchInv, TypeOK
<1>3. (LoopInv <=> LoopInv') /\ (SendInv <=> SendInv')
  BY <1>1, SameShape DEF LoopInv, SendInv, LowerDone, UpperDone, One
<1> QED
  BY <1>1, <1>2, <1>3, SameShape DEF SearchInv, Ends, WindowDecides, VerdictIsMatching

-----------------------------------------------------------------------------
(* The theorems.                                                           *)

\* Every reachable state satisfies the invariant of the search, for any keys,
\* signatures and workers.
THEOREM SearchInvHolds == Spec => []SearchInv
<1>1. Init => SearchInv
  BY InitInv
<1>2. SearchInv /\ [Next]_vars => SearchInv'
  <2> SUFFICES ASSUME SearchInv, [Next]_vars PROVE SearchInv'
    OBVIOUS
  <2>1. CASE Enter
    BY <2>1, EnterInv
  <2>2. CASE CheckOne
    BY <2>2, CheckOneInv
  <2>3. CASE SendFirst
    BY <2>3, SendFirstInv
  <2>4. CASE SendLast
    BY <2>4, SendLastInv
  <2>5. CASE SendNext
    BY <2>5, SendNextInv
  <2>6. CASE ReceiveResult
    BY <2>6, ReceiveResultInv
  <2>7. ASSUME NEW w \in Workers, WorkerTake(w) PROVE SearchInv'
    BY <2>7, WorkerTakeInv
  <2>8. ASSUME NEW w \in Workers, WorkerExit(w) PROVE SearchInv'
    BY <2>8, WorkerExitInv
  <2>9. ASSUME NEW w \in Workers, WorkerAnswer(w) PROVE SearchInv'
    BY <2>9, WorkerAnswerInv
  <2>10. ASSUME NEW w \in Workers, WorkerCrash(w) PROVE SearchInv'
    BY <2>10, IdleInv, Zenon DEF WorkerCrash, search, channels, workers
  <2>11. CASE UNCHANGED vars
    <3>1. crashed' \in BOOLEAN
      BY <2>11 DEF vars, SearchInv, TypeOK
    <3> QED BY <2>11, <3>1, IdleInv DEF vars
  <2> QED BY <2>1, <2>2, <2>3, <2>4, <2>5, <2>6, <2>7, <2>8, <2>9, <2>10, <2>11
          DEF Next, Main, Worker
<1> QED BY <1>1, <1>2, PTL DEF Spec

\* The variables keep their types.
THEOREM TypesHold == Spec => []TypeOK
<1>1. SearchInv => TypeOK
  BY DEF SearchInv
<1> QED BY <1>1, SearchInvHolds, PTL

\* The answer of checkMultisigPar is the sequential one on every schedule.
THEOREM VerdictCorrect == Spec => []VerdictIsMatching
<1>1. SearchInv => VerdictIsMatching
  BY DEF SearchInv
<1> QED BY <1>1, SearchInvHolds, PTL

\* The two ends never meet, so every index the loop computes is in range.
THEOREM EndsStayApart == Spec => []EndsNeverMeet
<1>1. SearchInv => EndsNeverMeet
  BY DEF SearchInv, EndsNeverMeet, Ends
<1> QED BY <1>1, SearchInvHolds, PTL

\* No goroutine ever blocks on a full channel.
THEOREM ChannelsHaveRoom == Spec => []ChannelsNeverFull
<1>1. SearchInv => ChannelsNeverFull
  <2> SUFFICES ASSUME SearchInv PROVE ChannelsNeverFull
    OBVIOUS
  <2>1. tasks \in Seq(Task) /\ results \in Seq(Result) /\ in.nsigs \in Nat
    BY DEF SearchInv, TypeOK, Input
  <2>2. ASSUME pc \in {"first", "last", "send"} PROVE Len(tasks) < TasksCap
    <3>1. PICK s \in {s1, s2} : ~Out(s)
      BY <2>2 DEF SearchInv, SendInv
    <3>2. \A i \in DOMAIN tasks : tasks[i].signum \in {s1, s2} /\ tasks[i].signum # s
      BY <3>1 DEF SearchInv, TasksAtEnds, QueuedAtEnds, AtEnd, Out, Queued
    <3>3. \A i, j \in DOMAIN tasks : i = j
      BY <3>2 DEF SearchInv, OneTaskPerEnd, QueuedOnce
    <3>4. ~(Len(tasks) >= 2)
      <4>1. Len(tasks) >= 2 => 1 \in DOMAIN tasks /\ 2 \in DOMAIN tasks
        BY <2>1
      <4> QED BY <4>1, <3>3
    <3>5. Len(tasks) \in Nat
      BY <2>1
    <3> QED BY <3>4, <3>5, TasksCapAssumption
  <2>3. ASSUME NEW w \in Workers, wstate[w] = "busy" PROVE Len(results) < in.nsigs
    <3>1. in.nsigs >= 2
      BY <2>3 DEF SearchInv, Quiet
    <3>2. wtask[w].signum \in {s1, s2} /\ Verifying(wtask[w].signum)
      BY <2>3 DEF SearchInv, TasksAtEnds, VerifiedAtEnds, AtEnd, Verifying
    <3>3. ~Answered(wtask[w].signum)
      BY <3>2 DEF SearchInv, OneTaskPerEnd, InOnePlace
    <3>4. \A i \in DOMAIN results :
            results[i].signum \in {s1, s2} /\ results[i].signum # wtask[w].signum
      BY <3>3 DEF SearchInv, TasksAtEnds, AnsweredAtEnds, Answered
    <3>5. \A i, j \in DOMAIN results : i = j
      BY <3>2, <3>4 DEF SearchInv, OneTaskPerEnd, AnsweredOnce
    <3>6. ~(Len(results) >= 2)
      <4>1. Len(results) >= 2 => 1 \in DOMAIN results /\ 2 \in DOMAIN results
        BY <2>1
      <4> QED BY <4>1, <3>5
    <3>7. Len(results) \in Nat
      BY <2>1
    <3> QED BY <2>1, <3>1, <3>6, <3>7
  <2> QED BY <2>2, <2>3 DEF ChannelsNeverFull, ResultsCap
<1> QED BY <1>1, SearchInvHolds, PTL

-----------------------------------------------------------------------------
(* Refinement: the parallel search implements MultisigVerdict.             *)

\* A step that neither answers nor faults is a stutter of the verdict.
LEMMA VerdictStutters ==
  ASSUME UNCHANGED in,
         \/ UNCHANGED <<pc, sigok>>
         \/ pc \notin {"returned", "fault"} /\ pc' \notin {"returned", "fault"}
  PROVE  UNCHANGED V!vars
BY DEF V!vars

\* A step into fault is allowed by the call.
LEMMA VerdictFaults ==
  ASSUME UNCHANGED in, pc \notin {"returned", "fault"}, pc' = "fault", MayFault(in)
  PROVE  V!Fault
BY DEF V!Fault, MayFault, V!MayFault

\* A step that returns gives the answer of the call.
LEMMA VerdictAnswers ==
  ASSUME UNCHANGED in, pc \notin {"returned", "fault"}, pc' = "returned",
         VerdictIsMatching'
  PROVE  V!Answer
<1>1. sigok' <=> V!AllMatch(in)
  BY DEF VerdictIsMatching, AllMatch, Matchable, V!AllMatch, V!Matchable
<1> QED BY <1>1, Zenon DEF V!Answer

\* One verdict per call: the detailed specification implements the abstract
\* one under the mapping from the goroutine's place and sigok to the verdict.
THEOREM ImplementsMultisigVerdict == Spec => ImplementsVerdict
<1>1. Init => V!Init
  BY InputsAssumption DEF Init, V!Init, V!Input, Input
<1>2. SearchInv /\ SearchInv' /\ [Next]_vars => [V!Next]_(V!vars)
  <2> SUFFICES ASSUME SearchInv, SearchInv', [Next]_vars
               PROVE  V!Next \/ UNCHANGED V!vars
    OBVIOUS
  <2>1. VerdictIsMatching'
    BY DEF SearchInv
  <2>2. in.nkeys \in Nat /\ in.nsigs \in Nat
    BY DEF SearchInv, TypeOK, Input
  <2>3. CASE Enter
    <3>1. UNCHANGED in /\ pc = "enter"
          /\ pc' \in {"fault", "seq", "first"} /\ (pc' = "fault" => MayFault(in))
      BY <2>3 DEF Enter, MayFault
    <3> QED BY <3>1, VerdictStutters, VerdictFaults DEF V!Next
  <2>4. CASE CheckOne
    <3>1. UNCHANGED in /\ pc = "seq" /\ pc' \in {"fault", "seq", "returned"}
      BY <2>4 DEF CheckOne
    <3>2. pc' = "fault" => MayFault(in)
      <4> SUFFICES ASSUME pc' = "fault" PROVE MayFault(in)
        OBVIOUS
      <4>1. k1 \in 0..in.nkeys - 1 /\ (k1 \in in.undecodable \/ 0 \in in.short) /\ in.nsigs = 1
        BY <2>2, <2>4 DEF CheckOne, Decodable, VerifyPanics, SearchInv, TypeOK
      <4> QED BY <4>1 DEF MayFault
    <3> QED BY <2>1, <3>1, <3>2, VerdictStutters, VerdictFaults, VerdictAnswers DEF V!Next
  <2>5. ASSUME NEW k, NEW s, NEW next, SendTask(k, s, next), next \in {"last", "loop"},
               k \in 0..in.nkeys - 1, UNCHANGED in, pc \notin {"returned", "fault"}
        PROVE  V!Next \/ UNCHANGED V!vars
    <3>1. pc' \in {"fault", "last", "loop"} /\ (pc' = "fault" => MayFault(in))
      BY <2>5 DEF SendTask, Decodable, MayFault
    <3> QED BY <2>5, <3>1, VerdictStutters, VerdictFaults DEF V!Next
  <2>6. pc \in {"first", "last", "send"} => k1 \in 0..in.nkeys - 1 /\ k2 \in 0..in.nkeys - 1
    <3>1. k1 \in Int /\ k2 \in Int
      BY DEF SearchInv, TypeOK
    <3>2. pc \in {"first", "last", "send"} => Ends
      BY DEF SearchInv
    <3> QED BY <2>2, <3>1, <3>2 DEF Ends
  <2>7. CASE SendFirst
    <3>1. pc = "first" /\ SendTask(k1, s1, "last") /\ UNCHANGED in
      BY <2>7 DEF SendFirst
    <3> QED BY <2>5, <2>6, <3>1
  <2>8. CASE SendLast
    <3>1. pc = "last" /\ SendTask(k2, s2, "loop") /\ UNCHANGED in
      BY <2>8 DEF SendLast
    <3> QED BY <2>5, <2>6, <3>1
  <2>9. CASE SendNext
    <3>1. pc = "send" /\ UNCHANGED in
          /\ (SendTask(k1, s1, "loop") \/ SendTask(k2, s2, "loop"))
      BY <2>9 DEF SendNext
    <3> QED BY <2>5, <2>6, <3>1
  <2>10. CASE ReceiveResult
    <3>1. UNCHANGED in /\ pc = "loop"
      BY <2>10 DEF ReceiveResult
    <3>2. pc' \in {"loop", "send", "returned"}
      BY <2>10 DEF ReceiveResult, DecideLastPair, MatchLastSig, Advance, BreakLoop, ContinueLoop
    <3> QED BY <2>1, <3>1, <3>2, VerdictStutters, VerdictAnswers DEF V!Next
  <2>11. ASSUME NEW w \in Workers, Worker(w) PROVE UNCHANGED V!vars
    BY <2>11, VerdictStutters
    DEF Worker, WorkerTake, WorkerExit, WorkerAnswer, WorkerCrash
  <2>12. CASE UNCHANGED vars
    BY <2>12, VerdictStutters DEF vars
  <2> QED BY <2>3, <2>4, <2>7, <2>8, <2>9, <2>10, <2>11, <2>12 DEF Next, Main
<1> QED BY <1>1, <1>2, SearchInvHolds, PTL DEF Spec, V!Spec, ImplementsVerdict
=============================================================================
