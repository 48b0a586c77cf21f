---------------------------- MODULE Outbox_proofs ----------------------------
(***************************************************************************)
(* Proofs about the files to send, for any number of files, sources,       *)
(* remote filerequests, reports under way, crashes, deletions and sweeps:  *)
(* no update breaks the constraint of the table, no file that is to be     *)
(* sent is forgotten, and its source is kept.                              *)
(***************************************************************************)
EXTENDS Outbox, TLAPS, WellFoundedInduction, FiniteSetTheorems

(***************************************************************************)
(* A non-empty set of natural numbers has a least element, and a set       *)
(* without one is empty: induction over the queue.                         *)
(***************************************************************************)
LEMMA LeastElement ==
    ASSUME NEW T \in SUBSET Nat, T # {}
    PROVE  \E x \in T : \A y \in T : x <= y
<1> DEFINE R == OpToRel(<, Nat)
<1>1. IsWellFoundedOn(R, Nat)
    BY NatLessThanWellFounded
<1>2. \A a, b \in Nat : a < b => <<a, b>> \in R
    BY DEF OpToRel
<1> HIDE DEF R
<1>3. PICK x \in T : \A y \in T : ~(<<y, x>> \in R)
    BY <1>1, WFMin
<1>4. \A y \in T : x \in Nat /\ y \in Nat /\ ~(y < x)
    BY <1>2, <1>3
<1>5. \A y \in T : x <= y
    BY <1>4
<1> QED
    BY <1>5

LEMMA NoLeastFailure ==
    ASSUME NEW T \in SUBSET Nat, \A n \in T : \E m \in T : m < n
    PROVE  T = {}
<1> SUFFICES ASSUME T # {} PROVE FALSE
    OBVIOUS
<1>1. PICK x \in T : \A y \in T : x <= y
    BY LeastElement
<1>2. PICK m \in T : m < x
    BY <1>1
<1> QED
    BY <1>1, <1>2

(***************************************************************************)
(* The recursive definition of what is kept has a solution.                *)
(***************************************************************************)
LEMMA KeptExists ==
    ASSUME NEW q, NEW fs, NEW len \in Nat
    PROVE  \E g : g = [i \in 0 .. len |->
                          IF i = 0 THEN <<>>
                          ELSE IF q[i].file \in fs THEN g[i - 1]
                          ELSE Append(g[i - 1], q[i])]
<1> DEFINE P(n) == \E g : g = [i \in 0 .. n |->
                          IF i = 0 THEN <<>>
                          ELSE IF q[i].file \in fs THEN g[i - 1]
                          ELSE Append(g[i - 1], q[i])]
           T == {n \in Nat : ~P(n)}
<1>1. P(0)
    <2> DEFINE g == [i \in 0 .. 0 |-> <<>>]
    <2>1. g = [i \in 0 .. 0 |->
                  IF i = 0 THEN <<>>
                  ELSE IF q[i].file \in fs THEN g[i - 1]
                  ELSE Append(g[i - 1], q[i])]
        OBVIOUS
    <2> QED
        BY <2>1
<1>2. ASSUME NEW n \in Nat, n > 0, P(n - 1) PROVE P(n)
    <2>1. PICK h : h = [i \in 0 .. n - 1 |->
                           IF i = 0 THEN <<>>
                           ELSE IF q[i].file \in fs THEN h[i - 1]
                           ELSE Append(h[i - 1], q[i])]
        BY <1>2
    <2> DEFINE g == [i \in 0 .. n |->
                        IF i < n THEN h[i]
                        ELSE IF q[n].file \in fs THEN h[n - 1]
                        ELSE Append(h[n - 1], q[n])]
               r == [i \in 0 .. n |->
                        IF i = 0 THEN <<>>
                        ELSE IF q[i].file \in fs THEN g[i - 1]
                        ELSE Append(g[i - 1], q[i])]
    <2>2. \A i \in 0 .. n : g[i] = r[i]
        <3> TAKE i \in 0 .. n
        <3>1. CASE i = n
            <4>1. g[i - 1] = h[n - 1]
                BY <3>1, <1>2
            <4> QED
                BY <3>1, <4>1, <1>2
        <3>2. CASE i < n
            <4>1. i \in 0 .. n - 1
                BY <3>2
            <4>2. g[i] = h[i]
                BY <3>2
            <4>3. i # 0 => i - 1 \in 0 .. n - 1 /\ g[i - 1] = h[i - 1]
                BY <3>2
            <4>4. h[i] = IF i = 0 THEN <<>>
                         ELSE IF q[i].file \in fs THEN h[i - 1]
                         ELSE Append(h[i - 1], q[i])
                BY <2>1, <4>1
            <4>5. r[i] = IF i = 0 THEN <<>>
                         ELSE IF q[i].file \in fs THEN g[i - 1]
                         ELSE Append(g[i - 1], q[i])
                OBVIOUS
            <4> HIDE DEF g, r
            <4> QED
                BY <4>2, <4>3, <4>4, <4>5
        <3> QED
            BY <3>1, <3>2
    <2>3. g = r
        BY <2>2
    <2> QED
        BY <2>3
<1> HIDE DEF P
<1>3. \A n \in T : \E m \in T : m < n
    <2> SUFFICES ASSUME NEW n \in T, \A m \in T : ~(m < n) PROVE FALSE
        OBVIOUS
    <2>1. n \in Nat /\ ~P(n) /\ n # 0
        BY <1>1
    <2>2. P(n - 1)
        BY <2>1
    <2> QED
        BY <2>1, <2>2, <1>2
<1>4. T = {}
    <2>1. T \in SUBSET Nat
        OBVIOUS
    <2> HIDE DEF T
    <2> QED
        BY <2>1, <1>3, NoLeastFailure
<1>5. P(len)
    BY <1>4
<1> QED
    BY <1>5 DEF P

-----------------------------------------------------------------------------
(* Types. *)

Stages == {"starting", "told", "remotes", "reset", "done"}

Tags == {"Pending", "Prepared", "Sending", "Interrupted", "Sent", "Rejected", "Failed"}

Statuses == [tag : Tags, data : Int]

Rows == [target : Targets, path : Paths, tag : ActiveTags \cup TerminalTags,
         data : Int, retry : Nat]

\* What waits in the tracker is fresh, or has the progress it was interrupted at.
Waits(status) ==
    \/ status = SendStatus("Pending", NoData)
    \/ \E n \in Nat : status = SendStatus("Interrupted", n)

\* What Ready has read and not yet reset may still be Sending.
WasRead(status) == Waits(status) \/ \E n \in Nat : status = SendStatus("Sending", n)

InSlot(status) == \E n \in Nat : status \in {SendStatus("Prepared", n), SendStatus("Sending", n)}

Entries == {p \in [file : Files, status : Statuses, retry : Nat] :
               Waits(p.status)}

Read == {p \in [file : Files, status : Statuses, retry : Nat] :
            WasRead(p.status)}

Sent == {p \in [file : Files, status : Statuses, retry : Nat] :
            InSlot(p.status)}

\* A report leaves the retry count alone only if its status sets the transfer
\* data or ends the file.
Consistent(status, n) ==
    \/ /\ status.tag \in {"Sending", "Interrupted"} /\ status.data \in Nat
       /\ n \in Nat \cup {NoCount}
    \/ status = SendStatus("Pending", NoData) /\ n \in Nat
    \/ status.tag \in TerminalTags /\ n = NoCount

Ending == {"FileSent", "FileRejected", "FileFailed", "FileMissing", "FileIoError"}

Kinds == Ending \cup {"FileSending", "FileSendReset"}

ReportsOK ==
    {r \in [kind : Kinds, file : Files, status : Statuses, count : Int] :
        /\ Consistent(r.status, r.count)
        /\ r.status.tag \in TerminalTags <=> r.kind \in Ending}

(***************************************************************************)
(* The parts of the inductive invariant.                                   *)
(***************************************************************************)
TableInv ==
    /\ remotes \subseteq Targets
    /\ rows = [f \in DOMAIN rows |-> rows[f]]
    /\ DOMAIN rows \subseteq Files
    /\ \A f \in DOMAIN rows :
          /\ rows[f] \in Rows
          /\ rows[f].target = TargetOf[f] /\ rows[f].target \in remotes
          /\ rows[f].path = PathOf[f]
          /\ Check(rows[f])

TrackerInv ==
    /\ queue \in Seq(Entries)
    /\ slot \subseteq Sent
    /\ \A s, t \in slot : s = t

ReportsInv ==
    /\ IsABag(actions)
    /\ DOMAIN actions \subseteq ReportsOK

TasksInv ==
    /\ IsABag(tasks)
    /\ \A k \in DOMAIN tasks : k.do \in {"Count", "Remove"} =>
          k.file \in Files /\ k = Task(k.do, k.file, NoFile)

ReadyInv ==
    /\ ready \in [stage : Stages, remotes : SUBSET Targets, files : SUBSET Read]
    /\ IsFiniteSet(ready.files)
    /\ ready.stage # "reset" => ready.files = {}

SeenInv ==
    /\ seen \in [ended : SUBSET Files, dropped : SUBSET Files, deleted : SUBSET Files,
                 late : SUBSET Files, swept : SUBSET Paths]
    /\ sources \subseteq Paths

TypesInv == TableInv /\ TrackerInv /\ ReportsInv /\ TasksInv /\ ReadyInv /\ SeenInv

\* The tracker has the file, or a task that goes on puts it there or takes the
\* row away, or its end was reported.
Watched(f) ==
    \/ Tracked(f)
    \/ Task("Delete", f, NoFile) \in DOMAIN tasks
    \/ Task("DeleteTarget", NoFile, TargetOf[f]) \in DOMAIN tasks
    \/ Task("Send", NoFile, TargetOf[f]) \in DOMAIN tasks
    \/ f \in seen.ended \cup seen.dropped

\* Ready has read the row.
Taken(f) == \E p \in ready.files : p.file = f

\* Ready has read the rows, or will not look at this one.
Passed(f) ==
    \/ ready.stage \in {"reset", "done"}
    \/ ready.stage = "remotes" /\ TargetOf[f] \notin ready.remotes

\* An active row that Ready will not read is watched; and so is the row of a
\* file that is reported on, which the report may make active again.
CareInv ==
    /\ \A f \in DOMAIN rows : rows[f].tag \in ActiveTags /\ Passed(f) => Watched(f) \/ Taken(f)
    /\ \A r \in DOMAIN actions : r.file \in DOMAIN rows => Watched(r.file)

\* The source of f may be gone.
Excepted(f) ==
    \/ f \in seen.ended \cup seen.late
    \/ \E g \in seen.deleted : PathOf[g] = PathOf[f]

\* A terminal row, a report of an end and a cleanup are about files that have
\* ended, and those of a cleanup are in the table or were deleted.
EndedInv ==
    /\ \A f \in DOMAIN rows : rows[f].tag \in TerminalTags => f \in seen.ended
    /\ \A r \in DOMAIN actions : r.kind \in Ending => r.file \in seen.ended
    /\ \A k \in DOMAIN tasks : k.do \in {"Count", "Remove"} =>
          k.file \in seen.ended /\ k.file \in DOMAIN rows \cup seen.deleted

\* Sources are there, and a cleanup that has counted takes none that is needed.
SourceInv ==
    /\ \A f \in DOMAIN rows :
          /\ rows[f].tag \in ActiveTags /\ ~Excepted(f)
          /\ PathOf[f] \notin seen.swept
          => PathOf[f] \in sources
    /\ \A k \in DOMAIN tasks : k.do = "Remove" =>
          \A f \in DOMAIN rows :
              PathOf[f] = PathOf[k.file] /\ rows[f].tag \in ActiveTags => Excepted(f)

ConstraintInv == aborted # "constraint"

IInv == TypesInv /\ CareInv /\ EndedInv /\ SourceInv /\ ConstraintInv

-----------------------------------------------------------------------------
(* Bags and sequences. *)

LEMMA AddsFacts ==
    ASSUME NEW b, IsABag(b), NEW x
    PROVE  IsABag(Adds(b, x)) /\ DOMAIN Adds(b, x) = DOMAIN b \cup {x}
BY DEF Adds, IsABag, SetToBag, (+)

LEMMA PlusFacts ==
    ASSUME NEW b, IsABag(b), NEW S
    PROVE  IsABag(b (+) SetToBag(S)) /\ DOMAIN (b (+) SetToBag(S)) = DOMAIN b \cup S
BY DEF IsABag, SetToBag, (+)

\* One copy of x is taken, and nothing else.
LEMMA TakesFacts ==
    ASSUME NEW b, IsABag(b), NEW x
    PROVE  /\ IsABag(Takes(b, x))
           /\ DOMAIN Takes(b, x) \subseteq DOMAIN b
           /\ \A y \in DOMAIN b : y # x => y \in DOMAIN Takes(b, x)
BY DEF Takes, IsABag, SetToBag, (-)

LEMMA EmptyBagFacts == IsABag(EmptyBag) /\ DOMAIN EmptyBag = {}
BY DEF EmptyBag, SetToBag, IsABag

\* The tasks after a handler has gone on, or ended.
LEMMA BecomesFacts ==
    ASSUME IsABag(tasks), NEW old, NEW new, Becomes(old, new)
    PROVE  /\ IsABag(tasks')
           /\ new \in DOMAIN tasks'
           /\ \A k \in DOMAIN tasks' : k \in DOMAIN tasks \/ k = new
           /\ \A k \in DOMAIN tasks : k # old => k \in DOMAIN tasks'
<1> DEFINE b == Takes(tasks, old)
<1>1. /\ IsABag(b) /\ DOMAIN b \subseteq DOMAIN tasks
      /\ \A k \in DOMAIN tasks : k # old => k \in DOMAIN b
    BY TakesFacts
<1>2. tasks' = Adds(b, new)
    BY DEF Becomes
<1> HIDE DEF b
<1>3. IsABag(tasks') /\ DOMAIN tasks' = DOMAIN b \cup {new}
    BY <1>1, <1>2, AddsFacts
<1> QED
    BY <1>1, <1>3

LEMMA FinishesFacts ==
    ASSUME IsABag(tasks), NEW old, Finishes(old)
    PROVE  /\ IsABag(tasks')
           /\ DOMAIN tasks' \subseteq DOMAIN tasks
           /\ \A k \in DOMAIN tasks : k # old => k \in DOMAIN tasks'
BY TakesFacts DEF Finishes

\* SetToSeq lists every element of a finite set.
LEMMA SetToSeqFacts ==
    ASSUME NEW S, IsFiniteSet(S)
    PROVE  /\ SetToSeq(S) \in Seq(S)
           /\ \A x \in S : \E i \in 1 .. Len(SetToSeq(S)) : SetToSeq(S)[i] = x
<1> DEFINE D == 1 .. Cardinality(S)
           f == SetToSeq(S)
<1>1. Cardinality(S) \in Nat /\ ExistsBijection(D, S)
    BY FS_CardinalityType
<1>2. \E g \in [D -> S] : IsInjective(g)
    BY <1>1 DEF ExistsBijection, Bijection, Injection, IsInjective
<1>3. f \in [D -> S] /\ IsInjective(f)
    BY <1>2 DEF SetToSeq
<1> HIDE DEF f
<1>4. f \in Injection(D, S)
    BY <1>3 DEF Injection, IsInjective
<1>5. Cardinality(D) = Cardinality(S)
    BY <1>1, FS_Interval
<1>6. f \in Surjection(D, S)
    BY <1>4, <1>5, FS_Injection
<1>7. \A x \in S : \E i \in D : f[i] = x
    BY <1>6 DEF Surjection
<1>8. f \in Seq(S) /\ Len(f) = Cardinality(S)
    BY <1>1, <1>3
<1> QED
    BY <1>7, <1>8 DEF f

(***************************************************************************)
(* retain keeps every file but those of fs.                                *)
(***************************************************************************)
LEMMA RetainedFacts ==
    ASSUME queue \in Seq(Entries), NEW fs
    PROVE  /\ Retained(fs) \in Seq(Entries)
           /\ \A i \in 1 .. Len(queue) : queue[i].file \notin fs =>
                 \E k \in 1 .. Len(Retained(fs)) : Retained(fs)[k] = queue[i]
<1> DEFINE len == Len(queue)
           Rec(g) == [i \in 0 .. len |->
                          IF i = 0 THEN <<>>
                          ELSE IF queue[i].file \in fs THEN g[i - 1]
                          ELSE Append(g[i - 1], queue[i])]
           Kept == CHOOSE g : g = Rec(g)
<1>1. len \in Nat
    OBVIOUS
<1>2. \E g : g = Rec(g)
    <2> DEFINE Solved(q, x, l) == \E g : g = [i \in 0 .. l |->
                                      IF i = 0 THEN <<>>
                                      ELSE IF q[i].file \in x THEN g[i - 1]
                                      ELSE Append(g[i - 1], q[i])]
    <2>1. \A q, x : \A l \in Nat : Solved(q, x, l)
        BY KeptExists
    <2>2. Solved(queue, fs, len)
        <3> HIDE DEF Solved, len
        <3> QED
            BY <1>1, <2>1
    <2> QED
        BY <2>2, Zenon
<1>3. Kept = Rec(Kept)
    BY <1>2
<1>4. Retained(fs) = Kept[len]
    BY DEF Retained
<1>5. /\ Kept[0] = <<>>
      /\ \A i \in 1 .. len : Kept[i] = IF queue[i].file \in fs THEN Kept[i - 1]
                                       ELSE Append(Kept[i - 1], queue[i])
    <2> HIDE DEF Kept
    <2>1. \A i \in 0 .. len : Kept[i] = IF i = 0 THEN <<>>
                                        ELSE IF queue[i].file \in fs THEN Kept[i - 1]
                                        ELSE Append(Kept[i - 1], queue[i])
        BY <1>3
    <2> HIDE DEF Rec
    <2> QED
        BY <1>1, <2>1
<1> HIDE DEF Kept, Rec, len
<1>6. \A i \in 1 .. len : queue[i] \in Entries
    BY DEF len
<1> DEFINE P(n) ==
               /\ Kept[n] \in Seq(Entries)
               /\ \A i \in 1 .. n : queue[i].file \notin fs =>
                     \E k \in 1 .. Len(Kept[n]) : Kept[n][k] = queue[i]
           T == {n \in 0 .. len : ~P(n)}
<1>7. P(0)
    BY <1>5
<1>8. ASSUME NEW n \in 1 .. len, P(n - 1) PROVE P(n)
    <2> DEFINE old == Kept[n - 1]
               last == Len(old) + 1
    <2>1. /\ old \in Seq(Entries)
          /\ \A i \in 1 .. n - 1 : queue[i].file \notin fs =>
                \E k \in 1 .. Len(old) : old[k] = queue[i]
        BY <1>8, Zenon
    <2>0. Len(old) \in Nat
        <3> HIDE DEF old
        <3> QED
            BY <2>1
    <2>2. \A i \in 1 .. n : i \in 1 .. n - 1 \/ i = n
        OBVIOUS
    <2>4. CASE queue[n].file \in fs
        <3>1. Kept[n] = old
            BY <1>5, <2>4
        <3> HIDE DEF old
        <3> QED
            BY <2>1, <2>2, <2>4, <3>1, SMTT(30)
    <2>5. CASE queue[n].file \notin fs
        <3>1. Kept[n] = Append(old, queue[n])
            BY <1>5, <2>5
        <3> HIDE DEF old
        <3>2. /\ Kept[n] \in Seq(Entries) /\ Len(Kept[n]) = last
              /\ Kept[n][last] = queue[n]
              /\ \A k \in 1 .. Len(old) : Kept[n][k] = old[k]
            BY <3>1, <2>1, <2>0, <1>6
        <3>4. \A k \in 1 .. Len(old) : k \in 1 .. last
            BY <2>1, <2>0
        <3>5. last \in 1 .. last
            BY <2>1, <2>0
        <3> HIDE DEF last
        <3>9. \A i \in 1 .. n : queue[i].file \notin fs =>
                  \E k \in 1 .. Len(Kept[n]) : Kept[n][k] = queue[i]
            <4> SUFFICES ASSUME NEW i \in 1 .. n, queue[i].file \notin fs
                         PROVE  \E k \in 1 .. Len(Kept[n]) : Kept[n][k] = queue[i]
                OBVIOUS
            <4>1. CASE i = n
                BY <4>1, <3>2, <3>5
            <4>2. CASE i \in 1 .. n - 1
                BY <4>2, <3>2, <3>4, <2>1, <2>0
            <4> QED
                BY <4>1, <4>2, <2>2
        <3> QED
            BY <3>2, <3>9
    <2> QED
        BY <2>4, <2>5
<1> HIDE DEF P
<1>9. \A n \in T : \E m \in T : m < n
    <2> SUFFICES ASSUME NEW n \in T, \A m \in T : ~(m < n) PROVE FALSE
        OBVIOUS
    <2>1. n \in 1 .. len /\ ~P(n)
        BY <1>1, <1>7
    <2>2. n - 1 \in 0 .. len /\ n - 1 < n
        BY <1>1, <2>1
    <2>3. P(n - 1)
        BY <2>2
    <2> QED
        BY <2>1, <2>3, <1>8
<1>10. T = {}
    <2>1. T \in SUBSET Nat
        BY <1>1
    <2> HIDE DEF T
    <2> QED
        BY <2>1, <1>9, NoLeastFailure
<1>11. P(len)
    <2>1. len \in 0 .. len
        BY <1>1
    <2> QED
        BY <1>10, <2>1
<1> QED
    BY <1>4, <1>11 DEF P, len

\* The files of a queue.
Queued(q, f) == \E i \in 1 .. Len(q) : q[i].file = f

LEMMA RetainedQueue ==
    ASSUME queue \in Seq(Entries), NEW fs
    PROVE  /\ Retained(fs) \in Seq(Entries)
           /\ \A f : Queued(queue, f) /\ f \notin fs => Queued(Retained(fs), f)
<1>1. ASSUME NEW f, f \notin fs, NEW i \in 1 .. Len(queue), queue[i].file = f
      PROVE  Queued(Retained(fs), f)
    <2>1. PICK k \in 1 .. Len(Retained(fs)) : Retained(fs)[k] = queue[i]
        BY <1>1, RetainedFacts
    <2> QED
        BY <1>1, <2>1 DEF Queued
<1> QED
    BY <1>1, RetainedFacts DEF Queued

LEMMA AppendQueue ==
    ASSUME NEW q \in Seq(Entries), NEW e \in Entries
    PROVE  /\ Append(q, e) \in Seq(Entries)
           /\ \A f : Queued(q, f) => Queued(Append(q, e), f)
           /\ Queued(Append(q, e), e.file)
<1> DEFINE a == Append(q, e)
<1>1. /\ a \in Seq(Entries) /\ Len(a) = Len(q) + 1 /\ Len(q) \in Nat
      /\ a[Len(q) + 1] = e /\ \A i \in 1 .. Len(q) : a[i] = q[i] /\ i \in 1 .. Len(q) + 1
    OBVIOUS
<1>2. Len(q) + 1 \in 1 .. Len(q) + 1
    BY <1>1
<1> HIDE DEF a
<1>3. /\ \A f : Queued(q, f) => Queued(a, f)
      /\ Queued(a, e.file)
    BY <1>1, <1>2 DEF Queued
<1> QED
    BY <1>1, <1>3 DEF a

LEMMA ConcatQueue ==
    ASSUME NEW q \in Seq(Entries), NEW r \in Seq(Entries)
    PROVE  /\ q \o r \in Seq(Entries)
           /\ \A f : Queued(q, f) \/ Queued(r, f) => Queued(q \o r, f)
<1> DEFINE c == q \o r
<1>1. /\ c \in Seq(Entries) /\ Len(c) = Len(q) + Len(r) /\ Len(q) \in Nat /\ Len(r) \in Nat
      /\ \A i \in 1 .. Len(c) : c[i] = IF i <= Len(q) THEN q[i] ELSE r[i - Len(q)]
    OBVIOUS
<1> HIDE DEF c
<1>2. \A i \in 1 .. Len(q) : i \in 1 .. Len(c) /\ c[i] = q[i]
    BY <1>1
<1>3. \A i \in 1 .. Len(r) : Len(q) + i \in 1 .. Len(c) /\ c[Len(q) + i] = r[i]
    <2> TAKE i \in 1 .. Len(r)
    <2>1. /\ Len(q) + i \in 1 .. Len(c) /\ ~(Len(q) + i <= Len(q))
          /\ Len(q) + i - Len(q) = i
        BY <1>1
    <2> QED
        BY <1>1, <2>1
<1>4. \A f : Queued(q, f) \/ Queued(r, f) => Queued(c, f)
    BY <1>2, <1>3 DEF Queued
<1> QED
    BY <1>1, <1>4 DEF c

LEMMA TailQueue ==
    ASSUME NEW q \in Seq(Entries), q # <<>>
    PROVE  /\ q[1] \in Entries
           /\ Tail(q) \in Seq(Entries)
           /\ \A f : Queued(q, f) => f = q[1].file \/ Queued(Tail(q), f)
<1> DEFINE t == Tail(q)
<1>1. /\ t \in Seq(Entries) /\ Len(t) = Len(q) - 1 /\ Len(q) \in Nat /\ Len(q) > 0
      /\ q[1] \in Entries /\ \A i \in 1 .. Len(t) : t[i] = q[i + 1]
    OBVIOUS
<1> HIDE DEF t
<1>2. \A i \in 1 .. Len(q) : i = 1 \/ (i - 1 \in 1 .. Len(t) /\ t[i - 1] = q[i])
    BY <1>1
<1>3. \A f : Queued(q, f) => f = q[1].file \/ Queued(t, f)
    BY <1>2 DEF Queued
<1> QED
    BY <1>1, <1>3 DEF t

\* What a finite set of entries adds to a queue.
LEMMA ListedQueue ==
    ASSUME NEW S, IsFiniteSet(S), S \subseteq Entries
    PROVE  /\ SetToSeq(S) \in Seq(Entries)
           /\ \A e \in S : Queued(SetToSeq(S), e.file)
<1>1. /\ SetToSeq(S) \in Seq(S)
      /\ \A x \in S : \E i \in 1 .. Len(SetToSeq(S)) : SetToSeq(S)[i] = x
    BY SetToSeqFacts
<1> DEFINE q == SetToSeq(S)
<1> HIDE DEF q
<1>2. q \in Seq(S) /\ \A x \in S : \E i \in 1 .. Len(q) : q[i] = x
    BY <1>1 DEF q
<1>3. q \in Seq(Entries)
    BY <1>2
<1>4. \A e \in S : Queued(q, e.file)
    BY <1>2 DEF Queued
<1> QED
    BY <1>3, <1>4 DEF q

-----------------------------------------------------------------------------
(* The table. *)

(***************************************************************************)
(* A report the tracker makes, or the reset that Ready makes, is an update *)
(* that the constraint accepts, whatever row it meets.                     *)
(***************************************************************************)
LEMMA UpdateFacts ==
    ASSUME NEW row \in Rows, Check(row),
           NEW status \in Statuses, NEW n \in Int, Consistent(status, n)
    PROVE  /\ UpdatedRow(row, status, n) \in Rows
           /\ Check(UpdatedRow(row, status, n))
           /\ StatusTag(status) # {}
           /\ UpdatedRow(row, status, n).target = row.target
           /\ UpdatedRow(row, status, n).path = row.path
           /\ UpdatedRow(row, status, n).tag = status.tag
<1> DEFINE d == TransferData(status)
           new == UpdatedRow(row, status, n)
<1>1. /\ row.target \in Targets /\ row.path \in Paths
      /\ row.tag \in ActiveTags \cup TerminalTags /\ row.data \in Int /\ row.retry \in Nat
      /\ DOMAIN row = {"target", "path", "tag", "data", "retry"}
    BY DEF Rows
<1>2. CASE n # NoCount
    <2>1. new = [row EXCEPT !.tag = status.tag, !.retry = n, !.data = d]
        BY <1>2 DEF UpdatedRow
    <2>2. /\ n \in Nat
          /\ \/ status.tag \in {"Sending", "Interrupted"} /\ d \in Nat
             \/ status.tag = "Pending" /\ d = NoData
        BY <1>2 DEF Consistent, TransferData, InProgress, SendStatus, NoData, NoCount
    <2> HIDE DEF d, new
    <2>3. new = [target |-> row.target, path |-> row.path, tag |-> status.tag,
                 data |-> d, retry |-> n]
        BY <2>1 DEF Rows
    <2> QED
        BY <1>1, <2>2, <2>3
           DEF new, Rows, Check, StatusTag, NoData, ActiveTags, TerminalTags
<1>3. CASE n = NoCount /\ InProgress(status)
    <2>1. new = [row EXCEPT !.tag = status.tag, !.data = d]
        BY <1>3 DEF UpdatedRow
    <2>2. status.tag \in {"Sending", "Interrupted"} /\ d \in Nat
        BY <1>3 DEF Consistent, TransferData, InProgress, SendStatus, NoData, NoCount,
                    TerminalTags
    <2> HIDE DEF d, new
    <2>3. new = [target |-> row.target, path |-> row.path, tag |-> status.tag,
                 data |-> d, retry |-> row.retry]
        BY <2>1 DEF Rows
    <2> QED
        BY <1>1, <2>2, <2>3
           DEF new, Rows, Check, StatusTag, NoData, ActiveTags, TerminalTags
<1>4. CASE n = NoCount /\ ~InProgress(status)
    <2>1. new = [row EXCEPT !.tag = status.tag]
        BY <1>4 DEF UpdatedRow
    <2>2. status.tag \in TerminalTags
        BY <1>4 DEF Consistent, InProgress, NoCount
    <2> HIDE DEF d, new
    <2>3. new = [target |-> row.target, path |-> row.path, tag |-> status.tag,
                 data |-> row.data, retry |-> row.retry]
        BY <2>1 DEF Rows
    <2> QED
        BY <1>1, <2>2, <2>3
           DEF new, Rows, Check, StatusTag, NoData, ActiveTags, TerminalTags
<1> QED
    BY <1>2, <1>3, <1>4

\* An update leaves the table as it should be, and changes one tag.
LEMMA TableAfterUpdate ==
    ASSUME TableInv, NEW f \in DOMAIN rows,
           NEW status \in Statuses, NEW n \in Int, Consistent(status, n),
           rows' = [rows EXCEPT ![f] = UpdatedRow(@, status, n)], UNCHANGED remotes
    PROVE  /\ TableInv'
           /\ DOMAIN rows' = DOMAIN rows
           /\ rows'[f].tag = status.tag
           /\ \A g \in DOMAIN rows : g # f => rows'[g] = rows[g]
<1> DEFINE new == UpdatedRow(rows[f], status, n)
<1>1. rows[f] \in Rows /\ Check(rows[f])
    BY DEF TableInv
<1>2. /\ new \in Rows /\ Check(new) /\ new.target = rows[f].target
      /\ new.path = rows[f].path /\ new.tag = status.tag
    BY <1>1, UpdateFacts
<1>3. rows' = [rows EXCEPT ![f] = new]
    OBVIOUS
<1> HIDE DEF new
<1>4. /\ DOMAIN rows' = DOMAIN rows /\ rows'[f] = new
      /\ \A g \in DOMAIN rows : g # f => rows'[g] = rows[g]
      /\ rows' = [g \in DOMAIN rows' |-> rows'[g]]
    BY <1>3
<1>5. TableInv'
    BY <1>2, <1>4 DEF TableInv
<1> QED
    BY <1>2, <1>4, <1>5

-----------------------------------------------------------------------------
(* What most steps do, once for all parts of the invariant. *)

LEMMA TrackedFacts ==
    ASSUME NEW f
    PROVE  /\ Tracked(f) <=> (\E s \in slot : s.file = f) \/ Queued(queue, f)
           /\ Tracked(f)' <=> (\E s \in slot' : s.file = f) \/ Queued(queue', f)
BY DEF Tracked, Queued

\* A file stays watched if the tasks that matter go on, and a file that leaves
\* the tracker is watched otherwise.
LEMMA StillWatched ==
    ASSUME NEW f, Watched(f), Tracked(f) => Watched(f)',
           Task("Delete", f, NoFile) \in DOMAIN tasks => Watched(f)',
           Task("DeleteTarget", NoFile, TargetOf[f]) \in DOMAIN tasks => Watched(f)',
           Task("Send", NoFile, TargetOf[f]) \in DOMAIN tasks => Watched(f)',
           seen.ended \cup seen.dropped \subseteq seen'.ended \cup seen'.dropped
    PROVE  Watched(f)'
BY DEF Watched

LEMMA CareStep ==
    ASSUME CareInv,
           \A f \in DOMAIN rows' : f \in DOMAIN rows \/ Watched(f)',
           \A f \in DOMAIN rows' : Watched(f) => Watched(f)',
           \A f \in DOMAIN rows' : rows'[f].tag \in ActiveTags =>
               rows[f].tag \in ActiveTags \/ Watched(f)' \/ Taken(f)',
           \A f \in DOMAIN rows : Passed(f)' => Passed(f) /\ (Taken(f) => Taken(f)'),
           \A r \in DOMAIN actions' :
               r \in DOMAIN actions \/ (r.file \in DOMAIN rows' => Watched(r.file)')
    PROVE  CareInv'
<1>1. ASSUME NEW f \in DOMAIN rows', rows'[f].tag \in ActiveTags, Passed(f)'
      PROVE  Watched(f)' \/ Taken(f)'
    BY <1>1 DEF CareInv
<1>2. ASSUME NEW r \in DOMAIN actions', r.file \in DOMAIN rows' PROVE Watched(r.file)'
    BY <1>2 DEF CareInv
<1> QED
    BY <1>1, <1>2 DEF CareInv

LEMMA EndedStep ==
    ASSUME EndedInv,
           seen.ended \subseteq seen'.ended,
           DOMAIN rows \cup seen.deleted \subseteq DOMAIN rows' \cup seen'.deleted,
           \A f \in DOMAIN rows' : rows'[f].tag \in TerminalTags =>
               f \in seen'.ended \/ (f \in DOMAIN rows /\ rows[f].tag \in TerminalTags),
           \A r \in DOMAIN actions' :
               r \in DOMAIN actions \/ (r.kind \in Ending => r.file \in seen'.ended),
           \A k \in DOMAIN tasks' :
               \/ k \in DOMAIN tasks
               \/ k.do \notin {"Count", "Remove"}
               \/ k.file \in seen'.ended /\ k.file \in DOMAIN rows' \cup seen'.deleted
    PROVE  EndedInv'
BY DEF EndedInv

LEMMA SourceStep ==
    ASSUME SourceInv,
           seen.ended \subseteq seen'.ended, seen.late \subseteq seen'.late,
           seen.deleted \subseteq seen'.deleted, seen.swept \subseteq seen'.swept,
           UNCHANGED sources,
           \A f \in DOMAIN rows' : rows'[f].tag \in ActiveTags =>
               f \in seen'.ended \/ (f \in DOMAIN rows /\ rows[f].tag \in ActiveTags),
           \A k \in DOMAIN tasks' : k \in DOMAIN tasks \/ k.do # "Remove"
    PROVE  SourceInv'
<1>1. \A f : Excepted(f) => Excepted(f)'
    BY DEF Excepted
<1>2. \A f \in seen'.ended : Excepted(f)'
    BY DEF Excepted
<1>3. ASSUME NEW f \in DOMAIN rows', rows'[f].tag \in ActiveTags, ~Excepted(f)',
             PathOf[f] \notin seen'.swept
      PROVE  PathOf[f] \in sources'
    BY <1>1, <1>2, <1>3 DEF SourceInv
<1>4. ASSUME NEW k \in DOMAIN tasks', k.do = "Remove", NEW f \in DOMAIN rows',
             PathOf[f] = PathOf[k.file], rows'[f].tag \in ActiveTags
      PROVE  Excepted(f)'
    BY <1>1, <1>2, <1>4 DEF SourceInv
<1> QED
    BY <1>3, <1>4 DEF SourceInv

\* A report or two tasks apart, nothing of the invariant but the tracker, what
\* has ended and the reports may be touched.
LEMMA TrackerStepFrame ==
    ASSUME IInv, TrackerInv', ReportsInv', UNCHANGED <<disk, tasks, ready, aborted>>, SeenInv',
           seen.ended \subseteq seen'.ended, seen.dropped \subseteq seen'.dropped,
           UNCHANGED <<seen.late, seen.deleted, seen.swept>>,
           \A f : Tracked(f) => Tracked(f)' \/ f \in seen'.ended \cup seen'.dropped,
           \A r \in DOMAIN actions' : r \in DOMAIN actions
               \/ /\ Tracked(r.file)' \/ r.file \in seen'.ended \cup seen'.dropped
                  /\ r.kind \in Ending => r.file \in seen'.ended
    PROVE  IInv'
<1> USE DEF disk
<1>1. TypesInv'
    BY DEF IInv, TypesInv, TableInv, TasksInv, ReadyInv
<1>2. \A f : Watched(f) => Watched(f)'
    BY DEF Watched
<1>3. \A f : Passed(f)' = Passed(f) /\ Taken(f)' = Taken(f)
    BY DEF Passed, Taken
<1>4. \A f : Tracked(f)' \/ f \in seen'.ended \cup seen'.dropped => Watched(f)'
    BY DEF Watched
<1>5. CareInv'
    BY <1>2, <1>3, <1>4, CareStep DEF IInv
<1>6. EndedInv'
    BY EndedStep DEF IInv
<1>7. SourceInv'
    BY SourceStep DEF IInv
<1> QED
    BY <1>1, <1>5, <1>6, <1>7 DEF IInv, ConstraintInv

\* The end of the process: rows stay, and Ready will look at all of them.
LEMMA StopsFrame ==
    ASSUME IInv, Stops, UNCHANGED disk, aborted' # "constraint"
    PROVE  IInv'
<1> USE DEF disk
<1>1. /\ queue' = <<>> /\ slot' = {} /\ actions' = EmptyBag /\ tasks' = EmptyBag
      /\ ready' = Idle("starting") /\ seen' = [seen EXCEPT !.dropped = {}]
    BY DEF Stops
<1>2. IsABag(EmptyBag) /\ DOMAIN EmptyBag = {}
    BY EmptyBagFacts
<1>3. /\ seen' \in [ended : SUBSET Files, dropped : SUBSET Files, deleted : SUBSET Files,
                    late : SUBSET Files, swept : SUBSET Paths]
      /\ UNCHANGED <<seen.ended, seen.late, seen.deleted, seen.swept>>
    BY <1>1 DEF IInv, TypesInv, SeenInv
<1>4. TypesInv'
    <2>1. TableInv' /\ SeenInv'
        BY <1>3 DEF IInv, TypesInv, TableInv, SeenInv
    <2>2. TrackerInv' /\ ReportsInv' /\ TasksInv'
        BY <1>1, <1>2 DEF TrackerInv, ReportsInv, TasksInv
    <2>3. ReadyInv'
        BY <1>1, FS_EmptySet DEF ReadyInv, Idle, Stages
    <2> QED
        BY <2>1, <2>2, <2>3 DEF TypesInv
<1>5. CareInv'
    BY <1>1, <1>2 DEF CareInv, Passed, Idle
<1>6. EndedInv'
    BY <1>1, <1>2, <1>3, EndedStep DEF IInv
<1>7. SourceInv'
    BY <1>1, <1>2, <1>3, SourceStep DEF IInv
<1> QED
    BY <1>4, <1>5, <1>6, <1>7 DEF IInv, ConstraintInv

-----------------------------------------------------------------------------
(* The tracker's steps. *)

LEMMA ReportsFacts ==
    ASSUME ReportsInv, NEW r \in ReportsOK, Reports(r)
    PROVE  ReportsInv' /\ DOMAIN actions' = DOMAIN actions \cup {r}
<1>1. IsABag(actions') /\ DOMAIN actions' = DOMAIN actions \cup {r}
    BY AddsFacts DEF ReportsInv, Reports
<1> QED
    BY <1>1 DEF ReportsInv

LEMMA StatusFacts ==
    ASSUME NEW tag \in Tags, NEW n \in Int
    PROVE  /\ SendStatus(tag, n) \in Statuses
           /\ SendStatus(tag, n).tag = tag /\ SendStatus(tag, n).data = n
BY DEF SendStatus, Statuses

LEMMA ReportIsOK ==
    ASSUME NEW kind \in Kinds, NEW f \in Files, NEW status \in Statuses, NEW n \in Int,
           Consistent(status, n), status.tag \in TerminalTags <=> kind \in Ending
    PROVE  Report(kind, f, status, n) \in ReportsOK
BY DEF Report, ReportsOK, Statuses

\* What the tracker sends to the brain.
LEMMA ReportTypes ==
    ASSUME NEW f \in Files, NEW n \in Nat
    PROVE  /\ Report("FileSending", f, SendStatus("Sending", n), NoCount) \in ReportsOK
           /\ \A c \in Nat \cup {NoCount} :
                 Report("FileSendReset", f, SendStatus("Interrupted", n), c) \in ReportsOK
           /\ Report("FileSending", f, SendStatus("Interrupted", n), NoCount) \in ReportsOK
           /\ \A c \in Nat :
                 Report("FileSendReset", f, SendStatus("Pending", NoData), c) \in ReportsOK
           /\ \A kind \in Ending, tag \in TerminalTags :
                 Report(kind, f, SendStatus(tag, NoData), NoCount) \in ReportsOK
<1>1. NoCount \in Int /\ NoData \in Int /\ \A c \in Nat \cup {NoCount} : c \in Int
    BY DEF NoCount, NoData
<1>2. /\ Ending \subseteq Kinds /\ "FileSending" \in Kinds /\ "FileSendReset" \in Kinds
      /\ TerminalTags \subseteq Tags /\ {"Sending", "Interrupted", "Pending"} \subseteq Tags
    BY DEF Kinds, TerminalTags, Tags
<1>3. /\ "FileSending" \notin Ending /\ "FileSendReset" \notin Ending
      /\ {"Sending", "Interrupted", "Pending"} \cap TerminalTags = {}
    BY DEF Ending, TerminalTags
<1>4. \A tag \in {"Sending", "Interrupted"}, c \in Nat \cup {NoCount} :
          Consistent(SendStatus(tag, n), c)
    BY <1>2, StatusFacts DEF Consistent
<1>5. \A c \in Nat : Consistent(SendStatus("Pending", NoData), c)
    BY DEF Consistent
<1>6. \A tag \in TerminalTags : Consistent(SendStatus(tag, NoData), NoCount)
    BY <1>1, <1>2, StatusFacts DEF Consistent
<1>7. \A tag \in Tags, d \in Int :
          SendStatus(tag, d) \in Statuses /\ SendStatus(tag, d).tag = tag
    BY StatusFacts
<1>8. ASSUME NEW kind \in {"FileSending", "FileSendReset"}, NEW tag \in {"Sending", "Interrupted"},
             NEW c \in Nat \cup {NoCount}
      PROVE  Report(kind, f, SendStatus(tag, n), c) \in ReportsOK
    BY <1>1, <1>2, <1>3, <1>4, <1>7, ReportIsOK
<1>9. ASSUME NEW c \in Nat
      PROVE  Report("FileSendReset", f, SendStatus("Pending", NoData), c) \in ReportsOK
    BY <1>1, <1>2, <1>3, <1>5, <1>7, ReportIsOK
<1>10. ASSUME NEW kind \in Ending, NEW tag \in TerminalTags
       PROVE  Report(kind, f, SendStatus(tag, NoData), NoCount) \in ReportsOK
    BY <1>1, <1>2, <1>6, <1>7, ReportIsOK
<1> QED
    BY <1>8, <1>9, <1>10

LEMMA ReportFields ==
    ASSUME NEW kind, NEW f, NEW status, NEW n
    PROVE  Report(kind, f, status, n).kind = kind /\ Report(kind, f, status, n).file = f
BY DEF Report

\* The slot holds s and nothing else.
LEMMA SlotFacts ==
    ASSUME TrackerInv, NEW s \in slot
    PROVE  /\ slot = {s} /\ s \in Sent /\ s.file \in Files /\ s.retry \in Nat
           /\ s = PendingFile(s.file, s.status, s.retry)
           /\ \E n \in Nat : s.status \in {SendStatus("Prepared", n), SendStatus("Sending", n)}
BY DEF TrackerInv, Sent, InSlot, PendingFile

\* The head of the queue is taken into the slot, or dropped.
LEMMA TakenFromQueue ==
    ASSUME TrackerInv, queue # <<>>, slot = {}, queue' = Tail(queue),
           slot' = {} \/ \E s \in Sent : slot' = {s} /\ s.file = Head1.file
    PROVE  /\ TrackerInv' /\ Head1 \in Entries
           /\ \A f : Tracked(f) => Tracked(f)' \/ f = Head1.file
           /\ slot' # {} => \A f : f = Head1.file => Tracked(f)'
<1>1. /\ Head1 \in Entries /\ queue' \in Seq(Entries)
      /\ \A f : Queued(queue, f) => f = Head1.file \/ Queued(queue', f)
    BY TailQueue DEF TrackerInv, Head1
<1>2. TrackerInv'
    BY <1>1 DEF TrackerInv
<1>3. \A f : Tracked(f) => Tracked(f)' \/ f = Head1.file
    BY <1>1, TrackedFacts
<1>4. slot' # {} => \E s \in slot' : s.file = Head1.file
    OBVIOUS
<1>5. slot' # {} => \A f : f = Head1.file => Tracked(f)'
    BY <1>4, TrackedFacts
<1> QED
    BY <1>1, <1>2, <1>3, <1>5

LEMMA EntryFacts ==
    ASSUME NEW p \in Entries
    PROVE  /\ p.file \in Files /\ p.retry \in Nat
           /\ p = PendingFile(p.file, p.status, p.retry)
           /\ p.status.tag = "Interrupted" =>
                 \E n \in Nat : p.status = SendStatus("Interrupted", n)
BY DEF Entries, Waits, SendStatus, PendingFile

LEMMA EntryFields ==
    ASSUME NEW f, NEW status, NEW c
    PROVE  /\ PendingFile(f, status, c).file = f
           /\ PendingFile(f, status, c).status = status
           /\ PendingFile(f, status, c).retry = c
           /\ \A s : [PendingFile(f, status, c) EXCEPT !.status = s] = PendingFile(f, s, c)
BY DEF PendingFile

LEMMA EntryIsOK ==
    ASSUME NEW f \in Files, NEW status \in Statuses, NEW c \in Nat
    PROVE  /\ InSlot(status) => PendingFile(f, status, c) \in Sent
           /\ Waits(status) => PendingFile(f, status, c) \in Entries
BY DEF PendingFile, Entries, Sent

LEMMA SentEntry ==
    ASSUME NEW f \in Files, NEW n \in Nat, NEW c \in Nat
    PROVE  /\ PendingFile(f, SendStatus("Prepared", n), c) \in Sent
           /\ PendingFile(f, SendStatus("Sending", n), c) \in Sent
<1>1. \A tag \in {"Prepared", "Sending"} :
          SendStatus(tag, n) \in Statuses /\ InSlot(SendStatus(tag, n))
    BY StatusFacts DEF InSlot, Tags
<1> QED
    BY <1>1, EntryIsOK

LEMMA WaitingEntry ==
    ASSUME NEW f \in Files, NEW n \in Nat, NEW c \in Nat
    PROVE  /\ PendingFile(f, SendStatus("Pending", NoData), c) \in Entries
           /\ PendingFile(f, SendStatus("Interrupted", n), c) \in Entries
           /\ PendingFile(f, SendStatus("Pending", NoData), c).file = f
           /\ PendingFile(f, SendStatus("Interrupted", n), c).file = f
<1>1. /\ SendStatus("Pending", NoData) \in Statuses /\ Waits(SendStatus("Pending", NoData))
      /\ SendStatus("Interrupted", n) \in Statuses /\ Waits(SendStatus("Interrupted", n))
    BY StatusFacts DEF Waits, NoData, Tags
<1> QED
    BY <1>1, EntryIsOK, EntryFields

LEMMA OfferNewTransferKeeps == ASSUME IInv, OfferNewTransfer PROVE IInv'
<1> DEFINE s == [Head1 EXCEPT !.status = SendStatus("Prepared", 0)]
<1>1. /\ queue # <<>> /\ slot = {} /\ queue' = Tail(queue) /\ slot' = {s}
      /\ UNCHANGED <<disk, actions, tasks, ready, seen, aborted>>
    BY DEF OfferNewTransfer, Takeable
<1>2. TrackerInv /\ Head1 \in Entries
    BY <1>1, TailQueue DEF IInv, TypesInv, TrackerInv, Head1
<1>3. s = PendingFile(Head1.file, SendStatus("Prepared", 0), Head1.retry)
    BY <1>2, EntryFacts, EntryFields
<1> HIDE DEF s
<1>4. s \in Sent /\ s.file = Head1.file
    BY <1>2, <1>3, EntryFacts, EntryFields, SentEntry
<1>5. TrackerInv' /\ \A f : Tracked(f) => Tracked(f)'
    BY <1>1, <1>2, <1>4, TakenFromQueue
<1>6. ReportsInv' /\ SeenInv'
    BY <1>1 DEF IInv, TypesInv, ReportsInv, SeenInv, disk
<1> QED
    BY <1>1, <1>5, <1>6, TrackerStepFrame

LEMMA OfferContinueTransferKeeps == ASSUME IInv, OfferContinueTransfer PROVE IInv'
<1> DEFINE s == [Head1 EXCEPT !.status.tag = "Prepared"]
           r == Report("FileSending", Head1.file, Head1.status, NoCount)
<1>1. /\ queue # <<>> /\ slot = {} /\ queue' = Tail(queue) /\ Head1.status.tag = "Interrupted"
      /\ Reports(r)
      /\ UNCHANGED <<disk, tasks, ready, aborted>>
      /\ \/ slot' = {s} /\ UNCHANGED seen
         \/ slot' = {} /\ seen' = [seen EXCEPT !.dropped = @ \cup {Head1.file}]
    BY DEF OfferContinueTransfer, Takeable
<1>2. TrackerInv /\ ReportsInv /\ SeenInv /\ Head1 \in Entries
    BY <1>1, TailQueue DEF IInv, TypesInv, TrackerInv, Head1
<1>3. PICK n \in Nat : Head1.status = SendStatus("Interrupted", n)
    BY <1>1, <1>2, EntryFacts
<1>4. s = PendingFile(Head1.file, SendStatus("Prepared", n), Head1.retry)
    BY <1>2, <1>3, EntryFacts DEF SendStatus, PendingFile
<1> HIDE DEF s
<1>5. s \in Sent /\ s.file = Head1.file /\ Head1.file \in Files
    BY <1>2, <1>4, EntryFacts, EntryFields, SentEntry
<1>6. r \in ReportsOK /\ r.file = Head1.file /\ r.kind = "FileSending"
    BY <1>3, <1>5, ReportTypes, ReportFields
<1> HIDE DEF r
<1>7. ReportsInv' /\ DOMAIN actions' = DOMAIN actions \cup {r}
    BY <1>1, <1>2, <1>6, ReportsFacts
<1>8. /\ TrackerInv' /\ \A f : Tracked(f) => Tracked(f)' \/ f = Head1.file
      /\ slot' # {} => \A f : f = Head1.file => Tracked(f)'
    BY <1>1, <1>2, <1>5, TakenFromQueue
<1>9. /\ SeenInv' /\ seen.ended \subseteq seen'.ended /\ seen.dropped \subseteq seen'.dropped
      /\ UNCHANGED <<seen.late, seen.deleted, seen.swept>>
      /\ slot' # {} \/ Head1.file \in seen'.dropped
    <2> DEFINE f == Head1.file
    <2>1. f \in Files
        BY <1>5
    <2>2. CASE slot' = {s} /\ UNCHANGED seen
        BY <1>1, <1>2, <2>2 DEF SeenInv, disk
    <2>3. CASE seen' = [seen EXCEPT !.dropped = @ \cup {f}]
        <3> HIDE DEF f
        <3>1. /\ SeenInv' /\ seen.ended \subseteq seen'.ended
              /\ seen.dropped \subseteq seen'.dropped
              /\ UNCHANGED <<seen.late, seen.deleted, seen.swept>> /\ f \in seen'.dropped
            BY <1>1, <1>2, <2>1, <2>3 DEF SeenInv, disk
        <3> QED
            BY <3>1 DEF f
    <2> QED
        BY <1>1, <2>2, <2>3
<1>10. r.kind \notin Ending
    BY <1>6 DEF Ending
<1> QED
    BY <1>1, <1>6, <1>7, <1>8, <1>9, <1>10, TrackerStepFrame

LEMMA PeerAcceptsKeeps == ASSUME IInv, PeerAccepts PROVE IInv'
<1>1. PICK s \in slot, data \in 0 .. Size :
          /\ slot' = {[s EXCEPT !.status = SendStatus("Sending", data)]}
          /\ UNCHANGED <<disk, queue, actions, tasks, ready, seen, aborted>>
    BY DEF PeerAccepts
<1> DEFINE v == [s EXCEPT !.status = SendStatus("Sending", data)]
<1>2. TrackerInv /\ data \in Nat
    BY OutboxAssumption DEF IInv, TypesInv
<1>3. v = PendingFile(s.file, SendStatus("Sending", data), s.retry)
    BY <1>2, SlotFacts, EntryFields
<1>4. slot' = {v}
    BY <1>1
<1> HIDE DEF v
<1>5. v \in Sent /\ v.file = s.file
    BY <1>2, <1>3, SlotFacts, EntryFields, SentEntry
<1>6. TrackerInv'
    BY <1>1, <1>2, <1>4, <1>5 DEF TrackerInv
<1>7. \A f : Tracked(f) => Tracked(f)'
    BY <1>1, <1>2, <1>4, <1>5, SlotFacts, TrackedFacts
<1>8. ReportsInv' /\ SeenInv'
    BY <1>1 DEF IInv, TypesInv, ReportsInv, SeenInv, disk
<1> QED
    BY <1>1, <1>6, <1>7, <1>8, TrackerStepFrame

LEMMA PeerConfirmsChunkKeeps == ASSUME IInv, PeerConfirmsChunk PROVE IInv'
<1>1. PICK s \in slot :
          LET status == SendStatus("Sending", s.status.data + 1) IN
          /\ s.status.tag = "Sending"
          /\ slot' = {[s EXCEPT !.status = status]}
          /\ Reports(Report("FileSending", s.file, status, NoCount))
          /\ UNCHANGED <<disk, queue, tasks, ready, seen, aborted>>
    BY DEF PeerConfirmsChunk
<1>2. TrackerInv /\ ReportsInv
    BY DEF IInv, TypesInv
<1> DEFINE n == s.status.data + 1
           v == [s EXCEPT !.status = SendStatus("Sending", n)]
           r == Report("FileSending", s.file, SendStatus("Sending", n), NoCount)
<1>3. n \in Nat
    BY <1>2, SlotFacts DEF SendStatus
<1>4. slot' = {v} /\ Reports(r)
    BY <1>1
<1> HIDE DEF n
<1>5. v = PendingFile(s.file, SendStatus("Sending", n), s.retry)
    BY <1>2, SlotFacts, EntryFields
<1>7. r \in ReportsOK /\ r.file = s.file /\ r.kind = "FileSending"
    BY <1>2, <1>3, SlotFacts, ReportTypes, ReportFields
<1> HIDE DEF v, r
<1>6. v \in Sent /\ v.file = s.file
    BY <1>2, <1>3, <1>5, SlotFacts, EntryFields, SentEntry
<1>8. TrackerInv'
    BY <1>1, <1>2, <1>4, <1>6 DEF TrackerInv
<1>9. \A f : Tracked(f) => Tracked(f)'
    BY <1>1, <1>2, <1>4, <1>6, SlotFacts, TrackedFacts
<1>10. Tracked(s.file)'
    BY <1>4, <1>6, TrackedFacts
<1>11. ReportsInv' /\ DOMAIN actions' = DOMAIN actions \cup {r}
    BY <1>2, <1>4, <1>7, ReportsFacts
<1>12. SeenInv' /\ r.kind \notin Ending
    BY <1>1, <1>7 DEF IInv, TypesInv, SeenInv, disk, Ending
<1> QED
    BY <1>1, <1>7, <1>8, <1>9, <1>10, <1>11, <1>12, TrackerStepFrame

\* The file of the slot ends.
LEMMA CompletesKeeps ==
    ASSUME IInv, NEW s \in slot, NEW kind \in Ending, NEW tag \in TerminalTags,
           Completes(s, kind, tag), UNCHANGED <<disk, tasks, ready, aborted>>
    PROVE  IInv'
<1> DEFINE r == Report(kind, s.file, SendStatus(tag, NoData), NoCount)
<1>1. /\ slot' = {} /\ Reports(r) /\ UNCHANGED queue
      /\ seen' = [seen EXCEPT !.ended = @ \cup {s.file}]
    BY DEF Completes
<1>2. TrackerInv /\ ReportsInv /\ SeenInv
    BY DEF IInv, TypesInv
<1>3. s.file \in Files /\ slot = {s}
    BY <1>2, SlotFacts
<1>4. r \in ReportsOK /\ r.file = s.file
    BY <1>3, ReportTypes, ReportFields
<1> HIDE DEF r
<1>5. ReportsInv' /\ DOMAIN actions' = DOMAIN actions \cup {r}
    BY <1>1, <1>2, <1>4, ReportsFacts
<1>6. /\ SeenInv' /\ seen.ended \subseteq seen'.ended /\ s.file \in seen'.ended
      /\ UNCHANGED <<seen.dropped, seen.late, seen.deleted, seen.swept>>
    BY <1>1, <1>2, <1>3 DEF SeenInv, disk
<1>7. TrackerInv' /\ \A f : Tracked(f) => Tracked(f)' \/ f = s.file
    BY <1>1, <1>2, <1>3, TrackedFacts DEF TrackerInv
<1> QED
    BY <1>4, <1>5, <1>6, <1>7, TrackerStepFrame

\* The file of the slot is put back into the queue.
LEMMA PutBackKeeps ==
    ASSUME IInv, NEW s \in slot, NEW e \in Entries, e.file = s.file,
           NEW r \in ReportsOK, r.file = s.file, r.kind = "FileSendReset",
           queue' = Append(queue, e), slot' = {}, Reports(r),
           UNCHANGED <<disk, tasks, ready, seen, aborted>>
    PROVE  IInv'
<1>1. TrackerInv /\ ReportsInv
    BY DEF IInv, TypesInv
<1>2. /\ queue' \in Seq(Entries) /\ Queued(queue', s.file)
      /\ \A f : Queued(queue, f) => Queued(queue', f)
    BY <1>1, AppendQueue DEF TrackerInv
<1>3. slot = {s}
    BY <1>1, SlotFacts
<1>4. TrackerInv' /\ Tracked(s.file)' /\ \A f : Tracked(f) => Tracked(f)'
    BY <1>2, <1>3, TrackedFacts DEF TrackerInv
<1>5. ReportsInv' /\ DOMAIN actions' = DOMAIN actions \cup {r}
    BY <1>1, ReportsFacts
<1>6. SeenInv' /\ r.kind \notin Ending
    BY DEF IInv, TypesInv, SeenInv, disk, Ending
<1> QED
    BY <1>4, <1>5, <1>6, TrackerStepFrame

LEMMA TransferEndsKeeps == ASSUME IInv, TransferEnds PROVE IInv'
<1>1. PICK s \in slot :
          /\ \/ Completes(s, "FileSent", "Sent")
             \/ Completes(s, "FileRejected", "Rejected")
             \/ Completes(s, "FileIoError", "Failed")
          /\ UNCHANGED <<disk, tasks, ready, aborted>>
    BY DEF TransferEnds
<1>2. /\ {"FileSent", "FileRejected", "FileIoError"} \subseteq Ending
      /\ {"Sent", "Rejected", "Failed"} \subseteq TerminalTags
    BY DEF Ending, TerminalTags
<1> QED
    BY <1>1, <1>2, CompletesKeeps

LEMMA ResetAndStopKeeps ==
    ASSUME IInv, NEW s \in slot, NEW retry \in Nat, ResetAndStop(s, retry),
           UNCHANGED <<disk, tasks, ready, aborted>>
    PROVE  IInv'
<1> DEFINE st == ResetStatus(s.status)
<1>1. /\ queue' = Append(queue, PendingFile(s.file, st, retry)) /\ slot' = {}
      /\ Reports(Report("FileSendReset", s.file, st, retry)) /\ UNCHANGED seen
    BY DEF ResetAndStop
<1>2. TrackerInv
    BY DEF IInv, TypesInv
<1>3. s.file \in Files
    BY <1>2, SlotFacts
<1>4. st = SendStatus("Pending", NoData) \/ \E n \in Nat : st = SendStatus("Interrupted", n)
    BY <1>2, SlotFacts DEF ResetStatus, SendStatus
<1> HIDE DEF st
<1>5. PendingFile(s.file, st, retry) \in Entries /\ PendingFile(s.file, st, retry).file = s.file
    BY <1>3, <1>4, WaitingEntry
<1>6. /\ Report("FileSendReset", s.file, st, retry) \in ReportsOK
      /\ Report("FileSendReset", s.file, st, retry).file = s.file
      /\ Report("FileSendReset", s.file, st, retry).kind = "FileSendReset"
    BY <1>3, <1>4, ReportTypes, ReportFields
<1> QED
    BY <1>1, <1>5, <1>6, PutBackKeeps

LEMMA TransferResetsKeeps == ASSUME IInv, TransferResets PROVE IInv'
<1>1. PICK s \in slot :
          /\ \/ ResetAndStop(s, s.retry)
             \/ ResetAndStop(s, s.retry + 1)
             \/ Completes(s, "FileFailed", "Failed")
          /\ UNCHANGED <<disk, tasks, ready, aborted>>
    BY DEF TransferResets
<1>2. s.retry \in Nat /\ s.retry + 1 \in Nat
    BY SlotFacts DEF IInv, TypesInv
<1>3. "FileFailed" \in Ending /\ "Failed" \in TerminalTags
    BY DEF Ending, TerminalTags
<1> QED
    BY <1>1, <1>2, <1>3, CompletesKeeps, ResetAndStopKeeps

LEMMA ChunkLoopInterruptsKeeps == ASSUME IInv, ChunkLoopInterrupts PROVE IInv'
<1>1. PICK s \in slot :
          LET status == SendStatus("Interrupted", s.status.data) IN
          /\ queue' = Append(queue, PendingFile(s.file, status, s.retry))
          /\ slot' = {}
          /\ Reports(Report("FileSendReset", s.file, status, NoCount))
          /\ UNCHANGED <<disk, tasks, ready, seen, aborted>>
    BY DEF ChunkLoopInterrupts
<1> DEFINE d == s.status.data
           st == SendStatus("Interrupted", d)
<1>2. TrackerInv
    BY DEF IInv, TypesInv
<1>3. s.file \in Files /\ s.retry \in Nat /\ d \in Nat
    BY <1>2, SlotFacts DEF SendStatus
<1> HIDE DEF d
<1>4. PendingFile(s.file, st, s.retry) \in Entries /\ PendingFile(s.file, st, s.retry).file = s.file
    BY <1>3, WaitingEntry
<1>5. /\ Report("FileSendReset", s.file, st, NoCount) \in ReportsOK
      /\ Report("FileSendReset", s.file, st, NoCount).file = s.file
      /\ Report("FileSendReset", s.file, st, NoCount).kind = "FileSendReset"
    <2>1. \A c \in Nat \cup {NoCount} : Report("FileSendReset", s.file, st, c) \in ReportsOK
        BY <1>3, ReportTypes
    <2> HIDE DEF st
    <2>2. Report("FileSendReset", s.file, st, NoCount) \in ReportsOK
        BY <2>1
    <2> QED
        BY <2>2, ReportFields
<1> QED
    BY <1>1, <1>4, <1>5, PutBackKeeps DEF d

-----------------------------------------------------------------------------
(* The steps of clients and of their handlers. *)

LEMMA TaskFields ==
    ASSUME NEW do, NEW f, NEW t
    PROVE  /\ Task(do, f, t).do = do /\ Task(do, f, t).file = f /\ Task(do, f, t).target = t
           /\ \A d, g, u : Task(d, g, u) = Task(do, f, t) => d = do /\ g = f /\ u = t
BY DEF Task

LEMMA BagInDomain == ASSUME NEW k PROVE BagIn(k, tasks) <=> k \in DOMAIN tasks
BY DEF BagIn, BagToSet

\* Only tasks and the tracker change: what matters is that no file is lost.
LEMMA TasksFrame ==
    ASSUME IInv, TableInv', TrackerInv', IsABag(tasks'),
           UNCHANGED <<rows, sources, actions, ready, seen, aborted>>,
           \A k \in DOMAIN tasks' : k \in DOMAIN tasks \/ k.do \notin {"Count", "Remove"},
           \A f \in Files : Watched(f) => Watched(f)'
    PROVE  IInv'
<1>1. DOMAIN rows \subseteq Files /\ DOMAIN actions \subseteq ReportsOK
    BY DEF IInv, TypesInv, TableInv, ReportsInv
<1>2. TypesInv'
    BY DEF IInv, TypesInv, ReportsInv, TasksInv, ReadyInv, SeenInv
<1>3. \A f : Passed(f)' = Passed(f) /\ Taken(f)' = Taken(f)
    BY DEF Passed, Taken
<1>4. CareInv'
    BY <1>1, <1>3, CareStep DEF IInv
<1>5. EndedInv'
    BY EndedStep DEF IInv
<1>6. SourceInv'
    BY SourceStep DEF IInv
<1> QED
    BY <1>2, <1>4, <1>5, <1>6 DEF IInv, ConstraintInv

LEMMA CreateRemoteFilerequestKeeps ==
    ASSUME IInv, NEW t \in Targets, CreateRemoteFilerequest(t) PROVE IInv'
<1>1. /\ remotes' = remotes \cup {t}
      /\ UNCHANGED <<rows, sources, tracker, actions, tasks, ready, seen, aborted>>
    BY DEF CreateRemoteFilerequest
<1>2. TableInv' /\ TrackerInv' /\ IsABag(tasks')
    BY <1>1 DEF IInv, TypesInv, TableInv, TrackerInv, TasksInv, tracker
<1>3. \A f : Watched(f)' = Watched(f)
    BY <1>1 DEF Watched, Tracked, tracker
<1> QED
    BY <1>1, <1>2, <1>3, TasksFrame

\* A handler begins.
LEMMA TaskAddedKeeps ==
    ASSUME IInv, NEW k, k.do \notin {"Count", "Remove"}, tasks' = Adds(tasks, k),
           UNCHANGED <<remotes, rows, sources, tracker, actions, ready, seen, aborted>>
    PROVE  IInv'
<1>1. IsABag(tasks') /\ DOMAIN tasks' = DOMAIN tasks \cup {k}
    BY AddsFacts DEF IInv, TypesInv, TasksInv
<1>2. TableInv' /\ TrackerInv'
    BY DEF IInv, TypesInv, TableInv, TrackerInv, tracker
<1>3. \A f : Watched(f) => Watched(f)'
    BY <1>1 DEF Watched, Tracked, tracker
<1> QED
    BY <1>1, <1>2, <1>3, TasksFrame

LEMMA CreatePendingFilesKeeps ==
    ASSUME IInv, NEW t \in Targets, CreatePendingFiles(t) PROVE IInv'
<1>1. Task("Insert", NoFile, t).do \notin {"Count", "Remove"}
    BY TaskFields
<1> QED
    BY <1>1, TaskAddedKeeps DEF CreatePendingFiles

LEMMA DeletePendingFileKeeps ==
    ASSUME IInv, NEW f \in Files, DeletePendingFile(f) PROVE IInv'
<1> DEFINE k == Task(IF rows[f].tag \in ActiveTags THEN "Cancel" ELSE "Delete", f, NoFile)
<1>1. k.do \notin {"Count", "Remove"}
    BY TaskFields
<1>2. /\ tasks' = Adds(tasks, k)
      /\ UNCHANGED <<remotes, rows, sources, tracker, actions, ready, seen, aborted>>
    BY DEF DeletePendingFile, disk
<1> HIDE DEF k
<1> QED
    BY <1>1, <1>2, TaskAddedKeeps

LEMMA DeleteRemoteFilerequestKeeps ==
    ASSUME IInv, NEW t \in Targets, DeleteRemoteFilerequest(t) PROVE IInv'
<1>1. Task("CancelTarget", NoFile, t).do \notin {"Count", "Remove"}
    BY TaskFields
<1> QED
    BY <1>1, TaskAddedKeeps DEF DeleteRemoteFilerequest, disk

\* The values of a function on a finite set.
LEMMA FiniteValues ==
    ASSUME NEW T, IsFiniteSet(T), NEW g
    PROVE  IsFiniteSet({g[x] : x \in T})
<1> DEFINE S == {g[x] : x \in T}
           h == [x \in T |-> g[x]]
<1>1. h \in Surjection(T, S)
    BY DEF Surjection
<1> HIDE DEF S, h
<1>2. IsFiniteSet(S)
    BY <1>1, FS_Surjection
<1> QED
    BY <1>2 DEF S

LEMMA SendFilesKeeps == ASSUME IInv, NEW t \in Targets, SendFiles(t) PROVE IInv'
<1> DEFINE S == {PendingFile(f, SendStatus("Pending", NoData), 0) : f \in FilesOf(t)}
           k == Task("Send", NoFile, t)
<1>1. /\ k \in DOMAIN tasks /\ queue' = queue \o SetToSeq(S) /\ Finishes(k)
      /\ UNCHANGED <<disk, slot, actions, ready, seen, aborted>>
    BY BagInDomain DEF SendFiles
<1>2. FilesOf(t) \subseteq Files /\ IsFiniteSet(FilesOf(t))
    BY OutboxAssumption, FS_Subset DEF FilesOf
<1>3. IsFiniteSet(S)
    <2> DEFINE g == [f \in FilesOf(t) |-> PendingFile(f, SendStatus("Pending", NoData), 0)]
    <2>1. S = {g[f] : f \in FilesOf(t)}
        OBVIOUS
    <2> HIDE DEF g, S
    <2> QED
        BY <1>2, <2>1, FiniteValues
<1>4. /\ S \subseteq Entries
      /\ \A f \in FilesOf(t) : \E e \in S : e.file = f
    <2>1. \A f \in FilesOf(t) : /\ PendingFile(f, SendStatus("Pending", NoData), 0) \in Entries
                                /\ PendingFile(f, SendStatus("Pending", NoData), 0).file = f
        BY <1>2, WaitingEntry
    <2> QED
        BY <2>1
<1> HIDE DEF S, k
<1>5. /\ SetToSeq(S) \in Seq(Entries)
      /\ \A f \in FilesOf(t) : Queued(SetToSeq(S), f)
    BY <1>3, <1>4, ListedQueue
<1>6. /\ queue' \in Seq(Entries)
      /\ \A f : Queued(queue, f) \/ f \in FilesOf(t) => Queued(queue', f)
    BY <1>1, <1>5, ConcatQueue DEF IInv, TypesInv, TrackerInv
<1>7. /\ IsABag(tasks') /\ DOMAIN tasks' \subseteq DOMAIN tasks
      /\ \A j \in DOMAIN tasks : j # k => j \in DOMAIN tasks'
    BY <1>1, FinishesFacts DEF IInv, TypesInv, TasksInv
<1>8. TableInv' /\ TrackerInv'
    BY <1>1, <1>6 DEF IInv, TypesInv, TableInv, TrackerInv, disk
<1>9. ASSUME NEW f \in Files, Watched(f) PROVE Watched(f)'
    <2>1. \A g : Tracked(g) => Tracked(g)'
        BY <1>1, <1>6, TrackedFacts
    <2>2. CASE TargetOf[f] = t
        <3>1. Tracked(f)'
            BY <1>6, <2>2, TrackedFacts DEF FilesOf
        <3> QED
            BY <3>1 DEF Watched
    <2>3. CASE TargetOf[f] # t
        <3>1. /\ Task("Delete", f, NoFile) # k
              /\ Task("DeleteTarget", NoFile, TargetOf[f]) # k
              /\ Task("Send", NoFile, TargetOf[f]) # k
            BY <2>3, TaskFields DEF k
        <3> QED
            BY <1>1, <1>7, <1>9, <2>1, <3>1 DEF Watched
    <2> QED
        BY <2>2, <2>3
<1> QED
    BY <1>1, <1>7, <1>8, <1>9, TasksFrame DEF disk

\* Files fs are taken out of the tracker by a task that goes on to delete them.
LEMMA CancelKeeps ==
    ASSUME IInv, NEW fs, NEW old, NEW new, Becomes(old, new),
           new.do \notin {"Count", "Remove"},
           old.do \notin {"Delete", "DeleteTarget", "Send"},
           \A f \in fs \cap Files : \/ new = Task("Delete", f, NoFile)
                                    \/ new = Task("DeleteTarget", NoFile, TargetOf[f]),
           \/ slot' = {} /\ UNCHANGED queue /\ \A s \in slot : s.file \in fs
           \/ queue' = Retained(fs) /\ UNCHANGED slot,
           UNCHANGED <<disk, actions, ready, seen, aborted>>
    PROVE  IInv'
<1>1. TrackerInv /\ TableInv /\ IsABag(tasks)
    BY DEF IInv, TypesInv, TasksInv
<1>2. /\ IsABag(tasks') /\ new \in DOMAIN tasks'
      /\ \A k \in DOMAIN tasks' : k \in DOMAIN tasks \/ k = new
      /\ \A k \in DOMAIN tasks : k # old => k \in DOMAIN tasks'
    BY <1>1, BecomesFacts
<1>3. TrackerInv' /\ \A f : Tracked(f) => Tracked(f)' \/ f \in fs
    <2>1. CASE slot' = {} /\ UNCHANGED queue /\ \A s \in slot : s.file \in fs
        BY <1>1, <2>1, TrackedFacts DEF TrackerInv
    <2>2. CASE queue' = Retained(fs) /\ UNCHANGED slot
        <3>1. /\ queue' \in Seq(Entries)
              /\ \A f : Queued(queue, f) /\ f \notin fs => Queued(queue', f)
            BY <1>1, <2>2, RetainedQueue DEF TrackerInv
        <3> QED
            BY <1>1, <2>2, <3>1, TrackedFacts DEF TrackerInv
    <2> QED
        BY <2>1, <2>2
<1>4. TableInv'
    BY <1>1 DEF TableInv, disk
<1>5. ASSUME NEW f \in Files, Watched(f) PROVE Watched(f)'
    <2>1. CASE f \in fs
        BY <1>2, <2>1 DEF Watched
    <2>2. CASE f \notin fs
        <3>1. /\ Task("Delete", f, NoFile) # old
              /\ Task("DeleteTarget", NoFile, TargetOf[f]) # old
              /\ Task("Send", NoFile, TargetOf[f]) # old
            BY TaskFields
        <3> QED
            BY <1>2, <1>3, <1>5, <2>2, <3>1 DEF Watched
    <2> QED
        BY <2>1, <2>2
<1> QED
    BY <1>2, <1>3, <1>4, <1>5, TasksFrame DEF disk

LEMMA CancelFileKeeps == ASSUME IInv, NEW f \in Files, CancelFile(f) PROVE IInv'
<1>1. /\ Task("Cancel", f, NoFile).do = "Cancel" /\ Task("Delete", f, NoFile).do = "Delete"
    BY TaskFields
<1>2. /\ Becomes(Task("Cancel", f, NoFile), Task("Delete", f, NoFile))
      /\ UNCHANGED <<disk, actions, ready, seen, aborted>>
      /\ \/ slot' = {} /\ UNCHANGED queue /\ \E s \in slot : s.file = f
         \/ queue' = Retained({f}) /\ UNCHANGED slot
    BY DEF CancelFile
<1>3. (\E s \in slot : s.file = f) => \A s \in slot : s.file \in {f}
    BY DEF IInv, TypesInv, TrackerInv
<1> QED
    BY <1>1, <1>2, <1>3, CancelKeeps

LEMMA CancelFilesForRemoteFilerequestKeeps ==
    ASSUME IInv, NEW t \in Targets, CancelFilesForRemoteFilerequest(t) PROVE IInv'
<1>1. /\ Task("CancelTarget", NoFile, t).do = "CancelTarget"
      /\ Task("DeleteTarget", NoFile, t).do = "DeleteTarget"
    BY TaskFields
<1>2. /\ Becomes(Task("CancelTarget", NoFile, t), Task("DeleteTarget", NoFile, t))
      /\ UNCHANGED <<disk, actions, ready, seen, aborted>>
      /\ \/ slot' = {} /\ UNCHANGED queue /\ \E s \in slot : TargetOf[s.file] = t
         \/ queue' = Retained(FilesOf(t)) /\ UNCHANGED slot
    BY DEF CancelFilesForRemoteFilerequest
<1>3. (\E s \in slot : TargetOf[s.file] = t) => \A s \in slot : s.file \in FilesOf(t)
    BY SlotFacts DEF IInv, TypesInv, FilesOf
<1>4. \A f \in FilesOf(t) : TargetOf[f] = t
    BY DEF FilesOf
<1> QED
    BY <1>1, <1>2, <1>3, <1>4, CancelKeeps

LEMMA InsertPendingFilesKeeps ==
    ASSUME IInv, NEW t \in Targets, InsertPendingFiles(t) PROVE IInv'
<1> DEFINE old == Task("Insert", NoFile, t)
           new == Task("Send", NoFile, t)
           late == {f \in FilesOf(t) : SourceGoing(PathOf[f])}
<1>1. /\ \/ /\ t \in remotes /\ rows' = CreateRows(rows, FilesOf(t), t, PathOf)
            /\ seen' = [seen EXCEPT !.late = @ \cup late]
            /\ Becomes(old, new)
         \/ Finishes(old) /\ UNCHANGED <<rows, seen>>
      /\ UNCHANGED <<remotes, sources, tracker, actions, ready, aborted>>
    BY DEF InsertPendingFiles
<1>2. /\ old.do = "Insert" /\ new.do = "Send"
      /\ \A f : /\ Task("Delete", f, NoFile) # old
                /\ Task("DeleteTarget", NoFile, TargetOf[f]) # old
                /\ Task("Send", NoFile, TargetOf[f]) # old
    BY TaskFields
<1>3. FilesOf(t) \subseteq Files /\ \A f \in FilesOf(t) : TargetOf[f] = t
    BY DEF FilesOf
<1>4. IsABag(tasks) /\ TrackerInv' /\ ReportsInv' /\ ReadyInv'
    BY <1>1 DEF IInv, TypesInv, TasksInv, TrackerInv, ReportsInv, ReadyInv, tracker
<1> HIDE DEF old, new
<1>5. CASE Finishes(old) /\ UNCHANGED <<rows, seen>>
    <2>1. /\ IsABag(tasks') /\ DOMAIN tasks' \subseteq DOMAIN tasks
          /\ \A k \in DOMAIN tasks : k # old => k \in DOMAIN tasks'
        BY <1>4, <1>5, FinishesFacts
    <2>2. \A f : Watched(f) => Watched(f)'
        BY <1>1, <1>2, <1>5, <2>1 DEF Watched, Tracked, tracker
    <2>3. TableInv'
        BY <1>1, <1>5 DEF IInv, TypesInv, TableInv
    <2> QED
        BY <1>1, <1>4, <1>5, <2>1, <2>2, <2>3, TasksFrame
<1>6. CASE /\ t \in remotes /\ rows' = CreateRows(rows, FilesOf(t), t, PathOf)
           /\ seen' = [seen EXCEPT !.late = @ \cup late]
           /\ Becomes(old, new)
    <2>1. /\ IsABag(tasks') /\ new \in DOMAIN tasks'
          /\ \A k \in DOMAIN tasks' : k \in DOMAIN tasks \/ k = new
          /\ \A k \in DOMAIN tasks : k # old => k \in DOMAIN tasks'
        BY <1>4, <1>6, BecomesFacts
    <2>2. late \subseteq Files
        BY <1>3
    <2>3. \A f \in FilesOf(t) : f \in late <=> SourceGoing(PathOf[f])
        OBVIOUS
    <2> HIDE DEF late
    <2>4. /\ SeenInv' /\ seen'.late = seen.late \cup late
          /\ UNCHANGED <<seen.ended, seen.dropped, seen.deleted, seen.swept>>
        BY <1>1, <1>6, <2>2 DEF IInv, TypesInv, SeenInv
    <2>5. /\ DOMAIN rows' = DOMAIN rows \cup FilesOf(t)
          /\ rows' = [f \in DOMAIN rows' |-> rows'[f]]
          /\ \A f \in FilesOf(t) : rows'[f] = NewRow(t, PathOf[f])
          /\ \A f \in DOMAIN rows : f \notin FilesOf(t) => rows'[f] = rows[f]
        BY <1>6 DEF CreateRows
    <2>6. \A f \in FilesOf(t) : LET row == NewRow(t, PathOf[f]) IN
              /\ row \in Rows /\ row.target = t /\ row.path = PathOf[f]
              /\ row.tag = "Pending" /\ Check(row)
        BY <1>3, OutboxAssumption DEF NewRow, Rows, Check, NoData, ActiveTags
    <2>7. TableInv'
        <3>1. TableInv
            BY DEF IInv, TypesInv
        <3>2. DOMAIN rows' \subseteq Files
            BY <1>3, <2>5, <3>1 DEF TableInv
        <3>3. ASSUME NEW f \in DOMAIN rows'
              PROVE  /\ rows'[f] \in Rows /\ rows'[f].target = TargetOf[f]
                     /\ rows'[f].target \in remotes' /\ rows'[f].path = PathOf[f]
                     /\ Check(rows'[f])
            <4>1. CASE f \in FilesOf(t)
                BY <1>1, <1>3, <1>6, <2>5, <2>6, <4>1
            <4>2. CASE f \notin FilesOf(t)
                BY <1>1, <2>5, <3>1, <4>2 DEF TableInv
            <4> QED
                BY <4>1, <4>2
        <3> QED
            BY <1>1, <2>5, <3>1, <3>2, <3>3 DEF TableInv
    <2>8. TasksInv'
        BY <1>2, <2>1 DEF IInv, TypesInv, TasksInv
    <2>9. TypesInv'
        BY <1>4, <2>4, <2>7, <2>8 DEF TypesInv
    <2>10. CareInv'
        <3>1. \A f : Watched(f) => Watched(f)'
            BY <1>1, <1>2, <2>1, <2>4 DEF Watched, Tracked, tracker
        <3>2. \A f \in FilesOf(t) : Watched(f)'
            BY <1>3, <2>1 DEF Watched, new
        <3>3. \A f : Passed(f)' = Passed(f) /\ Taken(f)' = Taken(f)
            BY <1>1 DEF Passed, Taken
        <3> QED
            BY <1>1, <2>5, <3>1, <3>2, <3>3, CareStep DEF IInv
    <2>11. EndedInv'
        <3>1. \A f \in FilesOf(t) : rows'[f].tag \notin TerminalTags
            BY <2>5, <2>6 DEF TerminalTags
        <3> QED
            BY <1>1, <1>2, <2>1, <2>4, <2>5, <3>1, EndedStep DEF IInv
    <2>12. SourceInv'
        <3>1. \A f : Excepted(f) => Excepted(f)'
            BY <2>4 DEF Excepted
        <3>2. ASSUME NEW f \in FilesOf(t), ~Excepted(f)'
              PROVE  /\ PathOf[f] \in sources
                     /\ \A g \in Files : PathOf[g] = PathOf[f] =>
                           Task("Remove", g, NoFile) \notin DOMAIN tasks
            BY <2>3, <2>4, <3>2, BagInDomain DEF Excepted, SourceGoing
        <3>3. ASSUME NEW f \in DOMAIN rows', rows'[f].tag \in ActiveTags, ~Excepted(f)',
                     PathOf[f] \notin seen'.swept
              PROVE  PathOf[f] \in sources'
            BY <1>1, <2>4, <2>5, <3>1, <3>2, <3>3 DEF IInv, SourceInv
        <3>4. ASSUME NEW k \in DOMAIN tasks', k.do = "Remove", NEW f \in DOMAIN rows',
                     PathOf[f] = PathOf[k.file], rows'[f].tag \in ActiveTags
              PROVE  Excepted(f)'
            <4>1. k \in DOMAIN tasks
                BY <1>2, <2>1, <3>4
            <4>2. k.file \in Files /\ k = Task("Remove", k.file, NoFile)
                BY <4>1, <3>4 DEF IInv, TypesInv, TasksInv
            <4>3. CASE f \in FilesOf(t)
                BY <3>2, <3>4, <4>1, <4>2, <4>3
            <4>4. CASE f \notin FilesOf(t)
                BY <2>5, <3>1, <3>4, <4>1, <4>4 DEF IInv, SourceInv
            <4> QED
                BY <4>3, <4>4
        <3> QED
            BY <3>3, <3>4 DEF SourceInv
    <2> QED
        BY <1>1, <2>9, <2>10, <2>11, <2>12 DEF IInv, ConstraintInv
<1> QED
    BY <1>1, <1>5, <1>6

\* Rows are deleted by a task that ends, and a file is watched by it only if
\* its row goes.
LEMMA RowsGoKeeps ==
    ASSUME IInv, NEW D, D \subseteq DOMAIN rows, rows' = [g \in D |-> rows[g]],
           remotes' \subseteq remotes, \A f \in D : rows[f].target \in remotes',
           NEW X, X \subseteq Files, DOMAIN rows \ D \subseteq X,
           seen' = [seen EXCEPT !.deleted = @ \cup X],
           NEW old, Finishes(old),
           \A f \in D : /\ Task("Delete", f, NoFile) # old
                        /\ Task("DeleteTarget", NoFile, TargetOf[f]) # old
                        /\ Task("Send", NoFile, TargetOf[f]) # old,
           UNCHANGED <<sources, tracker, actions, ready, aborted>>
    PROVE  IInv'
<1>1. /\ IsABag(tasks') /\ DOMAIN tasks' \subseteq DOMAIN tasks
      /\ \A k \in DOMAIN tasks : k # old => k \in DOMAIN tasks'
    BY FinishesFacts DEF IInv, TypesInv, TasksInv
<1>2. /\ SeenInv' /\ seen'.deleted = seen.deleted \cup X
      /\ UNCHANGED <<seen.ended, seen.dropped, seen.late, seen.swept>>
    BY DEF IInv, TypesInv, SeenInv
<1>3. /\ DOMAIN rows' = D /\ \A f \in D : rows'[f] = rows[f]
      /\ rows' = [f \in DOMAIN rows' |-> rows'[f]]
    OBVIOUS
<1>4. TableInv'
    BY <1>3 DEF IInv, TypesInv, TableInv
<1>5. TypesInv'
    BY <1>1, <1>2, <1>4
       DEF IInv, TypesInv, TrackerInv, ReportsInv, TasksInv, ReadyInv, tracker
<1>6. \A f \in D : Watched(f) => Watched(f)'
    BY <1>1, <1>2 DEF Watched, Tracked, tracker
<1>7. \A f : Passed(f)' = Passed(f) /\ Taken(f)' = Taken(f)
    BY DEF Passed, Taken
<1>8. CareInv'
    BY <1>3, <1>6, <1>7, CareStep DEF IInv
<1>9. EndedInv'
    BY <1>1, <1>2, <1>3, EndedStep DEF IInv
<1>10. SourceInv'
    BY <1>1, <1>2, <1>3, SourceStep DEF IInv
<1> QED
    BY <1>5, <1>8, <1>9, <1>10 DEF IInv, ConstraintInv

LEMMA DeletePendingFileRowKeeps ==
    ASSUME IInv, NEW f \in Files, DeletePendingFileRow(f) PROVE IInv'
<1> DEFINE old == Task("Delete", f, NoFile)
           D == DOMAIN rows \ {f}
           X == {f}
<1>1. /\ rows' = [g \in D |-> rows[g]] /\ Finishes(old)
      /\ seen' = [seen EXCEPT !.deleted = @ \cup X]
      /\ UNCHANGED <<remotes, sources, tracker, actions, ready, aborted>>
    BY DEF DeletePendingFileRow, DeleteRow
<1>2. \A g \in D : /\ Task("Delete", g, NoFile) # old
                   /\ Task("DeleteTarget", NoFile, TargetOf[g]) # old
                   /\ Task("Send", NoFile, TargetOf[g]) # old
    BY TaskFields
<1>3. D \subseteq DOMAIN rows /\ X \subseteq Files /\ DOMAIN rows \ D \subseteq X
    OBVIOUS
<1>4. \A g \in D : rows[g].target \in remotes'
    BY <1>1 DEF IInv, TypesInv, TableInv
<1> HIDE DEF old, D, X
<1> QED
    BY <1>1, <1>2, <1>3, <1>4, RowsGoKeeps

LEMMA DeleteRemoteFilerequestRowKeeps ==
    ASSUME IInv, NEW t \in Targets, DeleteRemoteFilerequestRow(t) PROVE IInv'
<1> DEFINE old == Task("DeleteTarget", NoFile, t)
           D == {f \in DOMAIN rows : rows[f].target # t}
           X == {f \in DOMAIN rows : rows[f].target = t}
<1>1. /\ rows' = [g \in D |-> rows[g]] /\ Finishes(old) /\ remotes' = remotes \ {t}
      /\ seen' = [seen EXCEPT !.deleted = @ \cup X]
      /\ UNCHANGED <<sources, tracker, actions, ready, aborted>>
    BY DEF DeleteRemoteFilerequestRow, DeleteRowsOf
<1>2. \A g \in D : TargetOf[g] # t /\ rows[g].target \in remotes'
    BY <1>1 DEF IInv, TypesInv, TableInv
<1>3. \A g \in D : /\ Task("Delete", g, NoFile) # old
                   /\ Task("DeleteTarget", NoFile, TargetOf[g]) # old
                   /\ Task("Send", NoFile, TargetOf[g]) # old
    BY <1>2, TaskFields
<1>4. D \subseteq DOMAIN rows /\ X \subseteq Files /\ DOMAIN rows \ D \subseteq X
    BY DEF IInv, TypesInv, TableInv
<1> HIDE DEF old, D, X
<1> QED
    BY <1>1, <1>2, <1>3, <1>4, RowsGoKeeps

-----------------------------------------------------------------------------
(* Reports and cleanups. *)

\* A row is updated and its file is watched; the handler may go on to count,
\* and a report may be taken or made.
LEMMA UpdateKeeps ==
    ASSUME IInv, NEW f \in DOMAIN rows,
           NEW status \in Statuses, NEW n \in Int, Consistent(status, n),
           rows' = [rows EXCEPT ![f] = UpdatedRow(@, status, n)],
           TrackerInv', ReportsInv', ReadyInv', SeenInv',
           seen.ended \subseteq seen'.ended,
           UNCHANGED <<seen.dropped, seen.late, seen.deleted, seen.swept>>,
           status.tag \in TerminalTags => f \in seen'.ended,
           IsABag(tasks'), DOMAIN tasks \subseteq DOMAIN tasks',
           \A k \in DOMAIN tasks' :
               k \in DOMAIN tasks \/ (k = Task("Count", f, NoFile) /\ f \in seen'.ended),
           \A r \in DOMAIN actions' :
               r \in DOMAIN actions \/ (r.file = f /\ f \in seen'.ended),
           \A g : Tracked(g) => Tracked(g)' \/ (g = f /\ f \in seen'.ended),
           \A g : (Passed(g)' <=> Passed(g)) /\ (Taken(g) => Taken(g)'),
           status.tag \in ActiveTags => Watched(f) \/ Taken(f)',
           UNCHANGED <<remotes, sources, aborted>>
    PROVE  IInv'
<1>1. TableInv /\ TasksInv
    BY DEF IInv, TypesInv
<1>2. /\ TableInv' /\ DOMAIN rows' = DOMAIN rows /\ rows'[f].tag = status.tag
      /\ \A g \in DOMAIN rows : g # f => rows'[g] = rows[g]
    BY <1>1, TableAfterUpdate
<1>3. f \in Files
    BY <1>1 DEF TableInv
<1>4. /\ Task("Count", f, NoFile).do = "Count" /\ Task("Count", f, NoFile).file = f
    BY TaskFields
<1>5. TasksInv'
    BY <1>1, <1>3, <1>4 DEF TasksInv
<1>6. TypesInv'
    BY <1>2, <1>5 DEF TypesInv
<1>7. \A g : Watched(g) => Watched(g)'
    BY DEF Watched
<1>8. f \in seen'.ended => Watched(f)'
    BY DEF Watched
<1>9. CareInv'
    <2>1. \A g \in DOMAIN rows' : rows'[g].tag \in ActiveTags =>
              rows[g].tag \in ActiveTags \/ Watched(g)' \/ Taken(g)'
        BY <1>2, <1>7
    <2> QED
        BY <1>2, <1>7, <1>8, <2>1, CareStep DEF IInv
<1>10. EndedInv'
    <2>1. \A g \in DOMAIN rows' : rows'[g].tag \in TerminalTags =>
              g \in seen'.ended \/ (g \in DOMAIN rows /\ rows[g].tag \in TerminalTags)
        BY <1>2
    <2> QED
        BY <1>2, <1>4, <2>1, EndedStep DEF IInv
<1>11. SourceInv'
    <2>1. rows[f].tag \in ActiveTags \/ f \in seen.ended
        BY <1>1 DEF IInv, TableInv, Rows, EndedInv
    <2>2. \A g \in DOMAIN rows' : rows'[g].tag \in ActiveTags =>
              g \in seen'.ended \/ (g \in DOMAIN rows /\ rows[g].tag \in ActiveTags)
        BY <1>2, <2>1
    <2> QED
        BY <1>2, <1>4, <2>2, SourceStep DEF IInv
<1> QED
    BY <1>6, <1>9, <1>10, <1>11 DEF IInv, ConstraintInv

LEMMA ReportOKFacts ==
    ASSUME NEW r \in ReportsOK
    PROVE  /\ r.file \in Files /\ r.status \in Statuses /\ r.count \in Int
           /\ Consistent(r.status, r.count)
           /\ r.status.tag \in TerminalTags <=> r.kind \in Ending
BY DEF ReportsOK

\* An update that a report asks for is refused only for want of a row.
LEMMA AppliesKeeps ==
    ASSUME IInv, NEW r \in DOMAIN actions, NEW then, Applies(r, then),
           \/ then = {}
           \/ then = {Task("Count", r.file, NoFile)} /\ r.kind \in Ending
    PROVE  IInv'
<1>1. TableInv /\ ReportsInv /\ TasksInv /\ r \in ReportsOK
    BY DEF IInv, TypesInv, ReportsInv
<1>2. /\ r.file \in Files /\ r.status \in Statuses /\ r.count \in Int
      /\ Consistent(r.status, r.count)
      /\ r.status.tag \in TerminalTags <=> r.kind \in Ending
    BY <1>1, ReportOKFacts
<1>3. r.file \in DOMAIN rows => CanUpdate(rows, r.file, r.status, r.count)
    BY <1>1, <1>2, UpdateFacts DEF TableInv, CanUpdate
<1>4. CASE /\ CanUpdate(rows, r.file, r.status, r.count)
           /\ rows' = [rows EXCEPT ![r.file] = UpdatedRow(@, r.status, r.count)]
           /\ actions' = Takes(actions, r)
           /\ tasks' = tasks (+) SetToBag(then)
           /\ UNCHANGED <<tracker, ready, seen, aborted>>
           /\ UNCHANGED <<remotes, sources>>
    <2>1. r.file \in DOMAIN rows
        BY <1>4 DEF CanUpdate
    <2>2. IsABag(actions') /\ DOMAIN actions' \subseteq DOMAIN actions
        BY <1>1, <1>4, TakesFacts DEF ReportsInv
    <2>3. IsABag(tasks') /\ DOMAIN tasks' = DOMAIN tasks \cup then
        BY <1>1, <1>4, PlusFacts DEF TasksInv
    <2>4. r.kind \in Ending => r.file \in seen.ended
        BY DEF IInv, EndedInv
    <2>5. Watched(r.file)
        BY <2>1 DEF IInv, CareInv
    <2>6. TrackerInv' /\ ReportsInv' /\ ReadyInv' /\ SeenInv'
        BY <1>1, <1>4, <2>2
           DEF IInv, TypesInv, TrackerInv, ReportsInv, ReadyInv, SeenInv, tracker
    <2>7. \A g : /\ Passed(g)' = Passed(g) /\ Taken(g)' = Taken(g) /\ Tracked(g)' = Tracked(g)
        BY <1>4 DEF Passed, Taken, Tracked, tracker
    <2> QED
        BY <1>2, <1>4, <2>1, <2>2, <2>3, <2>4, <2>5, <2>6, <2>7, UpdateKeeps
<1>5. CASE /\ ~CanUpdate(rows, r.file, r.status, r.count)
           /\ Aborts(IF r.file \in DOMAIN rows THEN "constraint" ELSE "row gone")
           /\ UNCHANGED rows /\ UNCHANGED <<remotes, sources, used>>
    <2>1. Stops /\ aborted' = "row gone"
        BY <1>3, <1>5 DEF Aborts
    <2> QED
        BY <1>5, <2>1, StopsFrame DEF disk
<1> QED
    BY <1>4, <1>5 DEF Applies

LEMMA HandleReportKeeps ==
    ASSUME IInv, NEW r \in BagToSet(actions), HandleReport(r) PROVE IInv'
<1>1. r \in DOMAIN actions
    BY DEF BagToSet
<1>2. \/ Applies(r, {})
      \/ r.kind \in Ending /\ Applies(r, {Task("Count", r.file, NoFile)})
    BY DEF HandleReport, HandleFileSending, HandleFileSendReset, HandleFileSent,
           HandleFileNotSent, HandleFileIoError, Ending
<1> QED
    BY <1>1, <1>2, AppliesKeeps

LEMMA OpenFileForReadingFailsKeeps == ASSUME IInv, OpenFileForReadingFails PROVE IInv'
<1> DEFINE failed == SendStatus("Failed", NoData)
<1>1. PICK f : f = Head1.file
    OBVIOUS
<1>2. /\ queue # <<>> /\ slot = {} /\ UNCHANGED <<remotes, sources, used>>
      /\ \/ /\ f \in DOMAIN rows
            /\ rows' = [rows EXCEPT ![f] = UpdatedRow(@, failed, NoCount)]
            /\ tasks' = Adds(tasks, Task("Count", f, NoFile))
            /\ Reports(Report("FileMissing", f, failed, NoCount))
            /\ seen' = [seen EXCEPT !.ended = @ \cup {f}]
            /\ queue' = Tail(queue)
            /\ UNCHANGED <<slot, ready, aborted>>
         \/ Aborts("row gone") /\ UNCHANGED rows
    BY <1>1 DEF OpenFileForReadingFails, Takeable
<1>3. TrackerInv /\ ReportsInv /\ TasksInv /\ SeenInv /\ TableInv
    BY DEF IInv, TypesInv
<1>4. Head1 \in Entries /\ f \in Files
    BY <1>1, <1>2, <1>3, TailQueue, EntryFacts DEF TrackerInv, Head1
<1>5. /\ failed \in Statuses /\ failed.tag = "Failed" /\ NoCount \in Int
      /\ Consistent(failed, NoCount)
    BY StatusFacts DEF Tags, NoData, NoCount, Consistent, TerminalTags
<1>6. "FileMissing" \in Ending /\ "Failed" \in TerminalTags /\ "Failed" \notin ActiveTags
    BY DEF Ending, TerminalTags, ActiveTags
<1>7. CASE /\ f \in DOMAIN rows
           /\ rows' = [rows EXCEPT ![f] = UpdatedRow(@, failed, NoCount)]
           /\ tasks' = Adds(tasks, Task("Count", f, NoFile))
           /\ Reports(Report("FileMissing", f, failed, NoCount))
           /\ seen' = [seen EXCEPT !.ended = @ \cup {f}]
           /\ queue' = Tail(queue)
           /\ UNCHANGED <<slot, ready, aborted>>
    <2> DEFINE r == Report("FileMissing", f, failed, NoCount)
    <2>1. r \in ReportsOK /\ r.file = f
        BY <1>4, <1>6, ReportTypes, ReportFields
    <2>2. Reports(r)
        BY <1>7
    <2> HIDE DEF r, failed
    <2>3. ReportsInv' /\ DOMAIN actions' = DOMAIN actions \cup {r}
        BY <1>3, <2>1, <2>2, ReportsFacts
    <2>4. IsABag(tasks') /\ DOMAIN tasks' = DOMAIN tasks \cup {Task("Count", f, NoFile)}
        BY <1>3, <1>7, AddsFacts DEF TasksInv
    <2>5. /\ SeenInv' /\ seen.ended \subseteq seen'.ended /\ f \in seen'.ended
          /\ UNCHANGED <<seen.dropped, seen.late, seen.deleted, seen.swept>>
        BY <1>2, <1>3, <1>4, <1>7 DEF SeenInv
    <2>6. TrackerInv' /\ \A g : Tracked(g) => Tracked(g)' \/ g = f
        BY <1>1, <1>2, <1>3, <1>7, TakenFromQueue
    <2>7. ReadyInv' /\ \A g : Passed(g)' = Passed(g) /\ Taken(g)' = Taken(g)
        BY <1>7 DEF IInv, TypesInv, ReadyInv, Passed, Taken
    <2> QED
        BY <1>2, <1>5, <1>6, <1>7, <2>1, <2>3, <2>4, <2>5, <2>6, <2>7, UpdateKeeps
<1>8. CASE Aborts("row gone") /\ UNCHANGED rows
    BY <1>2, <1>8, StopsFrame DEF Aborts, disk
<1> QED
    BY <1>2, <1>7, <1>8

\* A count of 0 means that no other row with this source is active, or that the
\* row was deleted.
LEMMA CountFacts ==
    ASSUME IInv, NEW f \in Files, CountNonTerminalForPath(rows, f) = 0,
           f \in DOMAIN rows \cup seen.deleted, f \in seen.ended
    PROVE  \A g \in DOMAIN rows :
               PathOf[g] = PathOf[f] /\ rows[g].tag \in ActiveTags => Excepted(g)
<1>1. CASE f \notin DOMAIN rows
    BY <1>1 DEF Excepted
<1>2. CASE f \in DOMAIN rows
    <2> DEFINE S == {g \in DOMAIN rows \ {f} :
                       rows[g].path = rows[f].path /\ rows[g].tag \in ActiveTags}
    <2>1. Cardinality(S) = 0
        BY <1>2 DEF CountNonTerminalForPath
    <2>2. IsFiniteSet(S)
        <3>1. S \subseteq Files
            BY DEF IInv, TypesInv, TableInv
        <3> QED
            BY <3>1, OutboxAssumption, FS_Subset
    <2>3. S = {}
        <3> HIDE DEF S
        <3> QED
            BY <2>1, <2>2, FS_EmptySet
    <2>4. \A g \in DOMAIN rows : rows[g].path = PathOf[g]
        BY DEF IInv, TypesInv, TableInv
    <2> QED
        BY <1>2, <2>3, <2>4 DEF Excepted
<1> QED
    BY <1>1, <1>2

LEMMA CleanupCountsKeeps == ASSUME IInv, NEW f \in Files, CleanupCounts(f) PROVE IInv'
<1> DEFINE old == Task("Count", f, NoFile)
           new == Task("Remove", f, NoFile)
<1>1. /\ old \in DOMAIN tasks
      /\ UNCHANGED <<disk, tracker, actions, ready, seen, aborted>>
      /\ \/ CountNonTerminalForPath(rows, f) = 0 /\ Becomes(old, new)
         \/ Finishes(old)
    BY BagInDomain DEF CleanupCounts
<1>2. /\ old.do = "Count" /\ old.file = f /\ new.do = "Remove" /\ new.file = f
      /\ \A g : /\ Task("Delete", g, NoFile) # old
                /\ Task("DeleteTarget", NoFile, TargetOf[g]) # old
                /\ Task("Send", NoFile, TargetOf[g]) # old
    BY TaskFields
<1>3. TasksInv /\ f \in seen.ended /\ f \in DOMAIN rows \cup seen.deleted
    BY <1>1, <1>2 DEF IInv, TypesInv, EndedInv
<1>4. new = Task(new.do, new.file, NoFile)
    BY <1>2
<1> HIDE DEF old, new
<1>5. /\ IsABag(tasks') /\ \A k \in DOMAIN tasks : k # old => k \in DOMAIN tasks'
      /\ \A k \in DOMAIN tasks' :
            k \in DOMAIN tasks \/ (k = new /\ CountNonTerminalForPath(rows, f) = 0)
    <2>1. IsABag(tasks)
        BY <1>3 DEF TasksInv
    <2>2. CASE CountNonTerminalForPath(rows, f) = 0 /\ Becomes(old, new)
        <3>1. /\ IsABag(tasks') /\ new \in DOMAIN tasks'
              /\ \A k \in DOMAIN tasks' : k \in DOMAIN tasks \/ k = new
              /\ \A k \in DOMAIN tasks : k # old => k \in DOMAIN tasks'
            BY <2>1, <2>2, BecomesFacts
        <3> QED
            BY <2>2, <3>1
    <2>3. CASE Finishes(old)
        <3>1. /\ IsABag(tasks') /\ DOMAIN tasks' \subseteq DOMAIN tasks
              /\ \A k \in DOMAIN tasks : k # old => k \in DOMAIN tasks'
            BY <2>1, <2>3, FinishesFacts
        <3> QED
            BY <3>1
    <2> QED
        BY <1>1, <2>2, <2>3
<1>6. TypesInv'
    <2>1. TasksInv'
        BY <1>2, <1>3, <1>4, <1>5 DEF TasksInv
    <2> QED
        BY <1>1, <2>1
           DEF IInv, TypesInv, TableInv, TrackerInv, ReportsInv, ReadyInv, SeenInv, tracker, disk
<1>7. \A g : Watched(g) => Watched(g)'
    BY <1>1, <1>2, <1>5 DEF Watched, Tracked, tracker
<1>8. \A g : Passed(g)' = Passed(g) /\ Taken(g)' = Taken(g)
    BY <1>1 DEF Passed, Taken
<1>9. CareInv'
    BY <1>1, <1>7, <1>8, CareStep DEF IInv, disk
<1>10. EndedInv'
    BY <1>1, <1>2, <1>3, <1>5, EndedStep DEF IInv, disk
<1>11. SourceInv'
    <2>1. \A g : Excepted(g)' = Excepted(g)
        BY <1>1 DEF Excepted
    <2>2. CountNonTerminalForPath(rows, f) = 0 => \A g \in DOMAIN rows :
              PathOf[g] = PathOf[f] /\ rows[g].tag \in ActiveTags => Excepted(g)
        BY <1>3, CountFacts
    <2> QED
        BY <1>1, <1>2, <1>5, <2>1, <2>2 DEF IInv, SourceInv, disk
<1> QED
    BY <1>1, <1>6, <1>9, <1>10, <1>11 DEF IInv, ConstraintInv

LEMMA CleanupRemovesKeeps == ASSUME IInv, NEW f \in Files, CleanupRemoves(f) PROVE IInv'
<1> DEFINE old == Task("Remove", f, NoFile)
<1>1. /\ old \in DOMAIN tasks /\ sources' = sources \ {PathOf[f]} /\ Finishes(old)
      /\ UNCHANGED <<remotes, rows, tracker, actions, ready, seen, aborted>>
    BY BagInDomain DEF CleanupRemoves
<1>2. /\ old.do = "Remove" /\ old.file = f
      /\ \A g : /\ Task("Delete", g, NoFile) # old
                /\ Task("DeleteTarget", NoFile, TargetOf[g]) # old
                /\ Task("Send", NoFile, TargetOf[g]) # old
    BY TaskFields
<1> HIDE DEF old
<1>3. /\ IsABag(tasks') /\ DOMAIN tasks' \subseteq DOMAIN tasks
      /\ \A k \in DOMAIN tasks : k # old => k \in DOMAIN tasks'
    BY <1>1, FinishesFacts DEF IInv, TypesInv, TasksInv
<1>4. TypesInv'
    BY <1>1, <1>3 DEF IInv, TypesInv, TableInv, TrackerInv, ReportsInv, TasksInv, ReadyInv,
                      SeenInv, tracker
<1>5. \A g : Watched(g) => Watched(g)'
    BY <1>1, <1>2, <1>3 DEF Watched, Tracked, tracker
<1>6. \A g : Passed(g)' = Passed(g) /\ Taken(g)' = Taken(g)
    BY <1>1 DEF Passed, Taken
<1>7. CareInv'
    BY <1>1, <1>5, <1>6, CareStep DEF IInv
<1>8. EndedInv'
    BY <1>1, <1>3, EndedStep DEF IInv
<1>9. SourceInv'
    <2>1. \A g : Excepted(g)' = Excepted(g)
        BY <1>1 DEF Excepted
    <2>2. \A g \in DOMAIN rows :
              PathOf[g] = PathOf[f] /\ rows[g].tag \in ActiveTags => Excepted(g)
        BY <1>1, <1>2 DEF IInv, SourceInv
    <2> QED
        BY <1>1, <1>3, <2>1, <2>2 DEF IInv, SourceInv
<1> QED
    BY <1>1, <1>4, <1>7, <1>8, <1>9 DEF IInv, ConstraintInv

LEMMA SweepOutgoingFilesKeeps ==
    ASSUME IInv, NEW p \in Paths, SweepOutgoingFiles(p) PROVE IInv'
<1>1. /\ sources' = sources \ {p} /\ seen' = [seen EXCEPT !.swept = @ \cup {p}]
      /\ UNCHANGED <<remotes, rows, tracker, actions, tasks, ready, aborted>>
    BY DEF SweepOutgoingFiles
<1>2. /\ SeenInv' /\ seen'.swept = seen.swept \cup {p}
      /\ UNCHANGED <<seen.ended, seen.dropped, seen.late, seen.deleted>>
    BY <1>1 DEF IInv, TypesInv, SeenInv
<1>3. TypesInv'
    BY <1>1, <1>2 DEF IInv, TypesInv, TableInv, TrackerInv, ReportsInv, TasksInv, ReadyInv,
                      tracker
<1>4. \A g : Watched(g) => Watched(g)'
    BY <1>1, <1>2 DEF Watched, Tracked, tracker
<1>5. \A g : Passed(g)' = Passed(g) /\ Taken(g)' = Taken(g)
    BY <1>1 DEF Passed, Taken
<1>6. CareInv'
    BY <1>1, <1>4, <1>5, CareStep DEF IInv
<1>7. EndedInv'
    BY <1>1, <1>2, EndedStep DEF IInv
<1>8. SourceInv'
    <2>1. \A g : Excepted(g)' = Excepted(g)
        BY <1>2 DEF Excepted
    <2> QED
        BY <1>1, <1>2, <2>1 DEF IInv, SourceInv
<1> QED
    BY <1>1, <1>3, <1>6, <1>7, <1>8 DEF IInv, ConstraintInv

-----------------------------------------------------------------------------
(* The start and the end of the program. *)

LEMMA CrashKeeps == ASSUME IInv, Crash PROVE IInv'
BY StopsFrame DEF Crash, IInv, ConstraintInv

\* Ready goes on: what it has read may grow, and no row is passed unread.
LEMMA ReadyFrame ==
    ASSUME IInv, ReadyInv', UNCHANGED <<disk, tracker, actions, tasks, seen, aborted>>,
           \A f \in DOMAIN rows : rows[f].tag \in ActiveTags /\ Passed(f)' =>
               Taken(f)' \/ (Passed(f) /\ ~Taken(f))
    PROVE  IInv'
<1>1. TypesInv'
    BY DEF IInv, TypesInv, TableInv, TrackerInv, ReportsInv, TasksInv, SeenInv, tracker, disk
<1>2. \A g : Watched(g)' = Watched(g)
    BY DEF Watched, Tracked, tracker
<1>3. CareInv'
    BY <1>2 DEF IInv, CareInv, disk
<1>4. EndedInv'
    BY EndedStep DEF IInv, disk
<1>5. SourceInv'
    BY SourceStep DEF IInv, disk
<1> QED
    BY <1>1, <1>3, <1>4, <1>5 DEF IInv, ConstraintInv

LEMMA EventLoopStartsKeeps == ASSUME IInv, EventLoopStarts PROVE IInv'
<1>1. ready' = Idle("told") /\ UNCHANGED <<disk, tracker, actions, tasks, seen, aborted>>
    BY DEF EventLoopStarts
<1>2. ReadyInv'
    BY <1>1, FS_EmptySet DEF ReadyInv, Idle, Stages
<1>3. \A f : ~Passed(f)'
    BY <1>1 DEF Passed, Idle
<1> QED
    BY <1>1, <1>2, <1>3, ReadyFrame

LEMMA ReadyReadsRemotesKeeps == ASSUME IInv, ReadyReadsRemotes PROVE IInv'
<1>1. /\ ready' = [stage |-> "remotes", remotes |-> remotes, files |-> {}]
      /\ UNCHANGED <<disk, tracker, actions, tasks, seen, aborted>>
    BY DEF ReadyReadsRemotes, Idle
<1>2. remotes \subseteq Targets
    BY DEF IInv, TypesInv, TableInv
<1>3. ReadyInv'
    BY <1>1, <1>2, FS_EmptySet DEF ReadyInv, Stages
<1>4. \A f \in DOMAIN rows : TargetOf[f] \in remotes
    BY DEF IInv, TypesInv, TableInv
<1>5. \A f \in DOMAIN rows : ~Passed(f)'
    BY <1>1, <1>4 DEF Passed
<1> QED
    BY <1>1, <1>3, <1>5, ReadyFrame

\* The status of an active row, as Ready reads it.
LEMMA ReadRow ==
    ASSUME TableInv, NEW f \in DOMAIN rows, rows[f].tag \in ActiveTags
    PROVE  /\ PendingFile(f, FromDbColumns(rows[f]), rows[f].retry) \in Read
           /\ PendingFile(f, FromDbColumns(rows[f]), rows[f].retry).file = f
<1>1. /\ f \in Files /\ rows[f] \in Rows /\ Check(rows[f])
    BY DEF TableInv
<1> DEFINE row == rows[f]
           st == FromDbColumns(row)
<1>2. /\ row.retry \in Nat /\ row.data \in Int
      /\ \/ row.tag = "Pending"
         \/ row.tag \in {"Sending", "Interrupted"} /\ row.data \in Nat
    BY <1>1 DEF Rows, Check, ActiveTags, TerminalTags
<1> HIDE DEF row
<1>3. \/ st = SendStatus("Pending", NoData)
      \/ \E n \in Nat : st = SendStatus("Interrupted", n)
      \/ \E n \in Nat : st = SendStatus("Sending", n)
    BY <1>2 DEF FromDbColumns
<1>4. st \in Statuses /\ WasRead(st)
    <2>1. {"Pending", "Interrupted", "Sending"} \subseteq Tags /\ NoData \in Int
        BY DEF Tags, NoData
    <2> HIDE DEF st
    <2> QED
        BY <1>3, <2>1, StatusFacts DEF WasRead, Waits
<1> HIDE DEF st
<1>5. PendingFile(f, st, row.retry) \in Read /\ PendingFile(f, st, row.retry).file = f
    BY <1>1, <1>2, <1>4 DEF PendingFile, Read
<1> QED
    BY <1>5 DEF st, row

LEMMA ReadyReadsPendingFilesKeeps == ASSUME IInv, ReadyReadsPendingFiles PROVE IInv'
<1> DEFINE C == ContinuableFiles(ready.remotes)
           g == [f \in C |-> PendingFile(f, FromDbColumns(rows[f]), rows[f].retry)]
           S == {g[f] : f \in C}
<1>1. /\ ready.stage = "remotes" /\ ready' = [ready EXCEPT !.stage = "reset", !.files = S]
      /\ UNCHANGED <<disk, tracker, actions, tasks, seen, aborted>>
    BY DEF ReadyReadsPendingFiles
<1>2. TableInv /\ ReadyInv
    BY DEF IInv, TypesInv
<1>3. \A f \in DOMAIN rows : f \in C <=> rows[f].tag \in ActiveTags /\ TargetOf[f] \in ready.remotes
    BY <1>2 DEF ContinuableFiles, TableInv
<1>4. C \subseteq DOMAIN rows /\ C \subseteq Files
    BY <1>2 DEF ContinuableFiles, TableInv
<1>5. \A f \in C : g[f] \in Read /\ g[f].file = f
    BY <1>3, <1>4, <1>2, ReadRow
<1> HIDE DEF g, C
<1>6. IsFiniteSet(C)
    BY <1>4, OutboxAssumption, FS_Subset
<1>7. S \subseteq Read /\ IsFiniteSet(S) /\ \A f \in C : \E p \in S : p.file = f
    BY <1>5, <1>6, FiniteValues
<1> HIDE DEF S
<1>8. ReadyInv' /\ ready'.files = S
    BY <1>1, <1>2, <1>7 DEF ReadyInv, Stages
<1>9. \A f \in DOMAIN rows : rows[f].tag \in ActiveTags /\ Passed(f)' =>
          Taken(f)' \/ (Passed(f) /\ ~Taken(f))
    <2>1. \A f \in C : Taken(f)'
        BY <1>7, <1>8 DEF Taken
    <2>2. \A f : ~Taken(f)
        BY <1>1, <1>2 DEF ReadyInv, Taken
    <2>3. \A f \in DOMAIN rows : rows[f].tag \in ActiveTags /\ f \notin C => Passed(f)
        BY <1>1, <1>3 DEF Passed
    <2> QED
        BY <2>1, <2>2, <2>3
<1> QED
    BY <1>1, <1>8, <1>9, ReadyFrame

\* A file that Ready has read as Sending is interrupted.
LEMMA InterruptedFacts ==
    ASSUME NEW p \in Read, IsSending(p)
    PROVE  /\ Interrupted(p) \in Read /\ Interrupted(p).file = p.file
           /\ Interrupted(p).status \in Statuses
           /\ Interrupted(p).status.tag = "Interrupted"
           /\ Consistent(Interrupted(p).status, NoCount)
<1>1. PICK n \in Nat : p.status = SendStatus("Sending", n)
    BY DEF Read, WasRead, Waits, IsSending, SendStatus
<1>2. p = PendingFile(p.file, SendStatus("Sending", n), p.retry) /\ p.file \in Files /\ p.retry \in Nat
    BY <1>1 DEF Read, PendingFile
<1> DEFINE st == SendStatus("Interrupted", n)
<1>3. st \in Statuses /\ st.tag = "Interrupted" /\ st.data = n
    BY StatusFacts DEF Tags
<1>4. Interrupted(p) = PendingFile(p.file, st, p.retry)
    BY <1>2 DEF Interrupted, PendingFile, SendStatus
<1>5. WasRead(st)
    BY DEF WasRead, Waits
<1> HIDE DEF st
<1>6. Consistent(st, NoCount)
    BY <1>3 DEF Consistent
<1>7. PendingFile(p.file, st, p.retry) \in Read
    BY <1>2, <1>3, <1>5 DEF PendingFile, Read
<1> QED
    BY <1>3, <1>4, <1>6, <1>7, EntryFields

LEMMA ReadyResetsFileKeeps == ASSUME IInv, NEW p \in ready.files, ReadyResetsFile(p) PROVE IInv'
<1> DEFINE q == Interrupted(p)
<1>1. /\ ready.stage = "reset" /\ IsSending(p) /\ UNCHANGED <<remotes, sources, used>>
      /\ \/ /\ p.file \in DOMAIN rows
            /\ rows' = [rows EXCEPT ![p.file] = UpdatedRow(@, q.status, NoCount)]
            /\ ready' = [ready EXCEPT !.files = (@ \ {p}) \cup {q}]
            /\ UNCHANGED <<tracker, actions, tasks, seen, aborted>>
         \/ Aborts("row gone") /\ UNCHANGED rows
    BY DEF ReadyResetsFile, CanUpdate
<1>2. ReadyInv /\ p \in Read
    BY DEF IInv, TypesInv, ReadyInv
<1>3. /\ q \in Read /\ q.file = p.file /\ q.status \in Statuses
      /\ q.status.tag = "Interrupted" /\ Consistent(q.status, NoCount)
    BY <1>1, <1>2, InterruptedFacts
<1> HIDE DEF q
<1>4. CASE /\ p.file \in DOMAIN rows
           /\ rows' = [rows EXCEPT ![p.file] = UpdatedRow(@, q.status, NoCount)]
           /\ ready' = [ready EXCEPT !.files = (@ \ {p}) \cup {q}]
           /\ UNCHANGED <<tracker, actions, tasks, seen, aborted>>
    <2> DEFINE F == (ready.files \ {p}) \cup {q}
    <2>1. IsFiniteSet(F) /\ F \subseteq Read
        <3>1. IsFiniteSet(ready.files \ {p})
            BY <1>2, FS_RemoveElement DEF ReadyInv
        <3>2. IsFiniteSet(F)
            BY <3>1, FS_AddElement
        <3> QED
            BY <1>2, <1>3, <3>2 DEF ReadyInv
    <2>2. ready' = [ready EXCEPT !.files = F]
        BY <1>4
    <2>3. \A f : (\E e \in ready.files : e.file = f) => \E e \in F : e.file = f
        BY <1>3
    <2>4. \E e \in F : e.file = p.file
        BY <1>3
    <2> HIDE DEF F
    <2>5. /\ ReadyInv' /\ ready'.stage = "reset" /\ ready'.files = F
        BY <1>1, <1>2, <2>1, <2>2 DEF ReadyInv
    <2>6. \A f : Passed(f)' /\ Passed(f) /\ (Taken(f) => Taken(f)')
        BY <1>1, <2>3, <2>5 DEF Passed, Taken
    <2>7. Taken(p.file)'
        BY <2>4, <2>5 DEF Taken
    <2>8. TrackerInv' /\ ReportsInv' /\ SeenInv' /\ IsABag(tasks')
        BY <1>1, <1>4
           DEF IInv, TypesInv, TrackerInv, ReportsInv, SeenInv, TasksInv, tracker
    <2>9. \A f : Tracked(f)' = Tracked(f)
        BY <1>4 DEF Tracked, tracker
    <2>10. NoCount \in Int /\ "Interrupted" \notin TerminalTags
        BY DEF NoCount, TerminalTags
    <2> DEFINE f == p.file
               status == q.status
    <2>11. /\ f \in DOMAIN rows /\ status \in Statuses /\ status.tag = "Interrupted"
           /\ Consistent(status, NoCount)
           /\ rows' = [rows EXCEPT ![f] = UpdatedRow(@, status, NoCount)] /\ Taken(f)'
        BY <1>3, <1>4, <2>7
    <2> HIDE DEF f, status
    <2>12. /\ UNCHANGED <<seen.dropped, seen.late, seen.deleted, seen.swept>>
           /\ UNCHANGED <<remotes, sources, aborted>>
           /\ UNCHANGED <<tasks, actions, seen>>
        BY <1>1, <1>4
    <2>13. \A g : (Passed(g)' <=> Passed(g)) /\ (Taken(g) => Taken(g)')
        BY <2>6
    <2> QED
        BY <2>5, <2>8, <2>9, <2>10, <2>11, <2>12, <2>13, UpdateKeeps
<1>5. CASE Aborts("row gone") /\ UNCHANGED rows
    BY <1>1, <1>5, StopsFrame DEF Aborts, disk
<1> QED
    BY <1>1, <1>4, <1>5

LEMMA ReadySendsInitialFilesKeeps == ASSUME IInv, ReadySendsInitialFiles PROVE IInv'
<1> DEFINE S == ready.files
<1>1. /\ ready.stage = "reset" /\ \A p \in S : ~IsSending(p)
      /\ queue' = queue \o SetToSeq(S) /\ ready' = Idle("done")
      /\ UNCHANGED <<disk, slot, actions, tasks, seen, aborted>>
    BY DEF ReadySendsInitialFiles
<1>2. S \subseteq Read /\ IsFiniteSet(S) /\ TrackerInv
    BY DEF IInv, TypesInv, ReadyInv
<1>3. \A p \in Read : ~IsSending(p) => p \in Entries
    BY DEF Read, Entries, WasRead, IsSending, SendStatus
<1>4. S \subseteq Entries
    BY <1>1, <1>2, <1>3
<1>5. \A f : Taken(f) => \E p \in S : p.file = f
    BY DEF Taken
<1> HIDE DEF S
<1>6. SetToSeq(S) \in Seq(Entries) /\ \A e \in S : Queued(SetToSeq(S), e.file)
    BY <1>2, <1>4, ListedQueue
<1>7. /\ queue' \in Seq(Entries)
      /\ \A f : Queued(queue, f) \/ Taken(f) => Queued(queue', f)
    BY <1>1, <1>2, <1>5, <1>6, ConcatQueue DEF TrackerInv
<1>8. TypesInv'
    <2>1. TrackerInv'
        BY <1>1, <1>2, <1>7 DEF TrackerInv
    <2>2. ReadyInv'
        BY <1>1, FS_EmptySet DEF ReadyInv, Idle, Stages
    <2> QED
        BY <1>1, <2>1, <2>2
           DEF IInv, TypesInv, TableInv, ReportsInv, TasksInv, SeenInv, disk
<1>9. CareInv'
    <2>1. \A f : Tracked(f) \/ Taken(f) => Tracked(f)'
        BY <1>1, <1>7, TrackedFacts
    <2>2. \A f : Watched(f) \/ Taken(f) => Watched(f)'
        BY <1>1, <2>1 DEF Watched
    <2>3. \A f : Passed(f)
        BY <1>1 DEF Passed
    <2> QED
        BY <1>1, <2>2, <2>3 DEF IInv, CareInv, disk
<1>10. EndedInv'
    BY <1>1, EndedStep DEF IInv, disk
<1>11. SourceInv'
    BY <1>1, SourceStep DEF IInv, disk
<1> QED
    BY <1>1, <1>8, <1>9, <1>10, <1>11 DEF IInv, ConstraintInv

-----------------------------------------------------------------------------
(* The invariant. *)

LEMMA InitIInv == ASSUME Init PROVE IInv
<1> USE DEF Init
<1>1. DOMAIN rows = {} /\ rows = [f \in DOMAIN rows |-> rows[f]]
    OBVIOUS
<1>2. IsABag(EmptyBag) /\ DOMAIN EmptyBag = {}
    BY EmptyBagFacts
<1>3. TypesInv
    <2>1. TableInv
        BY <1>1 DEF TableInv
    <2>2. TrackerInv /\ ReportsInv /\ TasksInv
        BY <1>2 DEF TrackerInv, ReportsInv, TasksInv
    <2>3. ReadyInv
        BY FS_EmptySet DEF ReadyInv, Idle, Stages
    <2>4. SeenInv
        BY DEF SeenInv
    <2> QED
        BY <2>1, <2>2, <2>3, <2>4 DEF TypesInv
<1> QED
    BY <1>1, <1>2, <1>3 DEF IInv, CareInv, EndedInv, SourceInv, ConstraintInv

LEMMA ClientStepKeeps == ASSUME IInv, ClientStep PROVE IInv'
BY CreateRemoteFilerequestKeeps, CreatePendingFilesKeeps, DeleteRemoteFilerequestKeeps,
   DeletePendingFileKeeps DEF ClientStep

LEMMA TrackerStepKeeps == ASSUME IInv, TrackerStep PROVE IInv'
BY OfferNewTransferKeeps, OfferContinueTransferKeeps, OpenFileForReadingFailsKeeps,
   PeerAcceptsKeeps, PeerConfirmsChunkKeeps, TransferEndsKeeps, TransferResetsKeeps,
   ChunkLoopInterruptsKeeps DEF TrackerStep

LEMMA BrainStepKeeps == ASSUME IInv, BrainStep PROVE IInv'
<1>1. CASE \E t \in Targets : InsertPendingFiles(t) \/ SendFiles(t)
    BY <1>1, InsertPendingFilesKeeps, SendFilesKeeps
<1>2. CASE \E t \in Targets : CancelFilesForRemoteFilerequest(t) \/ DeleteRemoteFilerequestRow(t)
    BY <1>2, CancelFilesForRemoteFilerequestKeeps, DeleteRemoteFilerequestRowKeeps
<1>3. CASE \E f \in Files : CancelFile(f) \/ DeletePendingFileRow(f)
    BY <1>3, CancelFileKeeps, DeletePendingFileRowKeeps
<1>4. CASE \E f \in Files : CleanupCounts(f) \/ CleanupRemoves(f)
    BY <1>4, CleanupCountsKeeps, CleanupRemovesKeeps
<1>5. CASE \E r \in BagToSet(actions) : HandleReport(r)
    BY <1>5, HandleReportKeeps
<1>6. CASE \E p \in Paths : SweepOutgoingFiles(p)
    BY <1>6, SweepOutgoingFilesKeeps
<1> QED
    BY <1>1, <1>2, <1>3, <1>4, <1>5, <1>6 DEF BrainStep

LEMMA StartStepKeeps == ASSUME IInv, StartStep PROVE IInv'
BY CrashKeeps, EventLoopStartsKeeps, ReadyReadsRemotesKeeps, ReadyReadsPendingFilesKeeps,
   ReadySendsInitialFilesKeeps, ReadyResetsFileKeeps DEF StartStep

LEMMA StutterKeeps == ASSUME IInv, UNCHANGED vars PROVE IInv'
<1>1. /\ UNCHANGED <<disk, tracker, actions, tasks, seen, aborted>> /\ UNCHANGED ready
    BY DEF vars, disk, tracker
<1>2. ReadyInv'
    BY <1>1 DEF IInv, TypesInv, ReadyInv
<1>3. \A f : (Passed(f)' <=> Passed(f)) /\ (Taken(f)' <=> Taken(f))
    BY <1>1 DEF Passed, Taken
<1> QED
    BY <1>1, <1>2, <1>3, ReadyFrame

LEMMA Invariance == Spec => []IInv
<1>1. Init => IInv
    BY InitIInv
<1>2. IInv /\ [Next]_vars => IInv'
    BY ClientStepKeeps, TrackerStepKeeps, BrainStepKeeps, StartStepKeeps, StutterKeeps DEF Next
<1> QED
    BY <1>1, <1>2, PTL DEF Spec

-----------------------------------------------------------------------------
(***************************************************************************)
(* Once the program has started, a file that is still to be sent is in the *)
(* tracker, or a handler or a report is about to deal with it, whatever    *)
(* clients, reports and restarts did; the exceptions are the two of        *)
(* NotForgotten (handle_action.rs:1017, :387, :467).                       *)
(***************************************************************************)
THEOREM FilesAreNotForgotten == Spec => []NotForgotten
<1>1. IInv => NotForgotten
    <2> SUFFICES ASSUME IInv, ready.stage = "done", NEW f \in DOMAIN rows,
                        rows[f].tag \in ActiveTags
                 PROVE  Tracked(f) \/ Attended(f) \/ f \in seen.ended \cup seen.dropped
        BY DEF NotForgotten
    <2>1. Passed(f) /\ ~Taken(f)
        BY DEF IInv, TypesInv, ReadyInv, Passed, Taken
    <2>2. Watched(f)
        BY <2>1 DEF IInv, CareInv
    <2>3. /\ Task("Delete", f, NoFile).file = f
          /\ Task("DeleteTarget", NoFile, TargetOf[f]).target = TargetOf[f]
          /\ Task("Send", NoFile, TargetOf[f]).target = TargetOf[f]
        BY TaskFields
    <2> QED
        BY <2>2, <2>3 DEF Watched, Attended, BagToSet
<1> QED
    BY <1>1, Invariance, PTL

(***************************************************************************)
(* The source of a file that is being sent is kept while others that share *)
(* it end, fail, are retried and are cleaned up after; the exceptions are  *)
(* those of SourceKept (handle_action.rs:1567, actor.rs:1287).             *)
(***************************************************************************)
THEOREM SourcesAreKept == Spec => []SourceKept
<1>1. IInv => SourceKept
    <2> SUFFICES ASSUME IInv, NEW f \in DOMAIN rows, rows[f].tag \in ActiveTags,
                        f \notin seen.ended \cup seen.late,
                        \A g \in seen.deleted : PathOf[g] # PathOf[f],
                        PathOf[f] \notin seen.swept
                 PROVE  PathOf[f] \in sources
        BY DEF SourceKept
    <2>1. ~Excepted(f)
        BY DEF Excepted
    <2> QED
        BY <2>1 DEF IInv, SourceInv
<1> QED
    BY <1>1, Invariance, PTL

(***************************************************************************)
(* No order of reports, resets and restarts makes an update that the CHECK *)
(* constraint refuses: the handlers panic for a row that is gone, and for  *)
(* nothing else (handle_action.rs:1119, schema.rs:82).                     *)
(***************************************************************************)
THEOREM UpdatesAreAccepted == Spec => []UpdatesRespectTheTable
<1>1. IInv => UpdatesRespectTheTable
    BY DEF IInv, ConstraintInv, UpdatesRespectTheTable
<1> QED
    BY <1>1, Invariance, PTL

=============================================================================
