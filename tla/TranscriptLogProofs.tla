------------------------- MODULE TranscriptLogProofs -------------------------
(***************************************************************************)
(* What TranscriptLog promises of the saved transcripts, proved for any    *)
(* sessions, sizes, faults and crashes.                                    *)
(*                                                                         *)
(* The inductive invariant IInv is layered: the types and where the writer *)
(* is (Typed, WriterInv); the operations of a session in order (OrderInv,  *)
(* FreshInv); two sums (MarkingInv, LedgerInv) that account for each chunk *)
(* wherever it is; what that makes of the log and its segments (EndInv,    *)
(* SegmentsInv, LogsInv, BoundInv); and what a read knows at each of its   *)
(* points (ReadInv).  First come lemmas on the sums and on what each       *)
(* action changes, then one lemma per layer, and the theorems at the end.  *)
(***************************************************************************)
EXTENDS TranscriptLog, WellFoundedInduction, SequenceTheorems, TLAPS

-----------------------------------------------------------------------------
SegmentType == [newest : Nat, previous : BOOLEAN, current : BOOLEAN,
                previousFrom : Nat, currentFrom : Nat]

(* The types, but for the few that need more than types.                   *)
Typed ==
    /\ state \in [Sessions -> {"new", "running", "ended", "failed to start"}]
    /\ printed \in [Sessions -> Nat]
    /\ ops \in Seq(OpType) /\ batch \in Seq(OpType)
    /\ cost \in Nat /\ queued \in Nat /\ done \in Nat /\ shutdown \in BOOLEAN
    /\ gaps \in [Sessions -> Nat] /\ marking \in [Sessions -> Int]
    /\ recording \subseteq Sessions /\ dirty \subseteq Sessions /\ logs \subseteq Sessions
    /\ failures \subseteq Sessions /\ notes \subseteq Sessions
    /\ writer \in {"looking", "waiting", "stopped", "applying", "applied", "renamed",
                   "rotated", "enforcing", "unwinding", "failed", "given up"}
    /\ saved \in [Sessions -> Seq(Int)]
    /\ segments \in [Sessions -> SegmentType]
    /\ read \in ReadType \cup {NoRead}

(* Where the writer is says whether it has a batch, and of what.           *)
WriterInv ==
    /\ writer \in {"looking", "waiting", "stopped", "given up"} => batch = <<>>
    /\ writer \notin {"looking", "waiting", "stopped", "given up", "applying"} => batch # <<>>
    /\ writer \in {"renamed", "rotated", "enforcing"} => Current.op \in {"Data", "Gap", "Close"}
    /\ writer = "unwinding" /\ Current.op = "Gap" => MarkersMayPanic
    /\ writer = "failed" => \A i \in DOMAIN batch : batch[i].session \in failures
    /\ done + Len(batch) + Len(ops) <= queued

\* What the writer has taken and not yet put in a log or given up.
Written == writer \in {"enforcing", "applied", "unwinding", "failed"}
Rest == IF Written THEN Tail(batch) ELSE batch

(* What is marked is in a marker on its way.                               *)
InHand(s) ==
    IF writer \in {"enforcing", "applied"} /\ Current.op = "Gap" /\ Current.session = s
    THEN Current.n ELSE 0

GapsLeft(s) == GapsIn(Rest, s, Len(Rest))
GapsQueued(s) == GapsIn(ops, s, Len(ops))

MarkingInv ==
    \A s \in Sessions : marking[s] = GapsLeft(s) + GapsQueued(s) + InHand(s)

(* Of one session: an Open is first, a Discard last, and only a Discard    *)
(* follows a Close.                                                        *)
MayFollow(a, b) ==
    a.session = b.session =>
        b.op # "Open" /\ a.op # "Discard" /\ (a.op = "Close" => b.op = "Discard")

Ordered(q) == \A i, j \in DOMAIN q : i < j => MayFollow(q[i], q[j])

HasOpen(q, s) == \E i \in DOMAIN q : q[i].session = s /\ q[i].op = "Open"
HasOutput(q, s) == \E i \in DOMAIN q : q[i].session = s /\ q[i].op \in {"Data", "Gap"}

\* What an operation that is queued says of its session.
Going ==
    {o \in OpType :
        /\ state[o.session] # "new"
        /\ o.op = "Data" => o.n > 0 /\ o.n <= printed[o.session]
        /\ o.op = "Gap" => o.n > 0
        /\ o.op = "Close" => state[o.session] # "running" /\ gaps[o.session] = 0
        /\ o.op = "Discard" => state[o.session] = "ended" /\ printed[o.session] = 0}

OrderInv ==
    /\ Ordered(batch) /\ Ordered(ops)
    /\ \A i \in DOMAIN batch, j \in DOMAIN ops : MayFollow(batch[i], ops[j])
    /\ \A i \in DOMAIN batch : batch[i] \in Going
    /\ \A i \in DOMAIN ops : ops[i] \in Going

(* A session whose Open is still to come has no log.                       *)
Fresh == {s \in Sessions : saved[s] = <<>> /\ segments[s] = NoSegments /\ s \notin logs}

FreshInv ==
    \A s \in Sessions :
        /\ HasOpen(Rest, s) => s \in Fresh /\ (writer # "failed" => s \notin failures)
        /\ HasOpen(ops, s) => s \in Fresh /\ s \notin failures
        /\ state[s] = "new" => printed[s] = 0 /\ gaps[s] = 0 /\ s \in Fresh /\ s \notin failures
        /\ state[s] = "failed to start" => printed[s] = 0
        /\ s \in recording => state[s] = "running"

(* The ledger.                                                             *)
Weight(q, s, n) == ChunksIn(q, s, n) + GapsIn(q, s, n)
WeightLeft(s) == Weight(Rest, s, Len(Rest))
WeightQueued(s) == Weight(ops, s, Len(ops))
InLog(s) == Covered(saved[s], Len(saved[s]))
Total(s) == InLog(s) + WeightLeft(s) + WeightQueued(s) + gaps[s]

HasOp(q, s) == \E i \in DOMAIN q : q[i].session = s
\* This host has the session's whole log, or will.
Owns(s) == host = 1 \/ state[s] # "ended" \/ HasOp(batch, s) \/ HasOp(ops, s)

\* The operation in hand may be neither in the log nor in what is left.
Interrupted(s) == writer = "unwinding" /\ Current.session = s

\* Nothing of the session was given up.
Sound(s) ==
    s \notin failures /\ ~(Interrupted(s) /\ Current.op \in {"Data", "Gap"})

\* A chunk on its way bears the number that the sum up to it gives.
InTurn(s) ==
    /\ \A i \in DOMAIN Rest : Rest[i].op = "Data" /\ Rest[i].session = s =>
           Rest[i].n = InLog(s) + Weight(Rest, s, i)
    /\ \A i \in DOMAIN ops : ops[i].op = "Data" /\ ops[i].session = s =>
           ops[i].n = InLog(s) + WeightLeft(s) + Weight(ops, s, i)

LedgerInv ==
    /\ \A s \in Sessions : Total(s) <= printed[s]
    /\ \A s \in Sessions : Owns(s) /\ Sound(s) => Total(s) = printed[s]
    /\ \A s \in Sessions : Sound(s) => InTurn(s)
    /\ writer \in {"enforcing", "unwinding"} /\ Current.op = "Data"
           /\ Current.session \notin failures => InLog(Current.session) >= Current.n - 1

OnlyDiscards(q, s) == \A i \in DOMAIN q : q[i].session = s => q[i].op = "Discard"

(* Nothing that appends is left once the end marker is written.            *)
EndInv ==
    /\ GapsInPlace /\ EndMeansWhole
    /\ \A s \in Sessions : \A i \in DOMAIN saved[s] : saved[s][i] = End =>
           state[s] \notin {"new", "running"} /\ OnlyDiscards(Rest, s) /\ OnlyDiscards(ops, s)

(* Segments and the logs that are open.                                    *)
SegmentsOf(s) ==
    /\ segments[s].currentFrom <= Len(saved[s])
    /\ segments[s].previous => segments[s].newest > 1
    /\ segments[s].current => segments[s].newest > 0 /\ Used(s) <= SegmentItems
    /\ segments[s].previous /\ ~segments[s].current => segments[s].currentFrom = Len(saved[s])
    /\ segments[s].newest > 1 => printed[s] > 0
    /\ writer = "renamed" /\ Current.session = s =>
           /\ segments[s].previous /\ ~segments[s].current
           /\ segments[s].currentFrom = Len(saved[s])
    /\ writer = "rotated" /\ Current.session = s => segments[s].current

SegmentsInv == \A s \in Sessions : SegmentsOf(s)

\* A log the writer has open has a segment; and one that is fed is open or to be.
LogsOf(s) ==
    /\ s \in logs /\ s \notin failures =>
           segments[s].current \/ Interrupted(s) \/ (writer = "renamed" /\ Current.session = s)
    /\ s \notin failures /\ ~Interrupted(s)
           /\ ((state[s] = "running" /\ ~shutdown) \/ HasOutput(Rest, s) \/ HasOutput(ops, s))
       => s \in logs \/ HasOpen(Rest, s) \/ HasOpen(ops, s)

LogsInv == dirty \subseteq logs /\ \A s \in Sessions : LogsOf(s)

(* A marker is queued with the chunk after it, which alone was checked.    *)
BoundInv == cost <= QueueBytes + OpCost

(* Reads: an operation that is not about what a read was asked for.        *)
Later ==
    {o \in OpType : o.session = read.session =>
                        o.op # "Open" /\ (o.op = "Data" => o.n > read.owed)}

\* What was queued before the read was asked is among the first `target`.
AskInv ==
    /\ state[read.session] # "new" /\ read.owed <= printed[read.session]
    /\ \A i \in DOMAIN batch :
           batch[i] \in Later \/ queued - Len(ops) - Len(batch) + i <= read.target
    /\ \A i \in DOMAIN ops : ops[i] \in Later \/ queued - Len(ops) + i <= read.target
    /\ read.at # "settling" /\ read.settled => done >= read.target

\* The first n items of the log and the count the read took tell enough.
Told(n) == Covered(saved[read.session], n) + read.unrecorded >= read.owed

\* What a read that saw the session recorded relies on.
Trusted == ~MarkersMayPanic /\ read.settled /\ read.live

(* The whole log and the count do, from the look at the queue on.          *)
LookInv ==
    Trusted =>
        /\ read.at = "looked" =>
               read.session \in failures \/ Told(Len(saved[read.session]))
        /\ read.at \in {"opening", "half open", "open"} /\ ~read.error =>
               Told(Len(saved[read.session]))

(* The segment a read opened as the previous one, as segments move on.     *)
PreviousInv ==
    read.at \in {"half open", "open"} /\ read.previous.file # 0 =>
        /\ read.previous.file < segments[read.session].newest
        /\ read.previous.to <= Len(saved[read.session])
        /\ ~read.evicted => segments[read.session].previous
        /\ read.previous.file + 1 = segments[read.session].newest =>
               read.previous.to = segments[read.session].currentFrom

(* ... and the one it opened as the current one, adjacent if it still is.  *)
CurrentInv ==
    read.at = "open" /\ read.current.file # 0 =>
        /\ read.current.to <= Len(saved[read.session])
        /\ Trusted /\ ~read.error => Told(read.current.to)
        /\ read.previous.file # 0 =>
               /\ read.previous.file < read.current.file
               /\ read.current.file <= segments[read.session].newest
               /\ read.current.file = segments[read.session].newest =>
                      read.current.from = segments[read.session].currentFrom

(* What a read has found, which others can no longer change.               *)
FoundInv ==
    /\ ReadHasNoHole /\ MissingMeansGone
    /\ read.at = "found" =>
           /\ Newest.to <= Len(saved[read.session])
           /\ ~read.evicted /\ Trusted /\ ~read.error => Told(Newest.to)

ReadInv == read.at # "none" => AskInv /\ LookInv /\ PreviousInv /\ CurrentInv /\ FoundInv

IInv ==
    /\ Typed /\ WriterInv /\ MarkingInv /\ OrderInv /\ FreshInv /\ LedgerInv /\ EndInv
    /\ SegmentsInv /\ LogsInv /\ BoundInv /\ ReadInv

(* Induction over a set of numbers, from the least number outside it.      *)
LEMMA Induction ==
    ASSUME NEW S, S \subseteq Nat, 0 \in S, \A n \in S : n + 1 \in S
    PROVE  \A n \in Nat : n \in S
<1> DEFINE T == Nat \ S
<1> SUFFICES ASSUME T # {} PROVE FALSE
  OBVIOUS
<1>1. PICK x \in T : \A y \in T : ~(<<y, x>> \in OpToRel(<, Nat))
  <2>1. T \subseteq Nat
    OBVIOUS
  <2> HIDE DEF T
  <2> QED
    BY <2>1, NatLessThanWellFounded, WFMin
<1>2. \A y \in T : ~(y < x)
  BY <1>1 DEF OpToRel
<1>3. x - 1 \in S /\ (x - 1) + 1 = x
  BY <1>2
<1> QED
  BY <1>3

(* Every set of numbers that is not empty has a least one.                 *)
LEMMA Smallest ==
    ASSUME NEW S, S \subseteq Nat, S # {}
    PROVE  \E x \in S : \A y \in S : x <= y
<1>1. PICK x \in S : \A y \in S : ~(<<y, x>> \in OpToRel(<, Nat))
  BY NatLessThanWellFounded, WFMin
<1>2. \A y \in S : ~(y < x)
  BY <1>1 DEF OpToRel
<1> QED
  BY <1>2

SumsUp(w, n, f) == f = [i \in 0..n |-> IF i = 0 THEN 0 ELSE f[i - 1] + w[i]]

(* The running sums that AddedUp is defined by exist for every length.     *)
LEMMA SumExists == ASSUME NEW w, NEW n \in Nat PROVE \E f : SumsUp(w, n, f)
<1> DEFINE S == {k \in Nat : \E f : SumsUp(w, k, f)}
<1>1. 0 \in S
  <2>1. SumsUp(w, 0, [i \in 0..0 |-> 0])
    BY DEF SumsUp
  <2> QED
    BY <2>1
<1>2. ASSUME NEW k \in S PROVE k + 1 \in S
  <2>1. PICK f : SumsUp(w, k, f)
    BY <1>2
  <2> DEFINE g == [i \in 0..k + 1 |-> IF i = k + 1 THEN f[k] + w[k + 1] ELSE f[i]]
  <2>2. \A i \in 0..k + 1 : g[i] = IF i = 0 THEN 0 ELSE g[i - 1] + w[i]
    BY <2>1 DEF SumsUp
  <2>3. SumsUp(w, k + 1, g)
    BY <2>2 DEF SumsUp
  <2>4. \E h : SumsUp(w, k + 1, h)
    BY <2>3
  <2> QED
    BY <2>4
<1>3. S \subseteq Nat
  OBVIOUS
<1> HIDE DEF S
<1>4. n \in S
  BY <1>1, <1>2, <1>3, Induction
<1> QED
  BY <1>4 DEF S

(* Two runs of sums of the same numbers agree, as far as both go.          *)
LEMMA SumIsUnique ==
    ASSUME NEW w, NEW v, NEW n \in Nat, NEW m \in Nat, NEW f, NEW g, n <= m,
           SumsUp(w, n, f), SumsUp(v, m, g), \A i \in 1..n : w[i] = v[i]
    PROVE  \A i \in 0..n : f[i] = g[i]
<1> DEFINE S == {k \in Nat : k <= n => f[k] = g[k]}
<1>1. 0 \in S
  BY DEF SumsUp
<1>2. ASSUME NEW k \in S PROVE k + 1 \in S
  <2> SUFFICES ASSUME k + 1 <= n PROVE f[k + 1] = g[k + 1]
    OBVIOUS
  <2>1. f[k + 1] = f[k] + w[k + 1] /\ g[k + 1] = g[k] + v[k + 1]
    BY DEF SumsUp
  <2> QED
    BY <2>1
<1>3. S \subseteq Nat
  OBVIOUS
<1> HIDE DEF S
<1>4. \A k \in Nat : k \in S
  BY <1>1, <1>2, <1>3, Induction
<1> QED
  BY <1>4 DEF S

(* AddedUp is the last of the running sums.                                *)
LEMMA AddedUpIs ==
    ASSUME NEW w, NEW n \in Nat
    PROVE  \E f : SumsUp(w, n, f) /\ AddedUp(w, n) = f[n]
<1> DEFINE f == CHOOSE f : SumsUp(w, n, f)
<1>1. SumsUp(w, n, f)
  BY SumExists
<1>2. AddedUp(w, n) = f[n]
  BY DEF AddedUp, SumsUp
<1> QED
  BY <1>1, <1>2

(* A sum of no numbers is zero.                                            *)
LEMMA AddedUpNone == ASSUME NEW w PROVE AddedUp(w, 0) = 0
BY AddedUpIs DEF SumsUp

(* A sum depends on no more than the numbers added.                        *)
LEMMA AddedUpSame ==
    ASSUME NEW w, NEW v, NEW n \in Nat, \A i \in 1..n : w[i] = v[i]
    PROVE  AddedUp(w, n) = AddedUp(v, n)
<1>1. PICK f : SumsUp(w, n, f) /\ AddedUp(w, n) = f[n]
  BY AddedUpIs
<1>2. PICK g : SumsUp(v, n, g) /\ AddedUp(v, n) = g[n]
  BY AddedUpIs
<1> QED
  BY <1>1, <1>2, SumIsUnique

(* One more number adds itself.                                            *)
LEMMA AddedUpNext ==
    ASSUME NEW w, NEW n \in Nat
    PROVE  AddedUp(w, n + 1) = AddedUp(w, n) + w[n + 1]
<1>1. PICK f : SumsUp(w, n, f) /\ AddedUp(w, n) = f[n]
  BY AddedUpIs
<1>2. PICK g : SumsUp(w, n + 1, g) /\ AddedUp(w, n + 1) = g[n + 1]
  BY AddedUpIs
<1>3. \A i \in 0..n : f[i] = g[i]
  <2>0. PICK v : v = w
    OBVIOUS
  <2>1. PICK m \in Nat : m = n + 1
    OBVIOUS
  <2>2. n <= m /\ SumsUp(v, m, g) /\ \A i \in 1..n : w[i] = v[i]
    BY <1>2, <2>0, <2>1
  <2> QED
    BY <1>1, <2>2, SumIsUnique
<1>4. g[n + 1] = g[n] + w[n + 1]
  <2>1. n + 1 \in 0..n + 1 /\ n + 1 # 0 /\ (n + 1) - 1 = n
    OBVIOUS
  <2> QED
    BY <1>2, <2>1 DEF SumsUp
<1>5. f[n] = g[n]
  BY <1>3
<1> QED
  BY <1>1, <1>2, <1>4, <1>5

(* A sum of natural numbers is one, and grows with its length.             *)
LEMMA AddedUpNat ==
    ASSUME NEW w, NEW n \in Nat, \A i \in 1..n : w[i] \in Nat
    PROVE  /\ AddedUp(w, n) \in Nat
           /\ \A k \in 0..n : AddedUp(w, k) \in Nat /\ AddedUp(w, k) <= AddedUp(w, n)
<1> DEFINE S == {k \in Nat : k <= n => /\ AddedUp(w, k) \in Nat
                                       /\ \A i \in 0..k : AddedUp(w, i) \in Nat /\ AddedUp(w, i) <= AddedUp(w, k)}
<1>1. 0 \in S
  BY AddedUpNone
<1>2. ASSUME NEW k \in S PROVE k + 1 \in S
  <2> SUFFICES ASSUME k + 1 <= n
               PROVE  /\ AddedUp(w, k + 1) \in Nat
                      /\ \A i \in 0..k + 1 : AddedUp(w, i) \in Nat /\ AddedUp(w, i) <= AddedUp(w, k + 1)
    OBVIOUS
  <2>1. AddedUp(w, k + 1) = AddedUp(w, k) + w[k + 1] /\ w[k + 1] \in Nat
    BY AddedUpNext
  <2> QED
    BY <2>1
<1>3. S \subseteq Nat
  OBVIOUS
<1> HIDE DEF S
<1>4. n \in S
  BY <1>1, <1>2, <1>3, Induction
<1> QED
  BY <1>4 DEF S

(* A sum of zeros is zero.                                                 *)
LEMMA AddedUpZero ==
    ASSUME NEW w, NEW n \in Nat, \A i \in 1..n : w[i] = 0
    PROVE  AddedUp(w, n) = 0
<1> DEFINE S == {k \in Nat : k <= n => AddedUp(w, k) = 0}
<1>1. 0 \in S
  BY AddedUpNone
<1>2. ASSUME NEW k \in S PROVE k + 1 \in S
  BY AddedUpNext
<1>3. S \subseteq Nat
  OBVIOUS
<1> HIDE DEF S
<1>4. n \in S
  BY <1>1, <1>2, <1>3, Induction
<1> QED
  BY <1>4 DEF S

(* A sum is its first number and the sum of the others.                    *)
LEMMA AddedUpShift ==
    ASSUME NEW w, NEW v, NEW n \in Nat, \A i \in 1..n + 1 : w[i] \in Nat,
           \A i \in 1..n : v[i] = w[i + 1]
    PROVE  AddedUp(w, n + 1) = w[1] + AddedUp(v, n)
<1> DEFINE S == {k \in Nat : k <= n => AddedUp(w, k + 1) = w[1] + AddedUp(v, k) /\ AddedUp(v, k) \in Nat}
<1>1. 0 \in S
  BY AddedUpNone, AddedUpNext
<1>2. ASSUME NEW k \in S PROVE k + 1 \in S
  <2> SUFFICES ASSUME k + 1 <= n
               PROVE  AddedUp(w, k + 2) = w[1] + AddedUp(v, k + 1) /\ AddedUp(v, k + 1) \in Nat
    OBVIOUS
  <2>1. AddedUp(w, (k + 1) + 1) = AddedUp(w, k + 1) + w[(k + 1) + 1]
    BY AddedUpNext
  <2>2. AddedUp(v, k + 1) = AddedUp(v, k) + v[k + 1]
    BY AddedUpNext
  <2>3. v[k + 1] = w[(k + 1) + 1] /\ v[k + 1] \in Nat /\ w[1] \in Nat /\ (k + 1) + 1 = k + 2
    OBVIOUS
  <2> QED
    BY <2>1, <2>2, <2>3
<1>3. S \subseteq Nat
  OBVIOUS
<1> HIDE DEF S
<1>4. n \in S
  BY <1>1, <1>2, <1>3, Induction
<1> QED
  BY <1>4 DEF S

-----------------------------------------------------------------------------
(* What a queue holds of a session.                                        *)

WeightOf(o, s) ==
    IF o.session # s THEN 0
    ELSE CASE o.op = "Data" -> 1 [] o.op = "Gap" -> o.n [] OTHER -> 0
GapOf(o, s) == IF o.op = "Gap" /\ o.session = s THEN o.n ELSE 0

(* The first no operations of a queue weigh nothing.                       *)
LEMMA QueueNone ==
    ASSUME NEW q \in Seq(OpType), NEW s
    PROVE  Weight(q, s, 0) = 0 /\ GapsIn(q, s, 0) = 0
BY AddedUpNone DEF Weight, ChunksIn, GapsIn

(* What a queue holds of a session is a natural number and grows with it.  *)
LEMMA QueueNat ==
    ASSUME NEW q \in Seq(OpType), NEW s, NEW n \in 0..Len(q)
    PROVE  /\ ChunksIn(q, s, n) \in Nat /\ GapsIn(q, s, n) \in Nat /\ Weight(q, s, n) \in Nat
           /\ GapsIn(q, s, n) <= Weight(q, s, n)
           /\ \A k \in 0..n : Weight(q, s, k) \in Nat /\ Weight(q, s, k) <= Weight(q, s, n)
<1> DEFINE c == [i \in DOMAIN q |-> IF q[i].op = "Data" /\ q[i].session = s THEN 1 ELSE 0]
           g == [i \in DOMAIN q |-> IF q[i].op = "Gap" /\ q[i].session = s THEN q[i].n ELSE 0]
<1>1. n \in Nat /\ \A i \in 1..n : c[i] \in Nat /\ g[i] \in Nat
  <2>1. n \in Nat /\ \A i \in 1..n : i \in DOMAIN q /\ q[i] \in OpType
    OBVIOUS
  <2> QED
    BY <2>1 DEF OpType
<1>2. /\ AddedUp(c, n) \in Nat
      /\ \A k \in 0..n : AddedUp(c, k) \in Nat /\ AddedUp(c, k) <= AddedUp(c, n)
  <2> HIDE DEF c
  <2> QED
    BY <1>1, AddedUpNat
<1>3. /\ AddedUp(g, n) \in Nat
      /\ \A k \in 0..n : AddedUp(g, k) \in Nat /\ AddedUp(g, k) <= AddedUp(g, n)
  <2> HIDE DEF g
  <2> QED
    BY <1>1, AddedUpNat
<1>4. \A k : ChunksIn(q, s, k) = AddedUp(c, k) /\ GapsIn(q, s, k) = AddedUp(g, k)
  BY DEF ChunksIn, GapsIn
<1> HIDE DEF c, g
<1> QED
  BY <1>1, <1>2, <1>3, <1>4 DEF Weight

(* Queues that begin alike hold the same of every session there.           *)
LEMMA QueueSame ==
    ASSUME NEW q \in Seq(OpType), NEW r \in Seq(OpType), NEW s, NEW n \in Nat,
           n <= Len(q), n <= Len(r), \A i \in 1..n : q[i] = r[i]
    PROVE  Weight(q, s, n) = Weight(r, s, n) /\ GapsIn(q, s, n) = GapsIn(r, s, n)
<1> DEFINE c(p) == [i \in DOMAIN p |-> IF p[i].op = "Data" /\ p[i].session = s THEN 1 ELSE 0]
           g(p) == [i \in DOMAIN p |-> IF p[i].op = "Gap" /\ p[i].session = s THEN p[i].n ELSE 0]
<1>1. \A i \in 1..n : c(q)[i] = c(r)[i] /\ g(q)[i] = g(r)[i]
  OBVIOUS
<1>2. AddedUp(c(q), n) = AddedUp(c(r), n)
  <2> HIDE DEF c, g
  <2> QED
    BY <1>1, AddedUpSame
<1>3. AddedUp(g(q), n) = AddedUp(g(r), n)
  <2> HIDE DEF c, g
  <2> QED
    BY <1>1, AddedUpSame
<1> QED
  BY <1>2, <1>3 DEF Weight, ChunksIn, GapsIn

(* The next operation of a queue adds its own weight.                      *)
LEMMA QueueNext ==
    ASSUME NEW q \in Seq(OpType), NEW s, NEW n \in Nat, n < Len(q)
    PROVE  /\ Weight(q, s, n + 1) = Weight(q, s, n) + WeightOf(q[n + 1], s)
           /\ GapsIn(q, s, n + 1) = GapsIn(q, s, n) + GapOf(q[n + 1], s)
<1> DEFINE c == [i \in DOMAIN q |-> IF q[i].op = "Data" /\ q[i].session = s THEN 1 ELSE 0]
           g == [i \in DOMAIN q |-> IF q[i].op = "Gap" /\ q[i].session = s THEN q[i].n ELSE 0]
<1>1. n + 1 \in DOMAIN q /\ q[n + 1] \in OpType
  OBVIOUS
<1>2. /\ ChunksIn(q, s, n + 1) = ChunksIn(q, s, n) + c[n + 1]
      /\ GapsIn(q, s, n + 1) = GapsIn(q, s, n) + g[n + 1]
  BY AddedUpNext DEF ChunksIn, GapsIn
<1>3. /\ c[n + 1] \in Nat /\ g[n + 1] \in Nat /\ c[n + 1] + g[n + 1] = WeightOf(q[n + 1], s)
      /\ g[n + 1] = GapOf(q[n + 1], s)
  BY <1>1 DEF WeightOf, GapOf, OpType
<1>4. n \in 0..Len(q)
  OBVIOUS
<1>5. ChunksIn(q, s, n) \in Nat /\ GapsIn(q, s, n) \in Nat
  BY <1>4, QueueNat
<1> QED
  BY <1>2, <1>3, <1>5 DEF Weight

(* A queue is its head and its tail, and so is what it weighs.             *)
LEMMA QueueTail ==
    ASSUME NEW q \in Seq(OpType), NEW s, q # <<>>, NEW n \in 0..Len(q) - 1
    PROVE  /\ Weight(q, s, n + 1) = WeightOf(q[1], s) + Weight(Tail(q), s, n)
           /\ GapsIn(q, s, n + 1) = GapOf(q[1], s) + GapsIn(Tail(q), s, n)
<1> DEFINE c(p) == [i \in DOMAIN p |-> IF p[i].op = "Data" /\ p[i].session = s THEN 1 ELSE 0]
           g(p) == [i \in DOMAIN p |-> IF p[i].op = "Gap" /\ p[i].session = s THEN p[i].n ELSE 0]
<1>1. /\ Tail(q) \in Seq(OpType) /\ Len(Tail(q)) = Len(q) - 1
      /\ \A i \in 1..Len(q) - 1 : Tail(q)[i] = q[i + 1]
  OBVIOUS
<1>2. n \in Nat /\ \A i \in 1..n : c(Tail(q))[i] = c(q)[i + 1] /\ g(Tail(q))[i] = g(q)[i + 1]
  BY <1>1
<1>3. \A i \in 1..n + 1 : c(q)[i] \in Nat /\ g(q)[i] \in Nat
  <2>1. \A i \in 1..n + 1 : i \in DOMAIN q /\ q[i] \in OpType
    OBVIOUS
  <2> QED
    BY <2>1 DEF OpType
<1>4. AddedUp(c(q), n + 1) = c(q)[1] + AddedUp(c(Tail(q)), n)
  <2> HIDE DEF c, g
  <2> QED
    BY <1>2, <1>3, AddedUpShift
<1>5. AddedUp(g(q), n + 1) = g(q)[1] + AddedUp(g(Tail(q)), n)
  <2> HIDE DEF c, g
  <2> QED
    BY <1>2, <1>3, AddedUpShift
<1>6. /\ c(q)[1] \in Nat /\ g(q)[1] \in Nat /\ c(q)[1] + g(q)[1] = WeightOf(q[1], s)
      /\ g(q)[1] = GapOf(q[1], s)
  <2>1. 1 \in DOMAIN q /\ q[1] \in OpType
    OBVIOUS
  <2> QED
    BY <2>1 DEF WeightOf, GapOf, OpType
<1>7. \A p, k : ChunksIn(p, s, k) = AddedUp(c(p), k) /\ GapsIn(p, s, k) = AddedUp(g(p), k)
  BY DEF ChunksIn, GapsIn
<1>8. ChunksIn(Tail(q), s, n) \in Nat /\ GapsIn(Tail(q), s, n) \in Nat
  BY <1>1, QueueNat
<1> HIDE DEF c, g
<1> QED
  BY <1>4, <1>5, <1>6, <1>7, <1>8 DEF Weight

(* Where no operation is of a session, nothing weighs for it.              *)
LEMMA QueueZero ==
    ASSUME NEW q \in Seq(OpType), NEW s, NEW n \in 0..Len(q),
           \A i \in 1..n : WeightOf(q[i], s) = 0
    PROVE  Weight(q, s, n) = 0 /\ GapsIn(q, s, n) = 0
<1> DEFINE S == {k \in Nat : k <= n => Weight(q, s, k) = 0}
<1>1. 0 \in S
  BY QueueNone
<1>2. ASSUME NEW k \in S PROVE k + 1 \in S
  BY QueueNext
<1>3. S \subseteq Nat
  OBVIOUS
<1> HIDE DEF S
<1>4. n \in S
  <2>1. n \in Nat
    OBVIOUS
  <2> QED
    BY <1>1, <1>2, <1>3, <2>1, Induction
<1>5. Weight(q, s, n) = 0
  BY <1>4 DEF S
<1> QED
  BY <1>5, QueueNat

-----------------------------------------------------------------------------
(* What a log accounts for.                                                *)

(* The first no items of a log account for nothing.                        *)
LEMMA LogNone == ASSUME NEW q PROVE Covered(q, 0) = 0
BY AddedUpNone DEF Covered

(* An item appended changes nothing before it.                             *)
LEMMA LogSame ==
    ASSUME NEW q \in Seq(Int), NEW x \in Int, NEW n \in 0..Len(q)
    PROVE  Covered(Append(q, x), n) = Covered(q, n)
<1> DEFINE a(p) == [i \in DOMAIN p |-> Accounts(p[i])]
<1>1. n \in Nat /\ \A i \in 1..n : a(Append(q, x))[i] = a(q)[i]
  OBVIOUS
<1>2. AddedUp(a(Append(q, x)), n) = AddedUp(a(q), n)
  <2> HIDE DEF a
  <2> QED
    BY <1>1, AddedUpSame
<1> QED
  BY <1>2 DEF Covered

(* The next item of a log accounts for itself alone.                       *)
LEMMA LogNext ==
    ASSUME NEW q \in Seq(Int), NEW n \in Nat, n < Len(q)
    PROVE  Covered(q, n + 1) = Covered(q, n) + Accounts(q[n + 1])
BY AddedUpNext DEF Covered

(* What a log accounts for is a natural number and grows with it.          *)
LEMMA LogNat ==
    ASSUME NEW q \in Seq(Int), NEW n \in 0..Len(q)
    PROVE  /\ Covered(q, n) \in Nat
           /\ \A k \in 0..n : Covered(q, k) \in Nat /\ Covered(q, k) <= Covered(q, n)
<1> DEFINE a == [i \in DOMAIN q |-> Accounts(q[i])]
<1>1. n \in Nat /\ \A i \in 1..n : a[i] \in Nat
  BY DEF Accounts
<1>2. /\ AddedUp(a, n) \in Nat
      /\ \A k \in 0..n : AddedUp(a, k) \in Nat /\ AddedUp(a, k) <= AddedUp(a, n)
  <2> HIDE DEF a
  <2> QED
    BY <1>1, AddedUpNat
<1> QED
  BY <1>2 DEF Covered

(* What a log holds and accounts for after an item is appended.            *)
LEMMA LogAppend ==
    ASSUME NEW q \in Seq(Int), NEW x \in Int
    PROVE  /\ Append(q, x) \in Seq(Int) /\ Len(Append(q, x)) = Len(q) + 1
           /\ \A i \in 1..Len(q) : Append(q, x)[i] = q[i]
           /\ Append(q, x)[Len(q) + 1] = x
           /\ \A n \in 0..Len(q) : Covered(Append(q, x), n) = Covered(q, n)
           /\ Covered(Append(q, x), Len(q) + 1) = Covered(q, Len(q)) + Accounts(x)
<1>1. /\ Append(q, x) \in Seq(Int) /\ Len(Append(q, x)) = Len(q) + 1
      /\ \A i \in 1..Len(q) : Append(q, x)[i] = q[i]
      /\ Append(q, x)[Len(q) + 1] = x
  OBVIOUS
<1>2. Covered(Append(q, x), Len(q) + 1) = Covered(Append(q, x), Len(q)) + Accounts(Append(q, x)[Len(q) + 1])
  <2>1. Len(q) \in Nat /\ Len(q) < Len(Append(q, x))
    BY <1>1
  <2> QED
    BY <1>1, <2>1, LogNext
<1> QED
  BY <1>1, <1>2, LogSame

(* What joins the queue.                                                   *)
Joins(k) ==
    /\ ops' \in Seq(OpType) /\ Len(ops') = Len(ops) + k
    /\ \A i \in 1..Len(ops) : ops'[i] = ops[i]
    /\ queued' = queued + k
    /\ writer' = IF writer = "waiting" THEN "looking" ELSE writer

(* Queue of one operation: it is the last.                                 *)
LEMMA QueueOne ==
    ASSUME Typed, NEW o \in OpType, NEW bytes \in Nat, Queue(<<o>>, bytes)
    PROVE  Joins(1) /\ ops'[Len(ops) + 1] = o /\ cost' = cost + bytes
<1>1. ops \in Seq(OpType) /\ ops' = ops \o <<o>> /\ queued' = queued + Len(<<o>>)
  BY DEF Typed, Queue
<1>2. ops' = Append(ops, o)
  BY <1>1
<1>3. queued' = queued + 1
  BY <1>1
<1> QED
  BY <1>1, <1>2, <1>3 DEF Queue, Joins

MarkerLen(s) == IF gaps[s] > 0 THEN 1 ELSE 0

(* Queue of an operation after the marker of an earlier gap, if there is   *)
(* one.                                                                    *)
LEMMA QueueMarked ==
    ASSUME Typed, NEW s \in Sessions, NEW o \in OpType, NEW bytes \in Nat,
           Queue(Append(Marker(s), o), bytes)
    PROVE  /\ Joins(MarkerLen(s) + 1) /\ ops'[Len(ops) + MarkerLen(s) + 1] = o
           /\ gaps[s] > 0 => ops'[Len(ops) + 1] = Op("Gap", s, gaps[s])
           /\ cost' = cost + bytes
<1> DEFINE m == Op("Gap", s, gaps[s])
<1>1. /\ ops \in Seq(OpType) /\ ops' = ops \o Append(Marker(s), o)
      /\ queued' = queued + Len(Append(Marker(s), o)) /\ cost' = cost + bytes
      /\ writer' = IF writer = "waiting" THEN "looking" ELSE writer
  BY DEF Typed, Queue
<1>2. m \in OpType
  BY DEF Typed, Op, OpType
<1> HIDE DEF m
<1>3. CASE gaps[s] > 0
  <2>1. Marker(s) = <<m>>
    BY <1>3 DEF Marker, m
  <2> DEFINE z == Append(Marker(s), o)
  <2>2. z \in Seq(OpType) /\ Len(z) = 2 /\ z[1] = m /\ z[2] = o
    BY <1>2, <2>1
  <2>3. ops' = ops \o z /\ queued' = queued + Len(z)
    BY <1>1
  <2>0. ops \in Seq(OpType) /\ Len(ops) \in Nat
    BY <1>1
  <2> HIDE DEF z
  <2>4. /\ ops' \in Seq(OpType) /\ Len(ops') = Len(ops) + 2
        /\ \A i \in 1..Len(ops) + 2 :
               ops'[i] = IF i <= Len(ops) THEN ops[i] ELSE z[i - Len(ops)]
    <3>1. z \in Seq(OpType)
      BY <2>2
    <3>2. /\ ops \o z \in Seq(OpType) /\ Len(ops \o z) = Len(ops) + Len(z)
          /\ \A i \in 1..Len(ops) + Len(z) :
                 (ops \o z)[i] = IF i <= Len(ops) THEN ops[i] ELSE z[i - Len(ops)]
      BY <2>0, <3>1, ConcatProperties
    <3> QED
      BY <2>2, <2>3, <3>2
  <2>5. \A i \in 1..Len(ops) : ops'[i] = ops[i]
    BY <2>0, <2>4
  <2>6. ops'[Len(ops) + 1] = m /\ ops'[Len(ops) + 2] = o
    BY <2>0, <2>2, <2>4
  <2>7. MarkerLen(s) = 1
    BY <1>3 DEF MarkerLen
  <2>8. queued' = queued + 2 /\ Len(ops) \in Nat
    BY <1>1, <2>2, <2>3
  <2> QED
    BY <1>1, <2>4, <2>5, <2>6, <2>7, <2>8 DEF Joins, m
<1>4. CASE ~(gaps[s] > 0)
  <2>1. Marker(s) = <<>>
    BY <1>4 DEF Marker
  <2>2. Append(Marker(s), o) = <<o>> /\ Len(<<o>>) = 1
    BY <2>1
  <2>3. ops' = Append(ops, o)
    BY <1>1, <2>2
  <2>4. MarkerLen(s) = 0 /\ queued' = queued + 1
    BY <1>1, <1>4, <2>2 DEF MarkerLen
  <2> QED
    BY <1>1, <1>4, <2>3, <2>4 DEF Joins
<1> QED
  BY <1>3, <1>4

-----------------------------------------------------------------------------
(* What each action changes, and nothing else.                             *)

Others(s) == Sessions \ {s}

(* A session armed: what it needs and what it changes.                     *)
LEMMA ArmIs ==
    ASSUME Typed, NEW s \in Sessions, Arm(s)
    PROVE  /\ state[s] = "new" /\ ~shutdown
           /\ state' \in [Sessions -> {"new", "running", "ended", "failed to start"}]
           /\ state'[s] = "running" /\ \A d \in Others(s) : state'[d] = state[d]
           /\ recording' = recording \cup {s}
           /\ gaps' \in [Sessions -> Nat]
           /\ gaps'[s] = 0 /\ \A d \in Others(s) : gaps'[d] = gaps[d]
           /\ Joins(1) /\ ops'[Len(ops) + 1] = Op("Open", s, 0) /\ cost' = cost
           /\ UNCHANGED <<printed, marking, done, shutdown, batch, logs, dirty,
                          failures, notes, saved, segments, read, host, faults>>
<1>1. Op("Open", s, 0) \in OpType
  BY DEF Op, OpType
<1>2. Joins(1) /\ ops'[Len(ops) + 1] = Op("Open", s, 0) /\ cost' = cost + 0
  BY <1>1, QueueOne DEF Arm
<1>3. /\ state \in [Sessions -> {"new", "running", "ended", "failed to start"}]
      /\ gaps \in [Sessions -> Nat] /\ cost \in Nat
  BY DEF Typed
<1>4. /\ state[s] = "new" /\ ~shutdown /\ recording' = recording \cup {s}
      /\ state' = [state EXCEPT ![s] = "running"] /\ gaps' = [gaps EXCEPT ![s] = 0]
  BY DEF Arm
<1>5. UNCHANGED <<printed, marking, done, shutdown, batch, logs, dirty, failures,
                  notes, saved, segments, read, host, faults>>
  BY DEF Arm, disk
<1>6. /\ state' \in [Sessions -> {"new", "running", "ended", "failed to start"}]
      /\ state'[s] = "running" /\ \A d \in Others(s) : state'[d] = state[d]
      /\ gaps' \in [Sessions -> Nat]
      /\ gaps'[s] = 0 /\ \A d \in Others(s) : gaps'[d] = gaps[d]
  BY <1>3, <1>4 DEF Others
<1>7. cost' = cost
  <2>1. cost \in Nat /\ cost' = cost + 0
    BY <1>2, <1>3
  <2> QED
    BY <2>1
<1> QED
  BY <1>2, <1>4, <1>5, <1>6, <1>7

(* A chunk dropped: what it needs and what it changes.                     *)
LEMMA DropChunkIs ==
    ASSUME Typed, NEW s \in Sessions, DropChunk(s)
    PROVE  /\ state[s] = "running"
           /\ printed' \in [Sessions -> Nat] /\ gaps' \in [Sessions -> Nat]
           /\ printed'[s] = printed[s] + 1 /\ gaps'[s] = gaps[s] + 1
           /\ \A d \in Others(s) : printed'[d] = printed[d] /\ gaps'[d] = gaps[d]
           /\ UNCHANGED <<state, ops, cost, marking, recording, queued, done,
                          shutdown, writer, batch, logs, dirty, failures, notes,
                          saved, segments, read, host, faults>>
<1>1. printed \in [Sessions -> Nat] /\ gaps \in [Sessions -> Nat]
  BY DEF Typed
<1>2. /\ state[s] = "running"
      /\ printed' = [printed EXCEPT ![s] = @ + 1] /\ gaps' = [gaps EXCEPT ![s] = @ + 1]
  BY DEF DropChunk
<1>3. UNCHANGED <<state, ops, cost, marking, recording, queued, done, shutdown,
                  writer, batch, logs, dirty, failures, notes, saved, segments,
                  read, host, faults>>
  BY DEF DropChunk, disk
<1> QED
  BY <1>1, <1>2, <1>3 DEF Others

(* A chunk kept: what it needs and what it changes.                        *)
LEMMA KeepChunkIs ==
    ASSUME Typed, NEW s \in Sessions, KeepChunk(s)
    PROVE  /\ state[s] = "running" /\ ~shutdown /\ cost + ChunkCost <= QueueBytes
           /\ printed' \in [Sessions -> Nat] /\ gaps' \in [Sessions -> Nat]
           /\ marking' \in [Sessions -> Int]
           /\ printed'[s] = printed[s] + 1 /\ gaps'[s] = 0
           /\ marking'[s] = marking[s] + gaps[s]
           /\ \A d \in Others(s) : /\ printed'[d] = printed[d] /\ gaps'[d] = gaps[d]
                                   /\ marking'[d] = marking[d]
           /\ Joins(MarkerLen(s) + 1)
           /\ ops'[Len(ops) + MarkerLen(s) + 1] = Op("Data", s, printed[s] + 1)
           /\ gaps[s] > 0 => ops'[Len(ops) + 1] = Op("Gap", s, gaps[s])
           /\ cost' = cost + ChunkCost + OpCost * MarkerLen(s)
           /\ UNCHANGED <<state, recording, done, shutdown, batch, logs, dirty,
                          failures, notes, saved, segments, read, host, faults>>
<1>1. /\ printed \in [Sessions -> Nat] /\ gaps \in [Sessions -> Nat]
      /\ marking \in [Sessions -> Int] /\ cost \in Nat /\ OpCost \in Nat
  BY SizesAssumption DEF Typed
<1>2. Op("Data", s, printed[s] + 1) \in OpType
  BY <1>1 DEF Op, OpType
<1>3. ChunkCost + (IF gaps[s] > 0 THEN OpCost ELSE 0) \in Nat
  BY <1>1 DEF ChunkCost
<1>4. Queue(Append(Marker(s), Op("Data", s, printed[s] + 1)),
            ChunkCost + IF gaps[s] > 0 THEN OpCost ELSE 0)
  BY DEF KeepChunk
<1>5. /\ Joins(MarkerLen(s) + 1)
      /\ ops'[Len(ops) + MarkerLen(s) + 1] = Op("Data", s, printed[s] + 1)
      /\ gaps[s] > 0 => ops'[Len(ops) + 1] = Op("Gap", s, gaps[s])
      /\ cost' = cost + (ChunkCost + IF gaps[s] > 0 THEN OpCost ELSE 0)
  BY <1>2, <1>3, <1>4, QueueMarked
<1>6. cost' = cost + ChunkCost + OpCost * MarkerLen(s)
  BY <1>1, <1>5 DEF MarkerLen, ChunkCost
<1>7. /\ state[s] = "running" /\ ~shutdown /\ cost + ChunkCost <= QueueBytes
      /\ printed' = [printed EXCEPT ![s] = @ + 1] /\ gaps' = [gaps EXCEPT ![s] = 0]
      /\ marking' = [marking EXCEPT ![s] = @ + gaps[s]]
  BY DEF KeepChunk, Fits, MarkGap
<1>8. UNCHANGED <<state, recording, done, shutdown, batch, logs, dirty, failures,
                  notes, saved, segments, read, host, faults>>
  BY DEF KeepChunk, disk
<1>9. /\ printed' \in [Sessions -> Nat] /\ gaps' \in [Sessions -> Nat]
      /\ marking' \in [Sessions -> Int]
      /\ printed'[s] = printed[s] + 1 /\ gaps'[s] = 0
      /\ marking'[s] = marking[s] + gaps[s]
      /\ \A d \in Others(s) : /\ printed'[d] = printed[d] /\ gaps'[d] = gaps[d]
                              /\ marking'[d] = marking[d]
  BY <1>1, <1>7 DEF Others
<1> QED
  BY <1>5, <1>6, <1>7, <1>8, <1>9

(* A ring dropped: what it needs and what it changes.                      *)
LEMMA CloseIs ==
    ASSUME Typed, NEW s \in Sessions, NEW now, Close(s, now)
    PROVE  /\ state[s] = "running"
           /\ now \in {"ended", "failed to start"} =>
                  state' \in [Sessions -> {"new", "running", "ended", "failed to start"}]
           /\ state'[s] = now /\ \A d \in Others(s) : state'[d] = state[d]
           /\ recording' = recording \ {s}
           /\ shutdown => UNCHANGED <<gaps, marking, ops, queued, cost, writer>>
           /\ ~shutdown =>
                /\ gaps' \in [Sessions -> Nat] /\ marking' \in [Sessions -> Int]
                /\ gaps'[s] = 0 /\ marking'[s] = marking[s] + gaps[s]
                /\ \A d \in Others(s) : gaps'[d] = gaps[d] /\ marking'[d] = marking[d]
                /\ Joins(MarkerLen(s) + 1)
                /\ ops'[Len(ops) + MarkerLen(s) + 1] = Op("Close", s, 0)
                /\ gaps[s] > 0 => ops'[Len(ops) + 1] = Op("Gap", s, gaps[s])
                /\ cost' = cost
           /\ UNCHANGED <<printed, done, shutdown, batch, logs, dirty, failures,
                          notes, saved, segments, read, host, faults>>
<1>1. /\ state \in [Sessions -> {"new", "running", "ended", "failed to start"}]
      /\ gaps \in [Sessions -> Nat] /\ marking \in [Sessions -> Int] /\ cost \in Nat
  BY DEF Typed
<1>2. Op("Close", s, 0) \in OpType
  BY DEF Op, OpType
<1>3. ASSUME ~shutdown
      PROVE  /\ Joins(MarkerLen(s) + 1)
             /\ ops'[Len(ops) + MarkerLen(s) + 1] = Op("Close", s, 0)
             /\ gaps[s] > 0 => ops'[Len(ops) + 1] = Op("Gap", s, gaps[s])
             /\ cost' = cost
  <2>1. Queue(Append(Marker(s), Op("Close", s, 0)), 0)
    BY <1>3 DEF Close
  <2>2. /\ Joins(MarkerLen(s) + 1)
        /\ ops'[Len(ops) + MarkerLen(s) + 1] = Op("Close", s, 0)
        /\ gaps[s] > 0 => ops'[Len(ops) + 1] = Op("Gap", s, gaps[s])
        /\ cost' = cost + 0
    BY <1>2, <2>1, QueueMarked
  <2>3. cost \in Nat /\ cost' = cost + 0
    BY <1>1, <2>2
  <2>4. cost' = cost
    BY <2>3
  <2> QED
    BY <2>2, <2>4
<1>4. ASSUME ~shutdown
      PROVE  /\ gaps' \in [Sessions -> Nat] /\ marking' \in [Sessions -> Int]
             /\ gaps'[s] = 0 /\ marking'[s] = marking[s] + gaps[s]
             /\ \A d \in Others(s) : gaps'[d] = gaps[d] /\ marking'[d] = marking[d]
  <2>1. gaps' = [gaps EXCEPT ![s] = 0] /\ marking' = [marking EXCEPT ![s] = @ + gaps[s]]
    BY <1>4 DEF Close, MarkGap
  <2>2. gaps \in [Sessions -> Nat] /\ marking \in [Sessions -> Int]
    BY <1>1
  <2> QED
    BY <2>1, <2>2 DEF Others
<1>5. /\ state[s] = "running" /\ state' = [state EXCEPT ![s] = now]
      /\ recording' = recording \ {s}
      /\ shutdown => UNCHANGED <<gaps, marking, ops, queued, cost, writer>>
  BY DEF Close
<1>6. UNCHANGED <<printed, done, shutdown, batch, logs, dirty, failures, notes,
                  saved, segments, read, host, faults>>
  BY DEF Close, disk
<1>7. /\ now \in {"ended", "failed to start"} =>
             state' \in [Sessions -> {"new", "running", "ended", "failed to start"}]
      /\ state'[s] = now /\ \A d \in Others(s) : state'[d] = state[d]
  BY <1>1, <1>5 DEF Others
<1> QED
  BY <1>3, <1>4, <1>5, <1>6, <1>7

(* A session discarded: what it needs and what it changes.                 *)
LEMMA DiscardIs ==
    ASSUME Typed, NEW s \in Sessions, Discard(s)
    PROVE  /\ state[s] = "failed to start"
           /\ state' \in [Sessions -> {"new", "running", "ended", "failed to start"}]
           /\ state'[s] = "ended" /\ \A d \in Others(s) : state'[d] = state[d]
           /\ shutdown => UNCHANGED <<ops, queued, cost, writer>>
           /\ ~shutdown => /\ Joins(1) /\ ops'[Len(ops) + 1] = Op("Discard", s, 0)
                           /\ cost' = cost
           /\ UNCHANGED <<printed, gaps, marking, recording, done, shutdown, batch,
                          logs, dirty, failures, notes, saved, segments, read, host,
                          faults>>
<1>1. /\ state \in [Sessions -> {"new", "running", "ended", "failed to start"}]
      /\ cost \in Nat
  BY DEF Typed
<1>2. Op("Discard", s, 0) \in OpType
  BY DEF Op, OpType
<1>3. ASSUME ~shutdown
      PROVE  Joins(1) /\ ops'[Len(ops) + 1] = Op("Discard", s, 0) /\ cost' = cost
  <2>1. Queue(<<Op("Discard", s, 0)>>, 0)
    BY <1>3 DEF Discard
  <2>2. /\ Joins(1) /\ ops'[Len(ops) + 1] = Op("Discard", s, 0) /\ cost' = cost + 0
    BY <1>2, <2>1, QueueOne
  <2>3. cost \in Nat /\ cost' = cost + 0
    BY <1>1, <2>2
  <2>4. cost' = cost
    BY <2>3
  <2> QED
    BY <2>2, <2>4
<1>4. /\ state[s] = "failed to start" /\ state' = [state EXCEPT ![s] = "ended"]
      /\ shutdown => UNCHANGED <<ops, queued, cost, writer>>
  BY DEF Discard
<1>5. UNCHANGED <<printed, gaps, marking, recording, done, shutdown, batch, logs,
                  dirty, failures, notes, saved, segments, read, host, faults>>
  BY DEF Discard, disk
<1> QED
  BY <1>1, <1>3, <1>4, <1>5 DEF Others

(* The operation in hand is one, and the rest of the batch follows it.     *)
LEMMA HeadIs ==
    ASSUME Typed, batch # <<>>
    PROVE  /\ Current \in OpType /\ Current = batch[1]
           /\ Current.session \in Sessions /\ Current.n \in Nat
           /\ Current.op \in {"Open", "Data", "Gap", "Close", "Discard"}
           /\ Tail(batch) \in Seq(OpType)
           /\ Len(batch) \in Nat /\ Len(batch) > 0 /\ Len(Tail(batch)) = Len(batch) - 1
           /\ \A i \in 1..Len(batch) - 1 : Tail(batch)[i] = batch[i + 1]
<1>1. batch \in Seq(OpType)
  BY DEF Typed
<1>2. Current \in OpType /\ Current = batch[1]
  BY <1>1 DEF Current
<1>3. /\ Tail(batch) \in Seq(OpType)
      /\ Len(batch) \in Nat /\ Len(batch) > 0 /\ Len(Tail(batch)) = Len(batch) - 1
      /\ \A i \in 1..Len(batch) - 1 : Tail(batch)[i] = batch[i + 1]
  BY <1>1
<1>4. /\ Current.session \in Sessions /\ Current.n \in Nat
      /\ Current.op \in {"Open", "Data", "Gap", "Close", "Discard"}
  BY <1>2 DEF OpType
<1> QED
  BY <1>2, <1>3, <1>4

(* The host told to stop: what it needs and what it changes.               *)
LEMMA ShutdownIs ==
    ASSUME Shutdown
    PROVE  /\ ~shutdown /\ shutdown' = TRUE
           /\ writer' = IF writer = "waiting" THEN "looking" ELSE writer
           /\ UNCHANGED <<state, printed, ops, cost, gaps, marking, recording,
                          queued, done, batch, logs, dirty, failures, notes, saved,
                          segments, read, host, faults>>
BY DEF Shutdown, programs, disk

(* The queue taken as a batch: what it needs and what it changes.          *)
LEMMA TakeBatchIs ==
    ASSUME TakeBatch
    PROVE  /\ writer = "looking" /\ writer' = "applying" /\ ops # <<>>
           /\ batch' = ops /\ ops' = <<>> /\ cost' = 0
           /\ UNCHANGED <<state, printed, gaps, marking, recording, queued, done,
                          shutdown, logs, dirty, failures, notes, saved, segments,
                          read, host, faults>>
BY DEF TakeBatch, programs, disk

\* The steps of a writer that has no batch, or has finished one.
LEMMA IdleIs ==
    ASSUME Wait \/ SyncIdle \/ Stopped \/ BatchDone
    PROVE  /\ writer \in {"looking", "waiting", "applying"}
           /\ writer' \in {"looking", "waiting", "stopped"}
           /\ writer = "applying" => batch = <<>> /\ done' = queued - Len(ops)
           /\ writer # "applying" => done' = done
           /\ \/ logs' = logs /\ dirty' \subseteq dirty
              \/ logs' = {} /\ dirty' = {} /\ ops = <<>> /\ shutdown
           /\ UNCHANGED <<state, printed, ops, cost, gaps, marking, recording,
                          queued, shutdown, batch, failures, notes, saved, segments,
                          read, host, faults>>
BY DEF Wait, SyncIdle, Stopped, BatchDone, programs, queueVars, disk

\* The segments of a log as it is opened.
Begun(g) == /\ g.newest = 1 /\ g.current /\ ~g.previous
            /\ g.previousFrom = 0 /\ g.currentFrom = 0

(* An Open applied: what it needs and what it changes.                     *)
LEMMA ApplyOpenIs ==
    ASSUME Typed, ApplyOpen
    PROVE  /\ writer = "applying" /\ writer' = "applied"
           /\ batch # <<>> /\ Current.op = "Open"
           /\ segments' \in [Sessions -> SegmentType]
           /\ \/ /\ failures' = failures \ {Current.session} /\ notes' = notes
                 /\ logs' = logs \cup {Current.session}
                 /\ Begun(segments'[Current.session])
                 /\ \A d \in Others(Current.session) : segments'[d] = segments[d]
              \/ /\ failures' = failures \cup {Current.session}
                 /\ notes' \subseteq notes \cup {Current.session}
                 /\ logs' = logs /\ segments' = segments
           /\ UNCHANGED <<state, printed, ops, cost, gaps, marking, recording,
                          queued, done, shutdown, batch, dirty, saved, read, host>>
<1>1. /\ writer = "applying" /\ writer' = "applied"
      /\ batch # <<>> /\ Current.op = "Open"
  BY DEF ApplyOpen, Applying
<1>2. segments \in [Sessions -> SegmentType]
  BY DEF Typed
<1>3. Current.session \in Sessions
  BY <1>1, HeadIs
<1>4. \/ /\ failures' = failures \ {Current.session} /\ notes' = notes
         /\ logs' = logs \cup {Current.session}
         /\ segments' = [segments EXCEPT ![Current.session] =
                [NoSegments EXCEPT !.newest = 1, !.current = TRUE]]
      \/ /\ failures' = failures \cup {Current.session}
         /\ notes' \subseteq notes \cup {Current.session}
         /\ logs' = logs /\ segments' = segments
  BY DEF ApplyOpen, Fail
<1> DEFINE g == [NoSegments EXCEPT !.newest = 1, !.current = TRUE]
<1>5. g \in SegmentType
  BY DEF NoSegments, SegmentType
<1>6. Begun(g)
  BY DEF NoSegments, Begun
<1>7. UNCHANGED <<state, printed, ops, cost, gaps, marking, recording, queued, done,
                  shutdown, batch, dirty, saved, read, host>>
  BY DEF ApplyOpen, programs, queueVars
<1>8. CASE /\ failures' = failures \cup {Current.session}
           /\ notes' \subseteq notes \cup {Current.session}
           /\ logs' = logs /\ segments' = segments
  BY <1>1, <1>2, <1>7, <1>8
<1>9. CASE /\ failures' = failures \ {Current.session} /\ notes' = notes
           /\ logs' = logs \cup {Current.session}
           /\ segments' = [segments EXCEPT ![Current.session] =
                  [NoSegments EXCEPT !.newest = 1, !.current = TRUE]]
  <2>1. /\ segments' \in [Sessions -> SegmentType]
        /\ segments'[Current.session] = g
        /\ \A d \in Others(Current.session) : segments'[d] = segments[d]
    <3>1. segments' = [segments EXCEPT ![Current.session] = g]
      BY <1>9
    <3> HIDE DEF g
    <3> QED
      BY <1>2, <1>3, <1>5, <3>1 DEF Others
  <2> QED
    BY <1>1, <1>6, <1>9, <1>7, <2>1
<1> QED
  BY <1>4, <1>8, <1>9

(* A Discard applied: what it needs and what it changes.                   *)
LEMMA ApplyDiscardIs ==
    ASSUME Typed, ApplyDiscard
    PROVE  /\ writer = "applying" /\ writer' = "applied"
           /\ batch # <<>> /\ Current.op = "Discard"
           /\ segments' \in [Sessions -> SegmentType]
           /\ notes' \subseteq notes
           /\ \A d \in Others(Current.session) : segments'[d] = segments[d]
           /\ IF Current.session \in logs
              THEN segments' = segments /\ failures' = failures
              ELSE /\ segments'[Current.session] = NoSegments
                   /\ failures' = failures \ {Current.session}
           /\ UNCHANGED <<state, printed, ops, cost, gaps, marking, recording,
                          queued, done, shutdown, batch, logs, dirty, saved, read,
                          host, faults>>
<1>1. /\ writer = "applying" /\ writer' = "applied"
      /\ batch # <<>> /\ Current.op = "Discard"
  BY DEF ApplyDiscard, Applying
<1>2. segments \in [Sessions -> SegmentType] /\ NoSegments \in SegmentType
  BY DEF Typed, NoSegments, SegmentType
<1>3. Current.session \in Sessions
  BY <1>1, HeadIs
<1>4. IF Current.session \in logs
      THEN segments' = segments /\ failures' = failures /\ notes' = notes
      ELSE /\ segments' = [segments EXCEPT ![Current.session] = NoSegments]
           /\ failures' = failures \ {Current.session}
           /\ notes' = notes \ {Current.session}
  BY DEF ApplyDiscard
<1>5. UNCHANGED <<state, printed, ops, cost, gaps, marking, recording, queued, done,
                  shutdown, batch, logs, dirty, saved, read, host, faults>>
  BY DEF ApplyDiscard, programs, queueVars
<1>6. /\ segments' \in [Sessions -> SegmentType]
      /\ \A d \in Others(Current.session) : segments'[d] = segments[d]
      /\ Current.session \notin logs => segments'[Current.session] = NoSegments
  BY <1>2, <1>3, <1>4 DEF Others
<1> QED
  BY <1>1, <1>4, <1>5, <1>6

\* The writer's map, and what it has unsynced, after an operation on a log.
Closes == logs' = logs \ {Current.session} /\ dirty' = dirty \ {Current.session}

(* An operation on a log that takes no more: what it needs and what it     *)
(* changes.                                                                *)
LEMMA AppendSkippedIs ==
    ASSUME AppendSkipped
    PROVE  /\ writer = "applying" /\ batch # <<>>
           /\ Current.op \in {"Data", "Gap", "Close"}
           /\ \/ Current.session \in failures
              \/ Current.op = "Close" /\ Current.session \notin logs
           /\ IF Current.op = "Close" THEN Closes /\ writer' = "enforcing"
              ELSE logs' = logs /\ dirty' = dirty /\ writer' = "applied"
           /\ UNCHANGED <<state, printed, ops, cost, gaps, marking, recording,
                          queued, done, shutdown, batch, failures, notes, saved,
                          segments, read, host, faults>>
BY DEF AppendSkipped, Applying, Appending, Closing, Closes, programs, queueVars, disk

\* Where there is something to append to a log that is open and has not failed.
Ready == /\ batch # <<>> /\ Current.op \in {"Data", "Gap", "Close"}
         /\ Current.session \notin failures
         /\ Current.op = "Close" /\ writer = "applying" => Current.session \in logs

LogsAfter == IF Current.op = "Close" THEN Closes
             ELSE logs' = logs /\ dirty' = dirty \cup {Current.session}

(* An item written: what it needs and what it changes.                     *)
LEMMA WriteItemIs ==
    ASSUME Typed, WriteItem
    PROVE  /\ writer \in {"applying", "rotated"} /\ Ready /\ HasRoom(Current.session)
           /\ Item \in Int
           /\ saved' \in [Sessions -> Seq(Int)]
           /\ saved'[Current.session] = Append(saved[Current.session], Item)
           /\ \A d \in Others(Current.session) : saved'[d] = saved[d]
           /\ LogsAfter
           /\ writer' = IF writer = "rotated" \/ Current.op = "Close" THEN "enforcing"
                                                                       ELSE "applied"
           /\ UNCHANGED <<state, printed, ops, cost, gaps, marking, recording,
                          queued, done, shutdown, batch, failures, notes, segments,
                          read, host, faults>>
<1>1. /\ writer \in {"applying", "rotated"} /\ Ready /\ HasRoom(Current.session)
      /\ saved' = [saved EXCEPT ![Current.session] = Append(@, Item)]
      /\ LogsAfter
      /\ writer' = IF writer = "rotated" \/ Current.op = "Close" THEN "enforcing"
                                                                  ELSE "applied"
  BY DEF WriteItem, Appending, Ready, Logs, LogsAfter, Closing, Closes
<1>2. UNCHANGED <<state, printed, ops, cost, gaps, marking, recording, queued, done,
                  shutdown, batch, failures, notes, segments, read, host, faults>>
  BY DEF WriteItem, programs, queueVars
<1>3. saved \in [Sessions -> Seq(Int)]
  BY DEF Typed
<1>4. Current.session \in Sessions /\ Current.n \in Nat
  BY <1>1, HeadIs DEF Ready
<1>5. Item \in Int
  BY <1>4 DEF Item, End
<1>6. Append(saved[Current.session], Item) \in Seq(Int)
  BY <1>3, <1>4, <1>5, AppendProperties
<1> HIDE DEF Item
<1>7. /\ saved' \in [Sessions -> Seq(Int)]
      /\ saved'[Current.session] = Append(saved[Current.session], Item)
      /\ \A d \in Others(Current.session) : saved'[d] = saved[d]
  BY <1>1, <1>3, <1>4, <1>6 DEF Others
<1> QED
  BY <1>1, <1>2, <1>5, <1>7

(* The first half of a rotation: what it needs and what it changes.        *)
LEMMA RenameIs ==
    ASSUME Typed, Rename
    PROVE  /\ writer = "applying" /\ Ready /\ ~HasRoom(Current.session)
           /\ segments' \in [Sessions -> SegmentType]
           /\ segments'[Current.session] =
                  [newest |-> segments[Current.session].newest + 1,
                   previous |-> TRUE, current |-> FALSE,
                   previousFrom |-> segments[Current.session].currentFrom,
                   currentFrom |-> Len(saved[Current.session])]
           /\ \A d \in Others(Current.session) : segments'[d] = segments[d]
           /\ LogsAfter
           /\ writer' = "renamed"
           /\ UNCHANGED <<state, printed, ops, cost, gaps, marking, recording,
                          queued, done, shutdown, batch, failures, notes, saved,
                          read, host, faults>>
<1> DEFINE s == Current.session
           g == [newest |-> segments[s].newest + 1, previous |-> TRUE, current |-> FALSE,
                 previousFrom |-> segments[s].currentFrom, currentFrom |-> Len(saved[s])]
<1>1. /\ writer = "applying" /\ Ready /\ ~HasRoom(s)
      /\ segments' = [segments EXCEPT ![s] = g]
      /\ LogsAfter
      /\ writer' = "renamed"
  BY DEF Rename, Appending, Ready, Logs, LogsAfter, Closing, Closes
<1>2. UNCHANGED <<state, printed, ops, cost, gaps, marking, recording, queued, done,
                  shutdown, batch, failures, notes, saved, read, host, faults>>
  BY DEF Rename, programs, queueVars
<1>3. segments \in [Sessions -> SegmentType] /\ saved \in [Sessions -> Seq(Int)]
  BY DEF Typed
<1>4. s \in Sessions
  BY <1>1, HeadIs DEF Ready
<1>5. g \in SegmentType
  BY <1>3, <1>4 DEF SegmentType
<1> HIDE DEF g
<1>6. /\ segments' \in [Sessions -> SegmentType] /\ segments'[s] = g
      /\ \A d \in Others(s) : segments'[d] = segments[d]
  BY <1>1, <1>3, <1>4, <1>5 DEF Others
<1> QED
  BY <1>1, <1>2, <1>6 DEF g

(* ... and the second: what it needs and what it changes.                  *)
LEMMA NewSegmentIs ==
    ASSUME Typed, NewSegment
    PROVE  /\ writer = "renamed" /\ Ready
           /\ segments' \in [Sessions -> SegmentType]
           /\ segments'[Current.session].current
           /\ segments'[Current.session].newest = segments[Current.session].newest
           /\ segments'[Current.session].previous = segments[Current.session].previous
           /\ segments'[Current.session].previousFrom = segments[Current.session].previousFrom
           /\ segments'[Current.session].currentFrom = segments[Current.session].currentFrom
           /\ \A d \in Others(Current.session) : segments'[d] = segments[d]
           /\ writer' = "rotated"
           /\ UNCHANGED <<state, printed, ops, cost, gaps, marking, recording,
                          queued, done, shutdown, batch, logs, dirty, failures,
                          notes, saved, read, host, faults>>
<1> DEFINE s == Current.session
<1>1. /\ writer = "renamed" /\ Ready /\ writer' = "rotated"
      /\ segments' = [segments EXCEPT ![s] = [@ EXCEPT !.current = TRUE]]
  BY DEF NewSegment, Appending, Ready
<1>2. UNCHANGED <<state, printed, ops, cost, gaps, marking, recording, queued, done,
                  shutdown, batch, logs, dirty, failures, notes, saved, read, host,
                  faults>>
  BY DEF NewSegment, programs, queueVars
<1>3. segments \in [Sessions -> SegmentType]
  BY DEF Typed
<1>4. s \in Sessions
  BY <1>1, HeadIs DEF Ready
<1>5. segments[s] \in SegmentType
  BY <1>3, <1>4
<1> DEFINE g == [segments[s] EXCEPT !.current = TRUE]
<1>6. /\ g \in SegmentType /\ g.current /\ g.newest = segments[s].newest
      /\ g.previous = segments[s].previous /\ g.previousFrom = segments[s].previousFrom
      /\ g.currentFrom = segments[s].currentFrom
  BY <1>5 DEF SegmentType
<1>7. segments' = [segments EXCEPT ![s] = g]
  BY <1>1
<1> HIDE DEF g
<1>8. /\ segments' \in [Sessions -> SegmentType] /\ segments'[s] = g
      /\ \A d \in Others(s) : segments'[d] = segments[d]
  BY <1>3, <1>4, <1>6, <1>7 DEF Others
<1> QED
  BY <1>1, <1>2, <1>6, <1>8

(* An append that fails: what it needs and what it changes.                *)
LEMMA AppendFailsIs ==
    ASSUME AppendFails
    PROVE  /\ writer \in {"applying", "renamed", "rotated"} /\ Ready
           /\ failures' = failures \cup {Current.session}
           /\ notes' \subseteq notes \cup {Current.session}
           /\ IF Current.op = "Close" THEN Closes /\ writer' = "enforcing"
              ELSE logs' = logs /\ dirty' = dirty /\ writer' = "applied"
           /\ UNCHANGED <<state, printed, ops, cost, gaps, marking, recording,
                          queued, done, shutdown, batch, saved, segments, read,
                          host>>
BY DEF AppendFails, Appending, Ready, Fail, Closing, Closes, programs, queueVars

\* What a sweep leaves of a session's segments.
Kept(old, new) ==
    /\ new.newest = old.newest
    /\ new.previousFrom = old.previousFrom /\ new.currentFrom = old.currentFrom
    /\ new.previous => old.previous
    /\ new.current => old.current
    /\ new.previous => new.current = old.current

(* A sweep: what it needs and what it changes.                             *)
LEMMA SweptIs ==
    ASSUME Typed, NEW gone, NEW cut, segments' = Swept(gone, cut)
    PROVE  /\ segments' \in [Sessions -> SegmentType]
           /\ \A d \in Sessions : Kept(segments[d], segments'[d])
           /\ \A d \in Sessions \ gone :
                  /\ segments'[d].current = segments[d].current
                  /\ d \notin cut => segments'[d].previous = segments[d].previous
           /\ \A d \in Sessions \cap gone : ~segments'[d].previous /\ ~segments'[d].current
<1>1. segments \in [Sessions -> SegmentType]
  BY DEF Typed
<1>2. SUFFICES ASSUME NEW d \in Sessions
      PROVE  /\ segments'[d] \in SegmentType
             /\ Kept(segments[d], segments'[d])
             /\ d \notin gone =>
                   /\ segments'[d].current = segments[d].current
                   /\ d \notin cut => segments'[d].previous = segments[d].previous
             /\ d \in gone => ~segments'[d].previous /\ ~segments'[d].current
  BY DEF Swept
<1>3. segments[d] \in SegmentType
  BY <1>1
<1>4. segments'[d] = IF d \in gone
                     THEN [segments[d] EXCEPT !.previous = FALSE, !.current = FALSE]
                     ELSE [segments[d] EXCEPT !.previous = @ /\ d \notin cut]
  BY DEF Swept
<1>5. CASE d \in gone
  BY <1>3, <1>4, <1>5 DEF SegmentType, Kept
<1>6. CASE d \notin gone
  BY <1>3, <1>4, <1>6 DEF SegmentType, Kept
<1> QED
  BY <1>5, <1>6

(* The writer after a sweep: what it needs and what it changes.            *)
LEMMA EnforceIs ==
    ASSUME Typed, Enforce
    PROVE  /\ writer = "enforcing" /\ writer' = "applied"
           /\ segments' \in [Sessions -> SegmentType]
           /\ \A d \in Sessions : Kept(segments[d], segments'[d])
           /\ \A d \in logs : segments'[d].current = segments[d].current
           /\ notes' \subseteq notes
           /\ \/ /\ read' = read
                 /\ read.at # "none" => segments'[read.session] = segments[read.session]
              \/ read.at # "none" /\ read' = [read EXCEPT !.evicted = TRUE]
           /\ UNCHANGED <<state, printed, ops, cost, gaps, marking, recording,
                          queued, done, shutdown, batch, logs, dirty, failures,
                          saved, host, faults>>
<1>1. writer = "enforcing" /\ writer' = "applied"
  BY DEF Enforce
<1>2. UNCHANGED <<state, printed, ops, cost, gaps, marking, recording, queued, done,
                  shutdown, batch, logs, dirty, failures, saved, host, faults>>
  BY DEF Enforce, programs, queueVars
<1>3. PICK gone \in SUBSET (OnDisk \ logs), cut \in SUBSET {d \in logs : segments[d].previous} :
        /\ segments' = Swept(gone, cut)
        /\ notes' = notes \ gone
        /\ read' = IF read.at # "none" /\ read.session \in gone \cup cut
                   THEN [read EXCEPT !.evicted = TRUE] ELSE read
  BY DEF Enforce, Sweep
<1>4. /\ segments' \in [Sessions -> SegmentType]
      /\ \A d \in Sessions : Kept(segments[d], segments'[d])
      /\ \A d \in Sessions \ gone :
             /\ segments'[d].current = segments[d].current
             /\ d \notin cut => segments'[d].previous = segments[d].previous
  BY <1>3, SweptIs
<1>5. logs \subseteq Sessions \ gone
  BY <1>3 DEF Typed
<1>6. segments \in [Sessions -> SegmentType]
  BY DEF Typed
<1>7. \A d \in Sessions \ (gone \cup cut) : segments'[d] = segments[d]
  <2> SUFFICES ASSUME NEW d \in Sessions \ (gone \cup cut) PROVE segments'[d] = segments[d]
    OBVIOUS
  <2>1. segments[d] \in SegmentType /\ segments'[d] \in SegmentType
    BY <1>4, <1>6
  <2>2. /\ segments'[d].newest = segments[d].newest
        /\ segments'[d].previousFrom = segments[d].previousFrom
        /\ segments'[d].currentFrom = segments[d].currentFrom
        /\ segments'[d].previous = segments[d].previous
        /\ segments'[d].current = segments[d].current
    BY <1>4 DEF Kept
  <2> QED
    BY <2>1, <2>2 DEF SegmentType
<1>8. read.at # "none" => read.session \in Sessions
  <2>1. read \in ReadType \cup {NoRead}
    BY DEF Typed
  <2>2. read = NoRead => read.at = "none"
    BY DEF NoRead
  <2>3. read \in ReadType => read.session \in Sessions
    BY DEF ReadType
  <2> QED
    BY <2>1, <2>2, <2>3
<1> QED
  BY <1>1, <1>2, <1>3, <1>4, <1>5, <1>7, <1>8

(* An operation finished: what it needs and what it changes.               *)
LEMMA AppliedIs ==
    ASSUME Typed, WriterInv, Applied
    PROVE  /\ writer = "applied" /\ writer' = "applying" /\ batch # <<>>
           /\ batch' = Tail(batch)
           /\ marking' \in [Sessions -> Int]
           /\ \A d \in Sessions : marking'[d] = marking[d] - InHand(d)
           /\ UNCHANGED <<state, printed, ops, cost, gaps, recording, queued, done,
                          shutdown, logs, dirty, failures, notes, saved, segments,
                          read, host, faults>>
<1>1. /\ writer = "applied" /\ writer' = "applying" /\ batch' = Tail(batch)
      /\ marking' = IF Current.op = "Gap"
                    THEN [marking EXCEPT ![Current.session] = @ - Current.n] ELSE marking
  BY DEF Applied
<1>2. batch # <<>>
  BY <1>1 DEF WriterInv
<1>3. Current.session \in Sessions /\ Current.n \in Nat /\ marking \in [Sessions -> Int]
  BY <1>2, HeadIs DEF Typed
<1>4. UNCHANGED <<state, printed, ops, cost, gaps, recording, queued, done,
                  shutdown, logs, dirty, failures, notes, saved, segments, read,
                  host, faults>>
  BY DEF Applied, programs, disk
<1>5. CASE Current.op = "Gap"
  BY <1>1, <1>2, <1>3, <1>4, <1>5 DEF InHand
<1>6. CASE Current.op # "Gap"
  BY <1>1, <1>2, <1>3, <1>4, <1>6 DEF InHand
<1> QED
  BY <1>5, <1>6

(* A panic: what it needs and what it changes.                             *)
LEMMA PanicIs ==
    ASSUME Panic
    PROVE  /\ writer \in {"applying", "renamed", "rotated", "enforcing"} /\ batch # <<>>
           /\ writer' = "unwinding" /\ Current.op # "Gap"
           /\ logs' = (IF Current.op = "Close" THEN logs \ {Current.session} ELSE logs)
           /\ dirty' = dirty \cap logs'
           /\ UNCHANGED <<state, printed, ops, cost, gaps, marking, recording,
                          queued, done, shutdown, batch, failures, notes, saved,
                          segments, read, host>>
BY DEF Panic, Busy, programs, queueVars, disk

(* A panic while a marker is appended: what it needs and what it changes.  *)
LEMMA PanicInMarkerIs ==
    ASSUME Typed, PanicInMarker
    PROVE  /\ writer \in {"applying", "renamed", "rotated", "enforcing"} /\ batch # <<>>
           /\ writer' = "unwinding" /\ Current.op = "Gap" /\ MarkersMayPanic
           /\ marking' \in [Sessions -> Int]
           /\ marking'[Current.session] = marking[Current.session] - Current.n
           /\ \A d \in Others(Current.session) : marking'[d] = marking[d]
           /\ UNCHANGED <<state, printed, ops, cost, gaps, recording, queued, done,
                          shutdown, batch, logs, dirty, failures, notes, saved,
                          segments, read, host>>
<1>1. /\ writer \in {"applying", "renamed", "rotated", "enforcing"} /\ batch # <<>>
      /\ writer' = "unwinding" /\ Current.op = "Gap" /\ MarkersMayPanic
      /\ marking' = [marking EXCEPT ![Current.session] = @ - Current.n]
  BY DEF PanicInMarker, Busy
<1>2. Current.session \in Sessions /\ Current.n \in Nat /\ marking \in [Sessions -> Int]
  BY <1>1, HeadIs DEF Typed
<1>3. UNCHANGED <<state, printed, ops, cost, gaps, recording, queued, done,
                  shutdown, batch, logs, dirty, failures, notes, saved, segments,
                  read, host>>
  BY DEF PanicInMarker, programs, disk
<1>4. /\ marking' \in [Sessions -> Int]
      /\ marking'[Current.session] = marking[Current.session] - Current.n
      /\ \A d \in Others(Current.session) : marking'[d] = marking[d]
  BY <1>1, <1>2 DEF Others
<1> QED
  BY <1>1, <1>3, <1>4

(* A batch abandoned: what it needs and what it changes.                   *)
LEMMA BatchFailsIs ==
    ASSUME Typed, BatchFails
    PROVE  /\ writer = "unwinding" /\ writer' = "failed"
           /\ failures \subseteq failures' /\ failures' \subseteq Sessions
           /\ \A s \in failures' \ failures : \E i \in DOMAIN batch : batch[i].session = s
           /\ \A i \in DOMAIN batch : batch[i].session \in failures'
           /\ notes' \subseteq Sessions
           /\ UNCHANGED <<state, printed, ops, cost, gaps, marking, recording,
                          queued, done, shutdown, batch, logs, dirty, saved,
                          segments, read, host, faults>>
<1>1. {batch[i].session : i \in DOMAIN batch} \subseteq Sessions
  <2>0. batch \in Seq(OpType)
    BY DEF Typed
  <2>1. \A i \in DOMAIN batch : batch[i] \in OpType
    BY <2>0
  <2> QED
    BY <2>1 DEF OpType
<1>2. UNCHANGED <<state, printed, ops, cost, gaps, marking, recording, queued, done,
                  shutdown, batch, logs, dirty, saved, segments, read, host,
                  faults>>
  BY DEF BatchFails, programs, queueVars
<1>3. failures \subseteq Sessions /\ notes \subseteq Sessions
  BY DEF Typed
<1> QED
  BY <1>1, <1>2, <1>3 DEF BatchFails, Fail

(* ... and dropped: what it needs and what it changes.                     *)
LEMMA BatchReleasedIs ==
    ASSUME Typed, WriterInv, BatchReleased
    PROVE  /\ writer = "failed" /\ writer' \in {"looking", "given up"} /\ batch # <<>>
           /\ batch' = <<>> /\ done' = queued - Len(ops)
           /\ marking' \in [Sessions -> Int]
           /\ \A d \in Sessions :
                  marking'[d] = marking[d] - GapsIn(Tail(batch), d, Len(Tail(batch)))
           /\ UNCHANGED <<state, printed, ops, cost, gaps, recording, queued,
                          shutdown, logs, dirty, failures, notes, saved, segments,
                          read, host, faults>>
<1>1. /\ writer = "failed" /\ writer' \in {"looking", "given up"} /\ batch # <<>>
      /\ batch' = <<>> /\ done' = queued - Len(ops)
      /\ marking' = [d \in Sessions |->
             marking[d] - GapsIn(Tail(batch), d, Len(batch) - 1)]
  BY DEF BatchReleased, RunAgain, WriterInv
<1>2. Tail(batch) \in Seq(OpType) /\ Len(Tail(batch)) = Len(batch) - 1
        /\ Len(Tail(batch)) \in 0..Len(Tail(batch))
  <2>1. /\ Tail(batch) \in Seq(OpType) /\ Len(Tail(batch)) = Len(batch) - 1
        /\ Len(batch) \in Nat /\ Len(batch) > 0
    BY <1>1, HeadIs
  <2>2. Len(Tail(batch)) \in 0..Len(Tail(batch))
    BY <2>1
  <2> QED
    BY <2>1, <2>2
<1>3. \A d \in Sessions : GapsIn(Tail(batch), d, Len(Tail(batch))) \in Nat
  BY <1>2, QueueNat
<1>4. marking \in [Sessions -> Int]
  BY DEF Typed
<1>5. UNCHANGED <<state, printed, ops, cost, gaps, recording, queued, shutdown,
                  logs, dirty, failures, notes, saved, segments, read, host,
                  faults>>
  BY DEF BatchReleased, programs, disk
<1>6. /\ marking' \in [Sessions -> Int]
      /\ \A d \in Sessions :
             marking'[d] = marking[d] - GapsIn(Tail(batch), d, Len(Tail(batch)))
  <2>1. marking' = [d \in Sessions |->
             marking[d] - GapsIn(Tail(batch), d, Len(Tail(batch)))]
    BY <1>1, <1>2
  <2> QED
    BY <1>3, <1>4, <2>1
<1> QED
  BY <1>1, <1>5, <1>6

(* A host that dies: what it needs and what it changes.                    *)
LEMMA HostDiesIs ==
    ASSUME Typed, HostDies
    PROVE  /\ host = 1 /\ host' = 2
           /\ state' \in [Sessions -> {"new", "running", "ended", "failed to start"}]
           /\ \A d \in Sessions : state'[d] = IF state[d] = "new" THEN "new" ELSE "ended"
           /\ ops' = <<>> /\ cost' = 0 /\ recording' = {} /\ shutdown' = FALSE
           /\ gaps' \in [Sessions -> Nat] /\ marking' \in [Sessions -> Int]
           /\ \A d \in Sessions : gaps'[d] = 0 /\ marking'[d] = 0
           /\ queued' = 0 /\ done' = 0
           /\ writer' = "looking" /\ batch' = <<>> /\ logs' = {} /\ dirty' = {}
           /\ failures' = {}
           /\ segments' \in [Sessions -> SegmentType]
           /\ \A d \in Sessions : Kept(segments[d], segments'[d])
           /\ notes' \subseteq notes /\ read' = NoRead
           /\ UNCHANGED <<printed, saved, faults>>
<1>1. /\ host = 1 /\ host' = 2
      /\ state' = [d \in Sessions |-> IF state[d] = "new" THEN "new" ELSE "ended"]
      /\ ops' = <<>> /\ cost' = 0 /\ recording' = {} /\ shutdown' = FALSE
      /\ gaps' = [d \in Sessions |-> 0] /\ marking' = [d \in Sessions |-> 0]
      /\ queued' = 0 /\ done' = 0
      /\ writer' = "looking" /\ batch' = <<>> /\ logs' = {} /\ dirty' = {}
      /\ failures' = {}
      /\ read' = NoRead
      /\ UNCHANGED <<printed, saved, faults>>
  BY DEF HostDies
<1>2. PICK gone \in SUBSET OnDisk : segments' = Swept(gone, {}) /\ notes' = notes \ gone
  BY DEF HostDies
<1>3. /\ segments' \in [Sessions -> SegmentType]
      /\ \A d \in Sessions : Kept(segments[d], segments'[d])
  BY <1>2, SweptIs
<1>4. /\ state' \in [Sessions -> {"new", "running", "ended", "failed to start"}]
      /\ \A d \in Sessions : state'[d] = IF state[d] = "new" THEN "new" ELSE "ended"
  BY <1>1
<1>5. /\ gaps' \in [Sessions -> Nat] /\ marking' \in [Sessions -> Int]
      /\ \A d \in Sessions : gaps'[d] = 0 /\ marking'[d] = 0
  BY <1>1
<1> QED
  BY <1>1, <1>2, <1>3, <1>4, <1>5

Points == {"settling", "settled", "looked", "opening", "half open", "open", "found",
           "missing", "unreadable"}

(* A read record with one field set is a read record.                      *)
LEMMA ReadSet ==
    ASSUME NEW r \in ReadType
    PROVE  /\ \A a \in Points : [r EXCEPT !.at = a] \in ReadType
           /\ \A a \in BOOLEAN : /\ [r EXCEPT !.settled = a] \in ReadType
                                 /\ [r EXCEPT !.live = a] \in ReadType
                                 /\ [r EXCEPT !.error = a] \in ReadType
                                 /\ [r EXCEPT !.evicted = a] \in ReadType
           /\ \A a \in Nat : [r EXCEPT !.unrecorded = a] \in ReadType
           /\ \A a \in FileType : /\ [r EXCEPT !.previous = a] \in ReadType
                                  /\ [r EXCEPT !.current = a] \in ReadType
<1>1. \A a \in Points : [r EXCEPT !.at = a] \in ReadType
  BY DEF ReadType, Points
<1>2. \A a \in BOOLEAN : [r EXCEPT !.settled = a] \in ReadType
  BY DEF ReadType
<1>3. \A a \in BOOLEAN : [r EXCEPT !.live = a] \in ReadType
  BY DEF ReadType
<1>4. \A a \in BOOLEAN : [r EXCEPT !.error = a] \in ReadType
  BY DEF ReadType
<1>5. \A a \in BOOLEAN : [r EXCEPT !.evicted = a] \in ReadType
  BY DEF ReadType
<1>6. \A a \in Nat : [r EXCEPT !.unrecorded = a] \in ReadType
  BY DEF ReadType
<1>7. \A a \in FileType : [r EXCEPT !.previous = a] \in ReadType
  BY DEF ReadType
<1>8. \A a \in FileType : [r EXCEPT !.current = a] \in ReadType
  BY DEF ReadType
<1> QED
  BY <1>1, <1>2, <1>3, <1>4, <1>5, <1>6, <1>7, <1>8

\* A read that goes on: what was asked stays, and but for `at` all that a step
\* does not say it changes.
GoesOn(fields) ==
    /\ read \in ReadType /\ read' \in ReadType
    /\ read'.session = read.session /\ read'.target = read.target /\ read'.owed = read.owed
    /\ read'.evicted = read.evicted
    /\ "settled" \notin fields => read'.settled = read.settled
    /\ "live" \notin fields => read'.live = read.live /\ read'.unrecorded = read.unrecorded
    /\ "error" \notin fields => read'.error = read.error
    /\ "previous" \notin fields => read'.previous = read.previous
    /\ "current" \notin fields => read'.current = read.current

(* A read that was asked is a read record.                                 *)
LEMMA ReadTyped ==
    ASSUME Typed, read.at # "none" PROVE read \in ReadType /\ read.session \in Sessions
<1>1. read \in ReadType \cup {NoRead} /\ NoRead.at = "none"
  BY DEF Typed, NoRead
<1>2. read \in ReadType
  BY <1>1
<1> QED
  BY <1>2 DEF ReadType

(* A read changes nothing but itself.                                      *)
LEMMA ReadUnread ==
    ASSUME Read \/ \E s \in Sessions : Ask(s)
    PROVE  UNCHANGED <<state, printed, ops, cost, gaps, marking, recording, queued,
                       done, shutdown, writer, batch, logs, dirty, failures, notes,
                       saved, segments, host, faults>>
<1>1. UNCHANGED unread
  BY DEF Read, Settle, SettleTimesOut, Settled, LookAtQueue, LookForFailure,
         OpenPrevious, OpenCurrent, ReadAgain, ReadFound, ReadReturns, Ask
<1> QED
  BY <1>1 DEF unread, programs, queueVars, disk

(* A read asked: what it needs and what it changes.                        *)
LEMMA AskIs ==
    ASSUME Typed, NEW s \in Sessions, Ask(s)
    PROVE  /\ state[s] # "new"
           /\ read' \in ReadType
           /\ read'.at = "settling" /\ read'.session = s /\ read'.target = queued
           /\ read'.owed = printed[s]
<1>1. /\ printed[s] \in Nat /\ queued \in Nat
  BY DEF Typed
<1>2. /\ state[s] # "new"
      /\ read' = [at |-> "settling", session |-> s, target |-> queued, owed |-> printed[s],
                  evicted |-> FALSE, settled |-> FALSE, live |-> FALSE, unrecorded |-> 0,
                  error |-> FALSE, previous |-> NoFile, current |-> NoFile]
  BY DEF Ask
<1>3. NoFile \in FileType
  BY DEF NoFile, FileType
<1>4. read' \in ReadType
  BY <1>1, <1>2, <1>3 DEF ReadType
<1> QED
  BY <1>2, <1>4

(* A read that waited for the writer, in time or not.                      *)
LEMMA SettledIs ==
    ASSUME Typed, NEW b \in BOOLEAN, Settled(b)
    PROVE  /\ read.at = "settling" /\ read'.at = "settled"
           /\ (read'.settled <=> done >= read.target)
           /\ GoesOn({"settled"})
<1>1. /\ read.at = "settling" /\ (b <=> done >= read.target)
      /\ read' = [[read EXCEPT !.at = "settled"] EXCEPT !.settled = b]
  BY DEF Settled
<1>2. read \in ReadType
  BY <1>1, ReadTyped
<1>3. [read EXCEPT !.at = "settled"] \in ReadType
  BY <1>2, ReadSet DEF Points
<1>4. read' \in ReadType
  BY <1>1, <1>3, ReadSet
<1>5. read'.at = "settled" /\ read'.settled = b
  BY <1>1, <1>2 DEF ReadType
<1>6. GoesOn({"settled"})
  BY <1>1, <1>2, <1>4 DEF GoesOn, ReadType
<1> QED
  BY <1>1, <1>5, <1>6

(* A read that looked at the queue: what it needs and what it changes.     *)
LEMMA LookAtQueueIs ==
    ASSUME Typed, \A s \in Sessions : marking[s] \in Nat, LookAtQueue
    PROVE  /\ read.at = "settled" /\ read'.at = "looked"
           /\ (read'.live <=> read.session \in recording)
           /\ read'.unrecorded = gaps[read.session] + marking[read.session]
           /\ GoesOn({"live"})
<1> DEFINE b == read.session \in recording
           n == gaps[read.session] + marking[read.session]
<1>1. /\ read.at = "settled"
      /\ read' = [[[read EXCEPT !.at = "looked"] EXCEPT !.live = b] EXCEPT !.unrecorded = n]
  BY DEF LookAtQueue
<1>2. read \in ReadType /\ read.session \in Sessions
  BY <1>1, ReadTyped
<1>3. n \in Nat /\ b \in BOOLEAN
  <2>1. gaps \in [Sessions -> Nat]
    BY DEF Typed
  <2>2. gaps[read.session] \in Nat /\ marking[read.session] \in Nat
    BY <1>2, <2>1
  <2>3. b \in BOOLEAN
    OBVIOUS
  <2> QED
    BY <2>2, <2>3
<1> HIDE DEF b, n
<1>4. [read EXCEPT !.at = "looked"] \in ReadType
  BY <1>2, ReadSet DEF Points
<1>5. [[read EXCEPT !.at = "looked"] EXCEPT !.live = b] \in ReadType
  BY <1>3, <1>4, ReadSet
<1>6. read' \in ReadType
  BY <1>1, <1>3, <1>5, ReadSet
<1>7. read'.at = "looked" /\ read'.live = b /\ read'.unrecorded = n
  BY <1>1, <1>2 DEF ReadType
<1>8. GoesOn({"live"})
  BY <1>1, <1>2, <1>6 DEF GoesOn, ReadType
<1> QED
  BY <1>1, <1>7, <1>8 DEF b, n

(* A read that looked for a failure: what it needs and what it changes.    *)
LEMMA LookForFailureIs ==
    ASSUME Typed, LookForFailure
    PROVE  /\ read.at = "looked" /\ read'.at = "opening"
           /\ read.session \in failures => read'.error
           /\ GoesOn({"error"})
<1> DEFINE b == read.session \in failures \cup IF read.live THEN {} ELSE notes
<1>1. /\ read.at = "looked"
      /\ read' = [[read EXCEPT !.at = "opening"] EXCEPT !.error = b]
  BY DEF LookForFailure
<1>2. read \in ReadType
  BY <1>1, ReadTyped
<1>3. b \in BOOLEAN /\ (read.session \in failures => b)
  OBVIOUS
<1> HIDE DEF b
<1>4. [read EXCEPT !.at = "opening"] \in ReadType
  BY <1>2, ReadSet DEF Points
<1>5. read' \in ReadType
  BY <1>1, <1>3, <1>4, ReadSet
<1>6. read'.at = "opening" /\ read'.error = b
  BY <1>1, <1>2 DEF ReadType
<1>7. GoesOn({"error"})
  BY <1>1, <1>2, <1>5 DEF GoesOn, ReadType
<1> QED
  BY <1>1, <1>3, <1>6, <1>7

(* A read that opened the previous segment: what it needs and what it      *)
(* changes.                                                                *)
LEMMA OpenPreviousIs ==
    ASSUME Typed, \A s \in Sessions : segments[s].previous => segments[s].newest > 1,
           OpenPrevious
    PROVE  /\ read.at = "opening" /\ read'.at = "half open"
           /\ read'.previous = Opened(segments[read.session].previous,
                                      segments[read.session].newest - 1,
                                      segments[read.session].previousFrom,
                                      segments[read.session].currentFrom)
           /\ GoesOn({"previous"})
<1> DEFINE f == Opened(segments[read.session].previous, segments[read.session].newest - 1,
                       segments[read.session].previousFrom, segments[read.session].currentFrom)
<1>1. /\ read.at = "opening"
      /\ read' = [[read EXCEPT !.at = "half open"] EXCEPT !.previous = f]
  BY DEF OpenPrevious
<1>2. read \in ReadType /\ read.session \in Sessions
  BY <1>1, ReadTyped
<1>3. f \in FileType
  <2>1. segments[read.session] \in SegmentType
    BY <1>2 DEF Typed
  <2>2. segments[read.session].previous => segments[read.session].newest - 1 \in Nat
    BY <1>2, <2>1 DEF SegmentType
  <2>3. /\ segments[read.session].previousFrom \in Nat
        /\ segments[read.session].currentFrom \in Nat
    BY <2>1 DEF SegmentType
  <2> QED
    BY <2>2, <2>3 DEF Opened, FileType, NoFile
<1> HIDE DEF f
<1>4. [read EXCEPT !.at = "half open"] \in ReadType
  BY <1>2, ReadSet DEF Points
<1>5. read' \in ReadType
  BY <1>1, <1>3, <1>4, ReadSet
<1>6. read'.at = "half open" /\ read'.previous = f
  BY <1>1, <1>2 DEF ReadType
<1>7. GoesOn({"previous"})
  BY <1>1, <1>2, <1>5 DEF GoesOn, ReadType
<1> QED
  BY <1>1, <1>6, <1>7 DEF f

(* ... and the current one: what it needs and what it changes.             *)
LEMMA OpenCurrentIs ==
    ASSUME Typed, OpenCurrent
    PROVE  /\ read.at = "half open" /\ read'.at = "open"
           /\ read'.current = Opened(segments[read.session].current,
                                     segments[read.session].newest,
                                     segments[read.session].currentFrom,
                                     Len(saved[read.session]))
           /\ GoesOn({"current"})
<1> DEFINE f == Opened(segments[read.session].current, segments[read.session].newest,
                       segments[read.session].currentFrom, Len(saved[read.session]))
<1>1. /\ read.at = "half open"
      /\ read' = [[read EXCEPT !.at = "open"] EXCEPT !.current = f]
  BY DEF OpenCurrent
<1>2. read \in ReadType /\ read.session \in Sessions
  BY <1>1, ReadTyped
<1>3. f \in FileType
  <2>1. segments[read.session] \in SegmentType /\ saved[read.session] \in Seq(Int)
    BY <1>2 DEF Typed
  <2>2. /\ segments[read.session].newest \in Nat
        /\ segments[read.session].currentFrom \in Nat
        /\ Len(saved[read.session]) \in Nat
    BY <2>1 DEF SegmentType
  <2> QED
    BY <2>2 DEF Opened, FileType, NoFile
<1> HIDE DEF f
<1>4. [read EXCEPT !.at = "open"] \in ReadType
  BY <1>2, ReadSet DEF Points
<1>5. read' \in ReadType
  BY <1>1, <1>3, <1>4, ReadSet
<1>6. read'.at = "open" /\ read'.current = f
  BY <1>1, <1>2 DEF ReadType
<1>7. GoesOn({"current"})
  BY <1>1, <1>2, <1>5 DEF GoesOn, ReadType
<1> QED
  BY <1>1, <1>6, <1>7 DEF f

(* A read that begins again: what it needs and what it changes.            *)
LEMMA ReadAgainIs ==
    ASSUME Typed, ReadAgain
    PROVE  /\ read.at = "open" /\ read'.at \in {"opening", "unreadable"}
           /\ read'.previous = NoFile /\ read'.current = NoFile
           /\ GoesOn({"previous", "current"})
<1>1. PICK at \in {"opening", "unreadable"} :
        /\ read.at = "open"
        /\ read' = [[[read EXCEPT !.at = at] EXCEPT !.previous = NoFile]
                                             EXCEPT !.current = NoFile]
  BY DEF ReadAgain
<1>2. read \in ReadType
  BY <1>1, ReadTyped
<1>3. NoFile \in FileType /\ at \in Points
  BY DEF NoFile, FileType, Points
<1>4. [read EXCEPT !.at = at] \in ReadType
  BY <1>2, <1>3, ReadSet
<1>5. [[read EXCEPT !.at = at] EXCEPT !.previous = NoFile] \in ReadType
  BY <1>3, <1>4, ReadSet
<1>6. read' \in ReadType
  BY <1>1, <1>3, <1>5, ReadSet
<1>7. read'.at = at /\ read'.previous = NoFile /\ read'.current = NoFile
  BY <1>1, <1>2 DEF ReadType
<1>8. GoesOn({"previous", "current"})
  BY <1>1, <1>2, <1>6 DEF GoesOn, ReadType
<1> QED
  BY <1>1, <1>7, <1>8

(* A read that has its answer: what it needs and what it changes.          *)
LEMMA ReadFoundIs ==
    ASSUME Typed, ReadFound
    PROVE  /\ read.at = "open" /\ BothCurrent
           /\ read'.at = (IF read.previous.file # 0 \/ read.current.file # 0 THEN "found"
                          ELSE IF read.error THEN "unreadable" ELSE "missing")
           /\ GoesOn({})
<1> DEFINE at == IF read.previous.file # 0 \/ read.current.file # 0 THEN "found"
                 ELSE IF read.error THEN "unreadable" ELSE "missing"
<1>1. read.at = "open" /\ BothCurrent /\ read' = [read EXCEPT !.at = at]
  BY DEF ReadFound
<1>2. read \in ReadType
  BY <1>1, ReadTyped
<1>3. at \in Points
  BY DEF Points
<1> HIDE DEF at
<1>4. read' \in ReadType
  BY <1>1, <1>2, <1>3, ReadSet
<1>5. read'.at = at
  BY <1>1, <1>2 DEF ReadType
<1>6. GoesOn({})
  BY <1>1, <1>2, <1>4 DEF GoesOn, ReadType
<1> QED
  BY <1>1, <1>5, <1>6 DEF at

(* No step of the reader spoils the read record.                           *)
LEMMA ReadIs ==
    ASSUME Typed, Read \/ \E s \in Sessions : Ask(s),
           \A s \in Sessions : marking[s] \in Nat,
           \A s \in Sessions : segments[s].previous => segments[s].newest > 1
    PROVE  read' \in ReadType \cup {NoRead}
<1>1. ASSUME NEW s \in Sessions, Ask(s) PROVE read' \in ReadType
  BY <1>1, AskIs
<1>2. CASE Settle \/ SettleTimesOut
  BY <1>2, SettledIs DEF Settle, SettleTimesOut, GoesOn
<1>3. CASE LookAtQueue
  BY <1>3, LookAtQueueIs DEF GoesOn
<1>4. CASE LookForFailure
  BY <1>4, LookForFailureIs DEF GoesOn
<1>5. CASE OpenPrevious
  BY <1>5, OpenPreviousIs DEF GoesOn
<1>6. CASE OpenCurrent
  BY <1>6, OpenCurrentIs DEF GoesOn
<1>7. CASE ReadAgain
  BY <1>7, ReadAgainIs DEF GoesOn
<1>8. CASE ReadFound
  BY <1>8, ReadFoundIs DEF GoesOn
<1>9. CASE ReadReturns
  BY <1>9 DEF ReadReturns
<1> QED
  BY <1>1, <1>2, <1>3, <1>4, <1>5, <1>6, <1>7, <1>8, <1>9 DEF Read

-----------------------------------------------------------------------------
(* What is left of the batch.                                              *)

(* What is left of a batch is a queue too.                                 *)
LEMMA RestIs ==
    ASSUME Typed, WriterInv
    PROVE  /\ Rest \in Seq(OpType) /\ Len(Rest) \in Nat
           /\ Written => batch # <<>> /\ Rest = Tail(batch)
           /\ ~Written => Rest = batch
<1>1. batch \in Seq(OpType)
  BY DEF Typed
<1>2. Written => batch # <<>>
  BY DEF WriterInv, Written
<1> QED
  BY <1>1, <1>2 DEF Rest

\* A step that leaves the writer where it is.
Still == /\ batch' = batch
         /\ writer' = writer \/ (writer = "waiting" /\ writer' = "looking")

(* Nothing about the batch changes where the writer stays.                 *)
LEMMA StillIs ==
    ASSUME Still
    PROVE  /\ Rest' = Rest /\ Current' = Current /\ (Written' <=> Written)
           /\ \A s : InHand(s)' = InHand(s) /\ (Interrupted(s)' <=> Interrupted(s))
BY DEF Still, Rest, Written, Current, InHand, Interrupted

\* The head of the batch is put in a log or given up.
Leaves == /\ writer \in {"applying", "renamed", "rotated"} /\ batch # <<>> /\ batch' = batch
          /\ writer' \in {"enforcing", "applied", "unwinding"}

(* When the head is put in a log or given up, the rest of the batch is     *)
(* left.                                                                   *)
LEMMA LeavesIs ==
    ASSUME Leaves
    PROVE  /\ Rest = batch /\ Rest' = Tail(batch) /\ Current' = Current
           /\ ~Written /\ Written'
           /\ \A s : InHand(s) = 0 /\ ~Interrupted(s)
           /\ \A s : InHand(s)' = IF writer' # "unwinding" THEN GapOf(Current, s) ELSE 0
BY DEF Leaves, Rest, Written, Current, InHand, Interrupted, GapOf

(* Every part of the sums that account for a session is a natural number.  *)
LEMMA SumsAreNat ==
    ASSUME Typed, WriterInv
    PROVE  /\ \A s \in Sessions :
               /\ GapsLeft(s) \in Nat /\ WeightLeft(s) \in Nat /\ GapsLeft(s) <= WeightLeft(s)
               /\ GapsQueued(s) \in Nat /\ WeightQueued(s) \in Nat /\ GapsQueued(s) <= WeightQueued(s)
               /\ InLog(s) \in Nat /\ InHand(s) \in Nat
<1> SUFFICES ASSUME NEW s \in Sessions
             PROVE /\ GapsLeft(s) \in Nat /\ WeightLeft(s) \in Nat /\ GapsLeft(s) <= WeightLeft(s)
                   /\ GapsQueued(s) \in Nat /\ WeightQueued(s) \in Nat /\ GapsQueued(s) <= WeightQueued(s)
                   /\ InLog(s) \in Nat /\ InHand(s) \in Nat
  OBVIOUS
<1>1. Rest \in Seq(OpType) /\ Len(Rest) \in 0..Len(Rest)
  BY RestIs
<1>2. ops \in Seq(OpType) /\ Len(ops) \in 0..Len(ops)
  <2>1. ops \in Seq(OpType)
    BY DEF Typed
  <2> QED
    BY <2>1
<1>3. saved[s] \in Seq(Int) /\ Len(saved[s]) \in 0..Len(saved[s])
  <2>1. saved[s] \in Seq(Int)
    BY DEF Typed
  <2> QED
    BY <2>1
<1>4. GapsLeft(s) \in Nat /\ WeightLeft(s) \in Nat /\ GapsLeft(s) <= WeightLeft(s)
  BY <1>1, QueueNat DEF GapsLeft, WeightLeft
<1>5. GapsQueued(s) \in Nat /\ WeightQueued(s) \in Nat /\ GapsQueued(s) <= WeightQueued(s)
  BY <1>2, QueueNat DEF GapsQueued, WeightQueued
<1>6. InLog(s) \in Nat
  <2>1. Covered(saved[s], Len(saved[s])) \in Nat
    BY <1>3, LogNat
  <2> QED
    BY <2>1 DEF InLog
<1>7. InHand(s) \in Nat
  <2>1. writer \in {"enforcing", "applied"} => batch # <<>>
    BY DEF WriterInv
  <2> QED
    BY <2>1, HeadIs DEF InHand
<1> QED
  BY <1>4, <1>5, <1>6, <1>7

(* What leaves the batch is the weight of its head.                        *)
LEMMA LeavesSums ==
    ASSUME Typed, Leaves, NEW s
    PROVE  /\ GapsLeft(s) = GapOf(Current, s) + GapsLeft(s)'
           /\ WeightLeft(s) = WeightOf(Current, s) + WeightLeft(s)'
<1>1. batch \in Seq(OpType) /\ batch # <<>>
  BY DEF Typed, Leaves
<1>2. Current = batch[1] /\ Len(Tail(batch)) = Len(batch) - 1 /\ Len(Tail(batch)) + 1 = Len(batch)
        /\ Len(Tail(batch)) \in 0..Len(batch) - 1
  <2>1. Current = batch[1] /\ Len(batch) \in Nat /\ Len(batch) > 0 /\ Len(Tail(batch)) = Len(batch) - 1
    BY <1>1, HeadIs
  <2> QED
    BY <2>1
<1>3. /\ Weight(batch, s, Len(Tail(batch)) + 1)
            = WeightOf(batch[1], s) + Weight(Tail(batch), s, Len(Tail(batch)))
      /\ GapsIn(batch, s, Len(Tail(batch)) + 1)
            = GapOf(batch[1], s) + GapsIn(Tail(batch), s, Len(Tail(batch)))
  BY <1>1, <1>2, QueueTail
<1>4. Rest = batch /\ Rest' = Tail(batch)
  BY LeavesIs
<1> QED
  BY <1>2, <1>3, <1>4 DEF GapsLeft, WeightLeft

(* An operation that joins the queue adds its weight.                      *)
LEMMA JoinsSums ==
    ASSUME Typed, Joins(1), NEW o, ops'[Len(ops) + 1] = o, NEW s
    PROVE  /\ \A n \in 0..Len(ops) : Weight(ops', s, n) = Weight(ops, s, n)
           /\ Weight(ops', s, Len(ops) + 1) = WeightQueued(s) + WeightOf(o, s)
           /\ WeightQueued(s)' = WeightQueued(s) + WeightOf(o, s)
           /\ GapsQueued(s)' = GapsQueued(s) + GapOf(o, s)
<1>1. /\ ops \in Seq(OpType) /\ ops' \in Seq(OpType) /\ Len(ops) \in Nat
      /\ Len(ops') = Len(ops) + 1 /\ Len(ops) < Len(ops')
      /\ \A i \in 1..Len(ops) : ops'[i] = ops[i]
  <2>1. ops \in Seq(OpType) /\ ops' \in Seq(OpType) /\ Len(ops') = Len(ops) + 1
        /\ \A i \in 1..Len(ops) : ops'[i] = ops[i]
    BY DEF Typed, Joins
  <2>2. Len(ops) \in Nat
    BY <2>1
  <2> QED
    BY <2>1, <2>2
<1>2. \A n \in 0..Len(ops) : /\ Weight(ops', s, n) = Weight(ops, s, n)
                             /\ GapsIn(ops', s, n) = GapsIn(ops, s, n)
  <2> SUFFICES ASSUME NEW n \in 0..Len(ops)
               PROVE  Weight(ops', s, n) = Weight(ops, s, n) /\ GapsIn(ops', s, n) = GapsIn(ops, s, n)
    OBVIOUS
  <2>1. n \in Nat /\ n <= Len(ops) /\ n <= Len(ops') /\ \A i \in 1..n : ops'[i] = ops[i]
    BY <1>1
  <2> QED
    BY <1>1, <2>1, QueueSame
<1>3. /\ Weight(ops', s, Len(ops) + 1) = Weight(ops', s, Len(ops)) + WeightOf(o, s)
      /\ GapsIn(ops', s, Len(ops) + 1) = GapsIn(ops', s, Len(ops)) + GapOf(o, s)
  BY <1>1, QueueNext
<1>4. /\ Weight(ops', s, Len(ops)) = WeightQueued(s) /\ GapsIn(ops', s, Len(ops)) = GapsQueued(s)
  BY <1>1, <1>2 DEF WeightQueued, GapsQueued
<1>5. WeightQueued(s)' = Weight(ops', s, Len(ops) + 1) /\ GapsQueued(s)' = GapsIn(ops', s, Len(ops) + 1)
  BY <1>1 DEF WeightQueued, GapsQueued
<1> QED
  BY <1>2, <1>3, <1>4, <1>5

(* ... and with the marker of an earlier gap, what was dropped as well.    *)
LEMMA MarkedSums ==
    ASSUME Typed, NEW c \in Sessions, NEW o, Joins(MarkerLen(c) + 1),
           ops'[Len(ops) + MarkerLen(c) + 1] = o,
           gaps[c] > 0 => ops'[Len(ops) + 1] = Op("Gap", c, gaps[c]), NEW s
    PROVE  /\ \A n \in 0..Len(ops) : Weight(ops', s, n) = Weight(ops, s, n)
           /\ WeightQueued(s)' = WeightQueued(s) + (IF s = c THEN gaps[c] ELSE 0) + WeightOf(o, s)
           /\ GapsQueued(s)' = GapsQueued(s) + (IF s = c THEN gaps[c] ELSE 0) + GapOf(o, s)
           /\ Weight(ops', s, Len(ops')) = WeightQueued(s)'
<1>0. gaps[c] \in Nat
  BY DEF Typed
<1>1. CASE ~(gaps[c] > 0)
  <2>1. MarkerLen(c) = 0 /\ gaps[c] = 0
    BY <1>0, <1>1 DEF MarkerLen
  <2>2. MarkerLen(c) + 1 = 1
    BY <2>1
  <2>2a. Joins(1)
    BY <2>2
  <2>3. Len(ops) \in Nat
    <3>1. ops \in Seq(OpType)
      BY DEF Typed
    <3> QED
      BY <3>1
  <2>4. ops'[Len(ops) + 1] = o
    BY <2>1, <2>3
  <2>5. /\ \A n \in 0..Len(ops) : Weight(ops', s, n) = Weight(ops, s, n)
        /\ WeightQueued(s)' = WeightQueued(s) + WeightOf(o, s)
        /\ GapsQueued(s)' = GapsQueued(s) + GapOf(o, s)
    BY <2>2a, <2>4, JoinsSums
  <2>6. WeightQueued(s) \in Int /\ GapsQueued(s) \in Int
    <3>1. ops \in Seq(OpType) /\ Len(ops) \in 0..Len(ops)
      <4>1. ops \in Seq(OpType)
        BY DEF Typed
      <4> QED
        BY <2>3, <4>1
    <3> QED
      BY <3>1, QueueNat DEF WeightQueued, GapsQueued
  <2>7. /\ WeightQueued(s) + (IF s = c THEN gaps[c] ELSE 0) = WeightQueued(s)
        /\ GapsQueued(s) + (IF s = c THEN gaps[c] ELSE 0) = GapsQueued(s)
    BY <2>1, <2>6
  <2>8. Weight(ops', s, Len(ops')) = WeightQueued(s)'
    BY DEF WeightQueued
  <2> QED
    BY <2>5, <2>7, <2>8
<1>2. CASE gaps[c] > 0
  <2>1. MarkerLen(c) = 1
    BY <1>2 DEF MarkerLen
  <2>2. ops \in Seq(OpType) /\ ops' \in Seq(OpType) /\ Len(ops') = Len(ops) + 2
        /\ \A i \in 1..Len(ops) : ops'[i] = ops[i]
    <3>1. MarkerLen(c) + 1 = 2
      BY <2>1
    <3>2. Joins(2)
      BY <3>1
    <3> QED
      BY <3>2 DEF Typed, Joins
  <2>3. Len(ops) \in Nat /\ Len(ops) + 1 < Len(ops') /\ Len(ops) < Len(ops')
        /\ (Len(ops) + 1) + 1 = Len(ops') /\ Len(ops) + 1 \in Nat
    BY <2>2
  <2>4. ops'[Len(ops) + 1] = Op("Gap", c, gaps[c]) /\ ops'[(Len(ops) + 1) + 1] = o
    BY <1>2, <2>1, <2>3
  <2>5. \A n \in 0..Len(ops) : /\ Weight(ops', s, n) = Weight(ops, s, n)
                               /\ GapsIn(ops', s, n) = GapsIn(ops, s, n)
    <3> SUFFICES ASSUME NEW n \in 0..Len(ops)
                 PROVE  Weight(ops', s, n) = Weight(ops, s, n) /\ GapsIn(ops', s, n) = GapsIn(ops, s, n)
      OBVIOUS
    <3>1. n \in Nat /\ n <= Len(ops) /\ n <= Len(ops') /\ \A i \in 1..n : ops'[i] = ops[i]
      BY <2>2, <2>3
    <3> QED
      BY <2>2, <3>1, QueueSame
  <2>6. /\ Weight(ops', s, Len(ops) + 1)
              = Weight(ops', s, Len(ops)) + WeightOf(ops'[Len(ops) + 1], s)
        /\ GapsIn(ops', s, Len(ops) + 1)
              = GapsIn(ops', s, Len(ops)) + GapOf(ops'[Len(ops) + 1], s)
    BY <2>2, <2>3, QueueNext
  <2>7. /\ Weight(ops', s, (Len(ops) + 1) + 1) = Weight(ops', s, Len(ops) + 1) + WeightOf(o, s)
        /\ GapsIn(ops', s, (Len(ops) + 1) + 1) = GapsIn(ops', s, Len(ops) + 1) + GapOf(o, s)
    BY <2>2, <2>3, <2>4, QueueNext
  <2>8. /\ WeightOf(ops'[Len(ops) + 1], s) = (IF s = c THEN gaps[c] ELSE 0)
        /\ GapOf(ops'[Len(ops) + 1], s) = (IF s = c THEN gaps[c] ELSE 0)
    BY <2>4 DEF WeightOf, GapOf, Op
  <2>9. /\ Weight(ops', s, Len(ops)) = WeightQueued(s) /\ GapsIn(ops', s, Len(ops)) = GapsQueued(s)
    BY <2>3, <2>5 DEF WeightQueued, GapsQueued
  <2>10. /\ WeightQueued(s)' = Weight(ops', s, (Len(ops) + 1) + 1)
         /\ GapsQueued(s)' = GapsIn(ops', s, (Len(ops) + 1) + 1)
         /\ Weight(ops', s, Len(ops')) = WeightQueued(s)'
    BY <2>3 DEF WeightQueued, GapsQueued
  <2> QED
    BY <2>5, <2>6, <2>7, <2>8, <2>9, <2>10
<1> QED
  BY <1>1, <1>2

(* An empty queue weighs nothing.                                          *)
LEMMA EmptySums ==
    ASSUME NEW s
    PROVE  Len(<<>>) = 0 /\ Weight(<<>>, s, Len(<<>>)) = 0 /\ GapsIn(<<>>, s, Len(<<>>)) = 0
<1>1. <<>> \in Seq(OpType) /\ Len(<<>>) = 0
  OBVIOUS
<1>2. Weight(<<>>, s, 0) = 0 /\ GapsIn(<<>>, s, 0) = 0
  BY <1>1, QueueNone
<1> QED
  BY <1>1, <1>2

(* ... be it what is left of the batch or what is queued.                  *)
LEMMA NothingLeft ==
    ASSUME NEW s
    PROVE  /\ Rest = <<>> => GapsLeft(s) = 0 /\ WeightLeft(s) = 0
           /\ ops = <<>> => GapsQueued(s) = 0 /\ WeightQueued(s) = 0
<1>1. <<>> \in Seq(OpType) /\ Len(<<>>) = 0
  OBVIOUS
<1>2. Weight(<<>>, s, 0) = 0 /\ GapsIn(<<>>, s, 0) = 0
  BY <1>1, QueueNone
<1> QED
  BY <1>1, <1>2 DEF GapsLeft, WeightLeft, GapsQueued, WeightQueued

Ends(s, now) == /\ now \in {"ended", "failed to start"} /\ Close(s, now)
                /\ now = "failed to start" => printed[s] = 0

Reads == Read \/ \E s \in Sessions : Ask(s)

(* The steps of the specification, one by one.                             *)
LEMMA Steps ==
    ASSUME [Next]_vars
    PROVE  \/ UNCHANGED vars \/ Shutdown \/ TakeBatch \/ (Wait \/ SyncIdle \/ Stopped \/ BatchDone)
           \/ ApplyOpen \/ ApplyDiscard \/ AppendSkipped \/ WriteItem \/ Rename \/ NewSegment
           \/ AppendFails \/ Enforce \/ Applied \/ Panic \/ PanicInMarker \/ BatchFails
           \/ BatchReleased \/ HostDies \/ Reads
           \/ \E s \in Sessions : \/ Arm(s) \/ DropChunk(s) \/ KeepChunk(s) \/ Discard(s)
                                  \/ \E now : Ends(s, now)
<1>1. ASSUME NEW s \in Sessions, EndSession(s) \/ FailToStart(s) PROVE \E now : Ends(s, now)
  <2>1. EndSession(s) => Ends(s, "ended")
    BY DEF EndSession, Ends
  <2>2. FailToStart(s) => Ends(s, "failed to start")
    BY DEF FailToStart, Ends
  <2> QED
    BY <1>1, <2>1, <2>2
<1> QED
  BY <1>1 DEF Next, Writer, Reads

(* A session ends or fails to start: a Close all the same.                 *)
LEMMA EndsIs ==
    ASSUME Typed, NEW s \in Sessions, NEW now, Ends(s, now)
    PROVE  /\ now \in {"ended", "failed to start"}
           /\ now = "failed to start" => printed[s] = 0
           /\ Close(s, now)
BY DEF Ends

(* A stutter changes no variable.                                          *)
LEMMA VarsSame == ASSUME UNCHANGED vars PROVE UNCHANGED <<state, printed, ops, cost,
                                                          gaps, marking, recording,
                                                          queued, done, shutdown,
                                                          writer, batch, logs,
                                                          dirty, failures, notes,
                                                          saved, segments, read,
                                                          host, faults>>
BY DEF vars, programs, queueVars, disk

(* Every step keeps the types.                                             *)
LEMMA TypedStep ==
    ASSUME Typed, WriterInv, MarkingInv, SegmentsInv, [Next]_vars
    PROVE  Typed'
<1>0. done \in Nat /\ queued - Len(ops) \in Nat
  <2>1. done \in Nat /\ queued \in Nat /\ ops \in Seq(OpType) /\ batch \in Seq(OpType)
    BY DEF Typed
  <2>2. Len(ops) \in Nat /\ Len(batch) \in Nat
    BY <2>1
  <2>3. done + Len(batch) + Len(ops) <= queued
    BY DEF WriterInv
  <2> QED
    BY <2>1, <2>2, <2>3
<1>1. CASE UNCHANGED vars
  BY <1>1, VarsSame DEF Typed
<1>2. ASSUME NEW s \in Sessions, Arm(s) PROVE Typed'
  <2>1. ops' \in Seq(OpType) /\ queued' = queued + 1 /\ cost' = cost
          /\ writer' = IF writer = "waiting" THEN "looking" ELSE writer
    BY <1>2, ArmIs DEF Joins
  <2>2. /\ state' \in [Sessions -> {"new", "running", "ended", "failed to start"}]
        /\ recording' = recording \cup {s} /\ gaps' \in [Sessions -> Nat]
        /\ UNCHANGED <<printed, marking, done, shutdown, batch, logs, dirty,
                       failures, notes, saved, segments, read, host, faults>>
    BY <1>2, ArmIs
  <2>3. queued' \in Nat
    <3>1. queued \in Nat
      BY DEF Typed
    <3> QED
      BY <2>1, <3>1
  <2> QED
    BY <2>1, <2>2, <2>3 DEF Typed
<1>3. ASSUME NEW s \in Sessions, DropChunk(s) PROVE Typed'
  BY <1>3, DropChunkIs DEF Typed
<1>4. ASSUME NEW s \in Sessions, KeepChunk(s) PROVE Typed'
  <2>1. ops' \in Seq(OpType) /\ queued' = queued + (MarkerLen(s) + 1)
          /\ writer' = IF writer = "waiting" THEN "looking" ELSE writer
    BY <1>4, KeepChunkIs DEF Joins
  <2>2. /\ printed' \in [Sessions -> Nat] /\ gaps' \in [Sessions -> Nat]
        /\ marking' \in [Sessions -> Int]
        /\ cost' = cost + ChunkCost + OpCost * MarkerLen(s)
        /\ UNCHANGED <<state, recording, done, shutdown, batch, logs, dirty,
                       failures, notes, saved, segments, read, host, faults>>
    BY <1>4, KeepChunkIs
  <2>3. cost' \in Nat /\ queued' \in Nat
    <3>1. cost \in Nat /\ queued \in Nat
      BY DEF Typed
    <3>2. MarkerLen(s) = 0 \/ MarkerLen(s) = 1
      BY DEF MarkerLen
    <3> QED
      BY <2>1, <2>2, <3>1, <3>2, SizesAssumption DEF ChunkCost
  <2> QED
    BY <2>1, <2>2, <2>3 DEF Typed
<1>5. ASSUME NEW s \in Sessions, NEW now, Ends(s, now) PROVE Typed'
  <2>1. now \in {"ended", "failed to start"} /\ Close(s, now)
    BY <1>5, EndsIs
  <2>2. /\ state' \in [Sessions -> {"new", "running", "ended", "failed to start"}]
        /\ recording' = recording \ {s}
        /\ UNCHANGED <<printed, done, shutdown, batch, logs, dirty, failures, notes,
                       saved, segments, read, host, faults>>
    BY <2>1, CloseIs
  <2>3. CASE shutdown
    <3>1. UNCHANGED <<gaps, marking, ops, queued, cost, writer>>
      BY <2>1, <2>3, CloseIs
    <3> QED
      BY <2>2, <3>1 DEF Typed
  <2>4. CASE ~shutdown
    <3>1. /\ gaps' \in [Sessions -> Nat] /\ marking' \in [Sessions -> Int]
          /\ ops' \in Seq(OpType) /\ queued' = queued + (MarkerLen(s) + 1) /\ cost' = cost
          /\ writer' = IF writer = "waiting" THEN "looking" ELSE writer
      BY <2>1, <2>4, CloseIs DEF Joins
    <3>2. queued' \in Nat
      <4>1. queued \in Nat
        BY DEF Typed
      <4> QED
        BY <3>1, <4>1 DEF MarkerLen
    <3> QED
      BY <2>2, <3>1, <3>2 DEF Typed
  <2> QED
    BY <2>3, <2>4
<1>6. ASSUME NEW s \in Sessions, Discard(s) PROVE Typed'
  <2>1. /\ state' \in [Sessions -> {"new", "running", "ended", "failed to start"}]
        /\ UNCHANGED <<printed, gaps, marking, recording, done, shutdown, batch,
                       logs, dirty, failures, notes, saved, segments, read, host,
                       faults>>
    BY <1>6, DiscardIs
  <2>2. CASE shutdown
    <3>1. UNCHANGED <<ops, queued, cost, writer>>
      BY <1>6, <2>2, DiscardIs
    <3> QED
      BY <2>1, <3>1 DEF Typed
  <2>3. CASE ~shutdown
    <3>1. /\ ops' \in Seq(OpType) /\ queued' = queued + 1 /\ cost' = cost
          /\ writer' = IF writer = "waiting" THEN "looking" ELSE writer
      BY <1>6, <2>3, DiscardIs DEF Joins
    <3>2. queued' \in Nat
      <4>1. queued \in Nat
        BY DEF Typed
      <4> QED
        BY <3>1, <4>1
    <3> QED
      BY <2>1, <3>1, <3>2 DEF Typed
  <2> QED
    BY <2>2, <2>3
<1>7. CASE Shutdown
  BY <1>7, ShutdownIs DEF Typed
<1>8. CASE TakeBatch
  <2>1. /\ batch' = ops /\ ops' = <<>> /\ cost' = 0 /\ writer' = "applying"
        /\ UNCHANGED <<state, printed, gaps, marking, recording, queued, done,
                       shutdown, logs, dirty, failures, notes, saved, segments,
                       read, host, faults>>
    BY <1>8, TakeBatchIs
  <2>2. <<>> \in Seq(OpType)
    OBVIOUS
  <2> QED
    BY <2>1, <2>2 DEF Typed
<1>9. CASE Wait \/ SyncIdle \/ Stopped \/ BatchDone
  <2>1. /\ writer' \in {"looking", "waiting", "stopped"}
        /\ done' = done \/ (batch = <<>> /\ done' = queued - Len(ops))
        /\ logs' \subseteq logs /\ dirty' \subseteq dirty
        /\ UNCHANGED <<state, printed, ops, cost, gaps, marking, recording, queued,
                       shutdown, batch, failures, notes, saved, segments, read,
                       host, faults>>
    BY <1>9, IdleIs
  <2>2. done' \in Nat
    BY <1>0, <2>1
  <2> QED
    BY <2>1, <2>2 DEF Typed
<1>10. batch # <<>> => Current.session \in Sessions
  BY HeadIs
<1>11. CASE ApplyOpen
  BY <1>10, <1>11, ApplyOpenIs DEF Typed
<1>12. CASE ApplyDiscard
  BY <1>10, <1>12, ApplyDiscardIs DEF Typed
<1>13. CASE AppendSkipped
  BY <1>13, AppendSkippedIs DEF Typed, Closes
<1>14. CASE WriteItem
  BY <1>10, <1>14, WriteItemIs DEF Typed, LogsAfter, Closes, Ready
<1>15. CASE Rename
  BY <1>10, <1>15, RenameIs DEF Typed, LogsAfter, Closes, Ready
<1>16. CASE NewSegment
  BY <1>16, NewSegmentIs DEF Typed
<1>17. CASE AppendFails
  BY <1>10, <1>17, AppendFailsIs DEF Typed, Closes, Ready
<1>18. CASE Enforce
  <2>1. /\ writer' = "applied" /\ segments' \in [Sessions -> SegmentType]
        /\ notes' \subseteq notes
        /\ UNCHANGED <<state, printed, ops, cost, gaps, marking, recording, queued,
                       done, shutdown, batch, logs, dirty, failures, saved, host,
                       faults>>
    BY <1>18, EnforceIs
  <2>3. read' = read \/ (read.at # "none" /\ read' = [read EXCEPT !.evicted = TRUE])
    BY <1>18, EnforceIs
  <2>2. read' \in ReadType \cup {NoRead}
    <3>1. read \in ReadType \cup {NoRead} /\ (read.at # "none" => read \in ReadType)
      BY ReadTyped DEF Typed
    <3>2. read \in ReadType => [read EXCEPT !.evicted = TRUE] \in ReadType
      BY ReadSet
    <3> QED
      BY <2>3, <3>1, <3>2
  <2> QED
    BY <2>1, <2>2 DEF Typed
<1>19. CASE Applied
  BY <1>19, AppliedIs, HeadIs DEF Typed
<1>20. CASE Panic
  BY <1>20, PanicIs DEF Typed
<1>21. CASE PanicInMarker
  BY <1>21, PanicInMarkerIs DEF Typed
<1>22. CASE BatchFails
  BY <1>22, BatchFailsIs DEF Typed
<1>23. CASE BatchReleased
  <2>1. /\ writer' \in {"looking", "given up"} /\ batch' = <<>>
        /\ done' = queued - Len(ops) /\ marking' \in [Sessions -> Int]
        /\ UNCHANGED <<state, printed, ops, cost, gaps, recording, queued, shutdown,
                       logs, dirty, failures, notes, saved, segments, read, host,
                       faults>>
    BY <1>23, BatchReleasedIs
  <2>2. <<>> \in Seq(OpType)
    OBVIOUS
  <2>3. done' \in Nat
    BY <1>0, <2>1
  <2> QED
    BY <2>1, <2>2, <2>3 DEF Typed
<1>24. CASE HostDies
  <2>1. /\ state' \in [Sessions -> {"new", "running", "ended", "failed to start"}]
        /\ ops' = <<>> /\ cost' = 0 /\ recording' = {} /\ shutdown' = FALSE
        /\ gaps' \in [Sessions -> Nat] /\ marking' \in [Sessions -> Int]
        /\ queued' = 0 /\ done' = 0
        /\ writer' = "looking" /\ batch' = <<>> /\ logs' = {} /\ dirty' = {}
        /\ failures' = {} /\ segments' \in [Sessions -> SegmentType]
        /\ notes' \subseteq notes /\ read' = NoRead
        /\ UNCHANGED <<printed, saved, faults>>
    BY <1>24, HostDiesIs
  <2>2. <<>> \in Seq(OpType)
    OBVIOUS
  <2> QED
    BY <2>1, <2>2 DEF Typed
<1>25. CASE Reads
  <2>1. \A s \in Sessions : marking[s] \in Nat
    BY SumsAreNat DEF MarkingInv
  <2>2. \A s \in Sessions : segments[s].previous => segments[s].newest > 1
    BY DEF SegmentsInv, SegmentsOf
  <2>3. read' \in ReadType \cup {NoRead}
    BY <1>25, <2>1, <2>2, ReadIs DEF Reads
  <2> QED
    BY <1>25, <2>3, ReadUnread DEF Typed, Reads
<1> QED
  BY Steps, <1>1, <1>2, <1>3, <1>4, <1>5, <1>6, <1>7, <1>8, <1>9, <1>11, <1>12, <1>13, <1>14,
     <1>15, <1>16, <1>17, <1>18, <1>19, <1>20, <1>21, <1>22, <1>23, <1>24, <1>25

(* Every step keeps what is known of the writer.                           *)
LEMMA WriterStep ==
    ASSUME Typed, WriterInv, [Next]_vars
    PROVE  WriterInv'
<1> DEFINE Count == done + Len(batch) + Len(ops) <= queued
<1>0. /\ done \in Nat /\ queued \in Nat /\ Len(ops) \in Nat /\ Len(batch) \in Nat
      /\ done + Len(batch) + Len(ops) <= queued
      /\ Len(<<>>) = 0 /\ (batch = <<>> => Len(batch) = 0)
  <2>1. done \in Nat /\ queued \in Nat /\ ops \in Seq(OpType) /\ batch \in Seq(OpType)
    BY DEF Typed
  <2>2. Len(ops) \in Nat /\ Len(batch) \in Nat /\ Len(<<>>) = 0 /\ (batch = <<>> => Len(batch) = 0)
    BY <2>1
  <2>3. done + Len(batch) + Len(ops) <= queued
    BY DEF WriterInv
  <2> QED
    BY <2>1, <2>2, <2>3
<1>1. ASSUME Still, failures' = failures,
             done' = done, NEW k \in {0, 1, 2}, Len(ops') = Len(ops) + k, queued' = queued + k
      PROVE  WriterInv'
  <2>1. Len(batch') = Len(batch) /\ done' + Len(batch') + Len(ops') <= queued'
    BY <1>0, <1>1 DEF Still
  <2>2. Current' = Current
    BY <1>1, StillIs
  <2> QED
    BY <1>1, <2>1, <2>2 DEF WriterInv, Still
<1>2. CASE UNCHANGED vars
  <2>1. UNCHANGED <<ops, batch, queued, done, writer, failures>> /\ Current' = Current
    BY <1>2, VarsSame DEF Current
  <2> QED
    BY <2>1 DEF WriterInv
<1>3. ASSUME NEW s \in Sessions, Arm(s) PROVE WriterInv'
  <2>1. /\ Still /\ failures' = failures /\ done' = done
        /\ Len(ops') = Len(ops) + 1 /\ queued' = queued + 1
    BY <1>3, ArmIs DEF Joins, Still
  <2> QED
    BY <1>1, <2>1
<1>4. ASSUME NEW s \in Sessions, DropChunk(s) PROVE WriterInv'
  <2>1. /\ Still /\ failures' = failures /\ done' = done /\ ops' = ops /\ queued' = queued
    BY <1>4, DropChunkIs DEF Still
  <2>2. Len(ops') = Len(ops) + 0 /\ queued' = queued + 0
    BY <1>0, <2>1
  <2> QED
    BY <1>1, <2>1, <2>2
<1>5. ASSUME NEW s \in Sessions, KeepChunk(s) PROVE WriterInv'
  <2>1. /\ Still /\ failures' = failures /\ done' = done
        /\ Len(ops') = Len(ops) + (MarkerLen(s) + 1) /\ queued' = queued + (MarkerLen(s) + 1)
    BY <1>5, KeepChunkIs DEF Joins, Still
  <2>2. MarkerLen(s) + 1 \in {0, 1, 2}
    BY DEF MarkerLen
  <2> QED
    BY <1>1, <2>1, <2>2
<1>6. ASSUME NEW s \in Sessions, NEW now, Ends(s, now) PROVE WriterInv'
  <2>1. Close(s, now)
    BY <1>6, EndsIs
  <2>2. failures' = failures /\ done' = done /\ batch' = batch
    BY <2>1, CloseIs
  <2>3. CASE shutdown
    <3>1. ops' = ops /\ queued' = queued /\ writer' = writer
      BY <2>1, <2>3, CloseIs
    <3>2. Len(ops') = Len(ops) + 0 /\ queued' = queued + 0
      BY <1>0, <3>1
    <3>3. Current' = Current /\ Len(batch') = Len(batch)
      BY <2>2 DEF Current
    <3> QED
      BY <2>2, <3>1, <3>3 DEF WriterInv
  <2>4. CASE ~shutdown
    <3>1. /\ Len(ops') = Len(ops) + (MarkerLen(s) + 1) /\ queued' = queued + (MarkerLen(s) + 1)
          /\ writer' = IF writer = "waiting" THEN "looking" ELSE writer
      BY <2>1, <2>4, CloseIs DEF Joins
    <3>2. MarkerLen(s) + 1 \in {0, 1, 2}
      BY DEF MarkerLen
    <3>3. Still
      BY <2>2, <3>1 DEF Still
    <3> QED
      BY <1>1, <2>2, <3>1, <3>2, <3>3
  <2> QED
    BY <2>3, <2>4
<1>7. ASSUME NEW s \in Sessions, Discard(s) PROVE WriterInv'
  <2>2. failures' = failures /\ done' = done /\ batch' = batch
    BY <1>7, DiscardIs
  <2>3. CASE shutdown
    <3>1. ops' = ops /\ queued' = queued /\ writer' = writer
      BY <1>7, <2>3, DiscardIs
    <3>3. Current' = Current /\ Len(batch') = Len(batch)
      BY <2>2 DEF Current
    <3> QED
      BY <2>2, <3>1, <3>3 DEF WriterInv
  <2>4. CASE ~shutdown
    <3>1. /\ Len(ops') = Len(ops) + 1 /\ queued' = queued + 1
          /\ writer' = IF writer = "waiting" THEN "looking" ELSE writer
      BY <1>7, <2>4, DiscardIs DEF Joins
    <3>3. Still
      BY <2>2, <3>1 DEF Still
    <3> QED
      BY <1>1, <2>2, <3>1, <3>3
  <2> QED
    BY <2>3, <2>4
<1>8. CASE Shutdown
  <2>1. Still /\ failures' = failures /\ done' = done /\ ops' = ops /\ queued' = queued
    BY <1>8, ShutdownIs DEF Still
  <2>2. Len(ops') = Len(ops) + 0 /\ queued' = queued + 0
    BY <1>0, <2>1
  <2> QED
    BY <1>1, <2>1, <2>2
<1>9. CASE TakeBatch
  <2>1. /\ batch' = ops /\ ops' = <<>> /\ done' = done /\ queued' = queued
        /\ writer' = "applying" /\ writer = "looking"
    BY <1>9, TakeBatchIs
  <2>2. batch = <<>>
    BY <2>1 DEF WriterInv
  <2>3. done' + Len(batch') + Len(ops') <= queued'
    BY <1>0, <2>1, <2>2
  <2> QED
    BY <2>1, <2>3 DEF WriterInv
<1>10. CASE Wait \/ SyncIdle \/ Stopped \/ BatchDone
  <2>1. /\ writer \in {"looking", "waiting", "applying"}
        /\ writer' \in {"looking", "waiting", "stopped"}
        /\ writer = "applying" => batch = <<>> /\ done' = queued - Len(ops)
        /\ writer # "applying" => done' = done
        /\ batch' = batch /\ ops' = ops /\ queued' = queued
    BY <1>10, IdleIs
  <2>2. batch = <<>>
    BY <2>1 DEF WriterInv
  <2>3. done' + Len(batch') + Len(ops') <= queued'
    BY <1>0, <2>1, <2>2
  <2> QED
    BY <2>1, <2>2, <2>3 DEF WriterInv
<1>11. ASSUME batch' = batch, ops' = ops, queued' = queued, done' = done, batch # <<>>,
              writer' \notin {"looking", "waiting", "stopped", "given up", "failed"},
              writer' \in {"renamed", "rotated", "enforcing"} =>
                  Current.op \in {"Data", "Gap", "Close"},
              writer' = "unwinding" /\ Current.op = "Gap" => MarkersMayPanic
       PROVE  WriterInv'
  <2>1. Current' = Current
    BY <1>11 DEF Current
  <2>2. done' + Len(batch') + Len(ops') <= queued'
    BY <1>0, <1>11
  <2> QED
    BY <1>11, <2>1, <2>2 DEF WriterInv
<1>12. CASE ApplyOpen \/ ApplyDiscard
  <2>1. /\ batch' = batch /\ ops' = ops /\ queued' = queued /\ done' = done /\ batch # <<>>
        /\ writer' = "applied"
    BY <1>12, ApplyOpenIs, ApplyDiscardIs
  <2> QED
    BY <1>11, <2>1
<1>13. CASE AppendSkipped \/ AppendFails
  <2>1. /\ batch' = batch /\ ops' = ops /\ queued' = queued /\ done' = done /\ batch # <<>>
        /\ writer' \in {"applied", "enforcing"} /\ Current.op \in {"Data", "Gap", "Close"}
    BY <1>13, AppendSkippedIs, AppendFailsIs DEF Ready
  <2> QED
    BY <1>11, <2>1
<1>14. CASE WriteItem
  <2>1. /\ batch' = batch /\ ops' = ops /\ queued' = queued /\ done' = done /\ batch # <<>>
        /\ writer' \in {"applied", "enforcing"} /\ Current.op \in {"Data", "Gap", "Close"}
    BY <1>14, WriteItemIs DEF Ready
  <2> QED
    BY <1>11, <2>1
<1>15. CASE Rename \/ NewSegment
  <2>1. /\ batch' = batch /\ ops' = ops /\ queued' = queued /\ done' = done /\ batch # <<>>
        /\ writer' \in {"renamed", "rotated"} /\ Current.op \in {"Data", "Gap", "Close"}
    BY <1>15, RenameIs, NewSegmentIs DEF Ready
  <2> QED
    BY <1>11, <2>1
<1>16. CASE Enforce
  <2>1. /\ batch' = batch /\ ops' = ops /\ queued' = queued /\ done' = done
        /\ writer = "enforcing" /\ writer' = "applied"
    BY <1>16, EnforceIs
  <2>2. batch # <<>>
    BY <2>1 DEF WriterInv
  <2> QED
    BY <1>11, <2>1, <2>2
<1>17. CASE Panic \/ PanicInMarker
  <2>1. /\ batch' = batch /\ ops' = ops /\ queued' = queued /\ done' = done /\ batch # <<>>
        /\ writer' = "unwinding"
        /\ Current.op # "Gap" \/ MarkersMayPanic
    BY <1>17, PanicIs, PanicInMarkerIs
  <2> QED
    BY <1>11, <2>1
<1>18. CASE Applied
  <2>1. /\ batch # <<>> /\ batch' = Tail(batch) /\ ops' = ops /\ queued' = queued /\ done' = done
        /\ writer' = "applying"
    BY <1>18, AppliedIs
  <2>2. Len(Tail(batch)) = Len(batch) - 1
    BY <2>1, HeadIs
  <2>3. done' + Len(batch') + Len(ops') <= queued'
    BY <1>0, <2>1, <2>2
  <2> QED
    BY <2>1, <2>3 DEF WriterInv
<1>19. CASE BatchFails
  <2>1. /\ batch' = batch /\ ops' = ops /\ queued' = queued /\ done' = done
        /\ writer = "unwinding" /\ writer' = "failed"
        /\ \A i \in DOMAIN batch : batch[i].session \in failures'
    BY <1>19, BatchFailsIs
  <2>2. batch # <<>>
    BY <2>1 DEF WriterInv
  <2>3. done' + Len(batch') + Len(ops') <= queued'
    BY <1>0, <2>1
  <2> QED
    BY <2>1, <2>2, <2>3 DEF WriterInv
<1>20. CASE BatchReleased
  <2>1. /\ batch' = <<>> /\ ops' = ops /\ queued' = queued /\ done' = queued - Len(ops)
        /\ writer' \in {"looking", "given up"}
    BY <1>20, BatchReleasedIs
  <2>2. Len(batch') = 0 /\ Len(ops') = Len(ops)
    BY <1>0, <2>1
  <2>3. done' + Len(batch') + Len(ops') <= queued'
    <3>1. done' = queued - Len(ops) /\ queued' = queued /\ queued \in Nat /\ Len(ops) \in Nat
      BY <1>0, <2>1
    <3> QED
      BY <2>2, <3>1
  <2> QED
    BY <2>1, <2>3 DEF WriterInv
<1>21. CASE HostDies
  <2>1. /\ batch' = <<>> /\ ops' = <<>> /\ queued' = 0 /\ done' = 0 /\ writer' = "looking"
    BY <1>21, HostDiesIs
  <2>2. Len(batch') = 0 /\ Len(ops') = 0
    BY <1>0, <2>1
  <2>3. done' + Len(batch') + Len(ops') <= queued'
    BY <2>1, <2>2
  <2> QED
    BY <2>1, <2>3 DEF WriterInv
<1>22. CASE Reads
  <2>1. /\ batch' = batch /\ ops' = ops /\ queued' = queued /\ done' = done
        /\ writer' = writer /\ failures' = failures
    BY <1>22, ReadUnread DEF Reads
  <2>2. Current' = Current
    BY <2>1 DEF Current
  <2> QED
    BY <2>1, <2>2 DEF WriterInv
<1> QED
  BY Steps, <1>2, <1>3, <1>4, <1>5, <1>6, <1>7, <1>8, <1>9, <1>10, <1>12, <1>13, <1>14,
     <1>15, <1>16, <1>17, <1>18, <1>19, <1>20, <1>21, <1>22

(* Every step keeps `marking` the sum of the markers on their way.         *)
LEMMA MarkingStep ==
    ASSUME Typed, WriterInv, MarkingInv, [Next]_vars
    PROVE  MarkingInv'
<1> SUFFICES ASSUME NEW s \in Sessions
             PROVE  marking'[s] = GapsLeft(s)' + GapsQueued(s)' + InHand(s)'
  BY DEF MarkingInv
<1>0. /\ marking[s] = GapsLeft(s) + GapsQueued(s) + InHand(s)
      /\ GapsLeft(s) \in Nat /\ GapsQueued(s) \in Nat /\ InHand(s) \in Nat
  BY SumsAreNat DEF MarkingInv
<1>00. gaps[s] \in Nat /\ marking[s] \in Int
  BY DEF Typed
<1>1. ASSUME UNCHANGED <<marking, ops, batch, writer>>
      PROVE  marking'[s] = GapsLeft(s)' + GapsQueued(s)' + InHand(s)'
  BY <1>0, <1>1 DEF GapsLeft, GapsQueued, InHand, Rest, Written, Current
<1>2. CASE UNCHANGED vars
  BY <1>1, <1>2, VarsSame
<1>3. ASSUME NEW c \in Sessions, Arm(c)
      PROVE  marking'[s] = GapsLeft(s)' + GapsQueued(s)' + InHand(s)'
  <2>1. Still /\ marking' = marking /\ Joins(1) /\ ops'[Len(ops) + 1] = Op("Open", c, 0)
    BY <1>3, ArmIs DEF Joins, Still
  <2>2. GapsQueued(s)' = GapsQueued(s) + GapOf(Op("Open", c, 0), s)
    BY <2>1, JoinsSums
  <2>3. GapOf(Op("Open", c, 0), s) = 0
    BY DEF GapOf, Op
  <2>4. GapsLeft(s)' = GapsLeft(s) /\ InHand(s)' = InHand(s)
    BY <2>1, StillIs DEF GapsLeft
  <2> QED
    BY <1>0, <2>1, <2>2, <2>3, <2>4
<1>4. ASSUME NEW c \in Sessions, DropChunk(c)
      PROVE  marking'[s] = GapsLeft(s)' + GapsQueued(s)' + InHand(s)'
  BY <1>1, <1>4, DropChunkIs
<1>5. ASSUME NEW c \in Sessions, NEW o \in OpType, GapOf(o, s) = 0, Joins(MarkerLen(c) + 1),
             ops'[Len(ops) + MarkerLen(c) + 1] = o, batch' = batch,
             gaps[c] > 0 => ops'[Len(ops) + 1] = Op("Gap", c, gaps[c]),
             marking'[c] = marking[c] + gaps[c],
             \A d \in Others(c) : marking'[d] = marking[d]
      PROVE  marking'[s] = GapsLeft(s)' + GapsQueued(s)' + InHand(s)'
  <2>1. GapsQueued(s)' = GapsQueued(s) + (IF s = c THEN gaps[c] ELSE 0) + GapOf(o, s)
    BY <1>5, MarkedSums
  <2>2. Still
    BY <1>5 DEF Joins, Still
  <2>3. GapsLeft(s)' = GapsLeft(s) /\ InHand(s)' = InHand(s)
    BY <2>2, StillIs DEF GapsLeft
  <2>4. marking'[s] = marking[s] + (IF s = c THEN gaps[c] ELSE 0)
    BY <1>5, <1>00 DEF Others
  <2> QED
    BY <1>0, <1>00, <1>5, <2>1, <2>3, <2>4
<1>6. ASSUME NEW c \in Sessions, KeepChunk(c)
      PROVE  marking'[s] = GapsLeft(s)' + GapsQueued(s)' + InHand(s)'
  <2>1. /\ Joins(MarkerLen(c) + 1) /\ batch' = batch
        /\ ops'[Len(ops) + MarkerLen(c) + 1] = Op("Data", c, printed[c] + 1)
        /\ gaps[c] > 0 => ops'[Len(ops) + 1] = Op("Gap", c, gaps[c])
        /\ marking'[c] = marking[c] + gaps[c]
        /\ \A d \in Others(c) : marking'[d] = marking[d]
    BY <1>6, KeepChunkIs
  <2>2. printed[c] \in Nat
    BY DEF Typed
  <2>3. Op("Data", c, printed[c] + 1) \in OpType /\ GapOf(Op("Data", c, printed[c] + 1), s) = 0
    BY <2>2 DEF GapOf, Op, OpType
  <2> QED
    BY <1>5, <2>1, <2>3
<1>7. ASSUME NEW c \in Sessions, NEW now, Ends(c, now)
      PROVE  marking'[s] = GapsLeft(s)' + GapsQueued(s)' + InHand(s)'
  <2>1. Close(c, now)
    BY <1>7, EndsIs
  <2>2. CASE shutdown
    BY <1>1, <2>1, <2>2, CloseIs
  <2>3. CASE ~shutdown
    <3>1. /\ Joins(MarkerLen(c) + 1) /\ batch' = batch
          /\ ops'[Len(ops) + MarkerLen(c) + 1] = Op("Close", c, 0)
          /\ gaps[c] > 0 => ops'[Len(ops) + 1] = Op("Gap", c, gaps[c])
          /\ marking'[c] = marking[c] + gaps[c]
          /\ \A d \in Others(c) : marking'[d] = marking[d]
      BY <2>1, <2>3, CloseIs
    <3>2. Op("Close", c, 0) \in OpType /\ GapOf(Op("Close", c, 0), s) = 0
      BY DEF GapOf, Op, OpType
    <3> QED
      BY <1>5, <3>1, <3>2
  <2> QED
    BY <2>2, <2>3
<1>8. ASSUME NEW c \in Sessions, Discard(c)
      PROVE  marking'[s] = GapsLeft(s)' + GapsQueued(s)' + InHand(s)'
  <2>1. CASE shutdown
    BY <1>1, <1>8, <2>1, DiscardIs
  <2>2. CASE ~shutdown
    <3>1. Still /\ marking' = marking /\ Joins(1) /\ ops'[Len(ops) + 1] = Op("Discard", c, 0)
      BY <1>8, <2>2, DiscardIs DEF Joins, Still
    <3>2. GapsQueued(s)' = GapsQueued(s) + GapOf(Op("Discard", c, 0), s)
      BY <3>1, JoinsSums
    <3>3. GapOf(Op("Discard", c, 0), s) = 0
      BY DEF GapOf, Op
    <3>4. GapsLeft(s)' = GapsLeft(s) /\ InHand(s)' = InHand(s)
      BY <3>1, StillIs DEF GapsLeft
    <3> QED
      BY <1>0, <3>1, <3>2, <3>3, <3>4
  <2> QED
    BY <2>1, <2>2
<1>9. CASE Shutdown
  <2>1. Still /\ marking' = marking /\ ops' = ops
    BY <1>9, ShutdownIs DEF Still
  <2>2. GapsLeft(s)' = GapsLeft(s) /\ InHand(s)' = InHand(s) /\ GapsQueued(s)' = GapsQueued(s)
    BY <2>1, StillIs DEF GapsLeft, GapsQueued
  <2> QED
    BY <1>0, <2>1, <2>2
<1>10. CASE TakeBatch
  <2>1. /\ batch' = ops /\ ops' = <<>> /\ marking' = marking
        /\ writer' = "applying" /\ writer = "looking"
    BY <1>10, TakeBatchIs
  <2>2. batch = <<>>
    BY <2>1 DEF WriterInv
  <2>3. Rest = <<>> /\ Rest' = ops /\ InHand(s) = 0 /\ InHand(s)' = 0
    BY <2>1, <2>2 DEF Rest, Written, InHand
  <2>4. GapsLeft(s)' = GapsQueued(s)
    BY <2>3 DEF GapsLeft, GapsQueued
  <2>5. GapsLeft(s) = 0
    BY <2>3, NothingLeft
  <2>6. GapsQueued(s)' = 0
    <3>1. GapsQueued(s)' = GapsIn(<<>>, s, Len(<<>>))
      BY <2>1 DEF GapsQueued
    <3>2. GapsLeft(s) = GapsIn(<<>>, s, Len(<<>>))
      BY <2>3 DEF GapsLeft
    <3> QED
      BY <2>5, <3>1, <3>2
  <2> QED
    BY <1>0, <2>1, <2>3, <2>4, <2>5, <2>6
<1>11. CASE Wait \/ SyncIdle \/ Stopped \/ BatchDone
  <2>1. /\ writer \in {"looking", "waiting", "applying"}
        /\ writer' \in {"looking", "waiting", "stopped"}
        /\ batch' = batch /\ ops' = ops /\ marking' = marking
    BY <1>11, IdleIs
  <2>2. Rest' = Rest /\ InHand(s) = 0 /\ InHand(s)' = 0
    BY <2>1 DEF Rest, Written, InHand
  <2>3. GapsLeft(s)' = GapsLeft(s) /\ GapsQueued(s)' = GapsQueued(s)
    BY <2>1, <2>2 DEF GapsLeft, GapsQueued
  <2> QED
    BY <1>0, <2>1, <2>2, <2>3
<1>12. ASSUME Leaves, writer' # "unwinding" \/ Current.op # "Gap", marking' = marking, ops' = ops
       PROVE  marking'[s] = GapsLeft(s)' + GapsQueued(s)' + InHand(s)'
  <2>1. GapsLeft(s) = GapOf(Current, s) + GapsLeft(s)'
    BY <1>12, LeavesSums
  <2>2. InHand(s) = 0 /\ InHand(s)' = IF writer' # "unwinding" THEN GapOf(Current, s) ELSE 0
    BY <1>12, LeavesIs
  <2>3. writer' = "unwinding" => GapOf(Current, s) = 0
    BY <1>12 DEF GapOf
  <2>4. GapsQueued(s)' = GapsQueued(s)
    BY <1>12 DEF GapsQueued
  <2>5. GapOf(Current, s) \in Int /\ GapsLeft(s)' \in Int
    <3>1. batch # <<>> /\ Rest' = Tail(batch)
      BY <1>12, LeavesIs DEF Leaves
    <3>2. Tail(batch) \in Seq(OpType) /\ Current.n \in Nat
      BY <3>1, HeadIs
    <3>3. Len(Tail(batch)) \in 0..Len(Tail(batch))
      BY <3>2
    <3>4. GapsIn(Tail(batch), s, Len(Tail(batch))) \in Nat
      BY <3>2, <3>3, QueueNat
    <3> QED
      BY <3>1, <3>2, <3>4 DEF GapOf, GapsLeft
  <2> QED
    BY <1>0, <1>12, <2>1, <2>2, <2>3, <2>4, <2>5
<1>13. CASE ApplyOpen \/ ApplyDiscard
  <2>1. Leaves /\ writer' = "applied" /\ marking' = marking /\ ops' = ops
    BY <1>13, ApplyOpenIs, ApplyDiscardIs DEF Leaves
  <2> QED
    BY <1>12, <2>1
<1>14. CASE AppendSkipped \/ AppendFails
  <2>1. Leaves /\ writer' # "unwinding" /\ marking' = marking /\ ops' = ops
    BY <1>14, AppendSkippedIs, AppendFailsIs DEF Leaves, Ready
  <2> QED
    BY <1>12, <2>1
<1>15. CASE WriteItem
  <2>1. Leaves /\ writer' # "unwinding" /\ marking' = marking /\ ops' = ops
    BY <1>15, WriteItemIs DEF Leaves, Ready
  <2> QED
    BY <1>12, <2>1
<1>16. ASSUME batch' = batch, ops' = ops, marking' = marking, InHand(s)' = InHand(s),
              Written' <=> Written
       PROVE  marking'[s] = GapsLeft(s)' + GapsQueued(s)' + InHand(s)'
  <2>1. Rest' = Rest
    BY <1>16 DEF Rest
  <2> QED
    BY <1>0, <1>16, <2>1 DEF GapsLeft, GapsQueued
<1>17. CASE Rename \/ NewSegment
  <2>1. /\ batch' = batch /\ ops' = ops /\ marking' = marking
        /\ writer \in {"applying", "renamed"} /\ writer' \in {"renamed", "rotated"}
    BY <1>17, RenameIs, NewSegmentIs
  <2>2. InHand(s)' = InHand(s) /\ (Written' <=> Written)
    BY <2>1 DEF InHand, Written
  <2> QED
    BY <1>16, <2>1, <2>2
<1>18. CASE Enforce
  <2>1. /\ batch' = batch /\ ops' = ops /\ marking' = marking
        /\ writer = "enforcing" /\ writer' = "applied"
    BY <1>18, EnforceIs
  <2>2. InHand(s)' = InHand(s) /\ (Written' <=> Written)
    BY <2>1 DEF InHand, Written, Current
  <2> QED
    BY <1>16, <2>1, <2>2
<1>19. CASE Applied
  <2>1. /\ writer = "applied" /\ writer' = "applying" /\ batch' = Tail(batch) /\ ops' = ops
        /\ marking'[s] = marking[s] - InHand(s)
    BY <1>19, AppliedIs
  <2>2. Rest' = Rest /\ InHand(s)' = 0
    BY <2>1 DEF Rest, Written, InHand
  <2> QED
    BY <1>0, <2>1, <2>2 DEF GapsLeft, GapsQueued
<1>20. CASE Panic
  <2>1. /\ writer \in {"applying", "renamed", "rotated", "enforcing"} /\ batch # <<>>
        /\ writer' = "unwinding" /\ Current.op # "Gap"
        /\ batch' = batch /\ ops' = ops /\ marking' = marking
    BY <1>20, PanicIs
  <2>2. CASE writer # "enforcing"
    BY <1>12, <2>1, <2>2 DEF Leaves
  <2>3. CASE writer = "enforcing"
    <3>1. InHand(s)' = InHand(s) /\ (Written' <=> Written)
      BY <2>1, <2>3 DEF InHand, Written, Current
    <3> QED
      BY <1>16, <2>1, <3>1
  <2> QED
    BY <2>2, <2>3
<1>21. CASE PanicInMarker
  <2>1. /\ writer \in {"applying", "renamed", "rotated", "enforcing"} /\ batch # <<>>
        /\ writer' = "unwinding" /\ Current.op = "Gap"
        /\ batch' = batch /\ ops' = ops
        /\ marking'[Current.session] = marking[Current.session] - Current.n
        /\ \A d \in Others(Current.session) : marking'[d] = marking[d]
    BY <1>21, PanicInMarkerIs
  <2>2. Current.n \in Nat
    BY <2>1, HeadIs
  <2>3. marking'[s] = marking[s] - GapOf(Current, s) /\ GapOf(Current, s) \in Nat
    BY <1>00, <2>1, <2>2 DEF Others, GapOf
  <2>4. GapsQueued(s)' = GapsQueued(s)
    BY <2>1 DEF GapsQueued
  <2>5. CASE writer # "enforcing"
    <3>1. Leaves
      BY <2>1, <2>5 DEF Leaves
    <3>2. GapsLeft(s) = GapOf(Current, s) + GapsLeft(s)'
      BY <3>1, LeavesSums
    <3>3. InHand(s) = 0 /\ InHand(s)' = 0
      BY <2>1, <3>1, LeavesIs
    <3>4. GapsLeft(s)' \in Int
      <4>1. Rest' = Tail(batch)
        BY <3>1, LeavesIs
      <4>2. Tail(batch) \in Seq(OpType)
        BY <2>1, HeadIs
      <4>3. Len(Tail(batch)) \in 0..Len(Tail(batch))
        BY <4>2
      <4>4. GapsIn(Tail(batch), s, Len(Tail(batch))) \in Nat
        BY <4>2, <4>3, QueueNat
      <4> QED
        BY <4>1, <4>4 DEF GapsLeft
    <3> QED
      BY <1>0, <2>3, <2>4, <3>2, <3>3, <3>4
  <2>6. CASE writer = "enforcing"
    <3>1. InHand(s) = GapOf(Current, s) /\ InHand(s)' = 0 /\ Rest' = Rest
      BY <2>1, <2>6 DEF InHand, Written, Rest, GapOf
    <3>2. GapsLeft(s)' = GapsLeft(s)
      BY <3>1 DEF GapsLeft
    <3> QED
      BY <1>0, <2>3, <2>4, <3>1, <3>2
  <2> QED
    BY <2>5, <2>6
<1>22. CASE BatchFails
  <2>1. /\ batch' = batch /\ ops' = ops /\ marking' = marking
        /\ writer = "unwinding" /\ writer' = "failed"
    BY <1>22, BatchFailsIs
  <2>2. InHand(s)' = InHand(s) /\ (Written' <=> Written)
    BY <2>1 DEF InHand, Written
  <2> QED
    BY <1>16, <2>1, <2>2
<1>23. CASE BatchReleased
  <2>1. /\ writer = "failed" /\ writer' \in {"looking", "given up"}
        /\ batch' = <<>> /\ ops' = ops
        /\ marking'[s] = marking[s] - GapsIn(Tail(batch), s, Len(Tail(batch)))
    BY <1>23, BatchReleasedIs
  <2>2. /\ Rest = Tail(batch) /\ Rest' = <<>> /\ InHand(s) = 0 /\ InHand(s)' = 0
    BY <2>1 DEF Rest, Written, InHand
  <2>3. GapsLeft(s)' = 0
    BY <2>2, EmptySums DEF GapsLeft
  <2>4. marking'[s] = marking[s] - GapsLeft(s) /\ GapsQueued(s)' = GapsQueued(s)
    BY <2>1, <2>2 DEF GapsLeft, GapsQueued
  <2>5. marking'[s] = GapsQueued(s)
    BY <1>0, <2>2, <2>4
  <2> QED
    BY <1>0, <2>2, <2>3, <2>4, <2>5
<1>24. CASE HostDies
  <2>1. /\ writer' = "looking" /\ batch' = <<>> /\ ops' = <<>> /\ marking'[s] = 0
    BY <1>24, HostDiesIs
  <2>2. Rest' = <<>> /\ InHand(s)' = 0
    BY <2>1 DEF Rest, Written, InHand
  <2>3. GapsLeft(s)' = 0 /\ GapsQueued(s)' = 0
    BY <2>1, <2>2, EmptySums DEF GapsLeft, GapsQueued
  <2> QED
    BY <2>1, <2>2, <2>3
<1>25. CASE Reads
  BY <1>1, <1>25, ReadUnread DEF Reads
<1> QED
  BY Steps, <1>2, <1>3, <1>4, <1>6, <1>7, <1>8, <1>9, <1>10, <1>11, <1>13, <1>14, <1>15,
     <1>17, <1>18, <1>19, <1>20, <1>21, <1>22, <1>23, <1>24, <1>25

(* The operations of the batch and of the queue are operations.            *)
LEMMA OpsAreTyped ==
    ASSUME Typed
    PROVE  /\ \A i \in DOMAIN batch : batch[i] \in OpType
           /\ \A i \in DOMAIN ops : ops[i] \in OpType
           /\ DOMAIN batch = 1..Len(batch) /\ DOMAIN ops = 1..Len(ops)
           /\ Len(batch) \in Nat /\ Len(ops) \in Nat
<1>1. batch \in Seq(OpType) /\ ops \in Seq(OpType)
  BY DEF Typed
<1> QED
  BY <1>1

(* What a Close leaves of a session.                                       *)
LEMMA ClosedNow ==
    ASSUME Typed, NEW s \in Sessions, NEW now, Ends(s, now)
    PROVE  /\ state[s] = "running" /\ printed' = printed
           /\ state'[s] \in {"ended", "failed to start"}
           /\ \A d \in Others(s) : state'[d] = state[d] /\ gaps'[d] = gaps[d]
<1>1. Close(s, now) /\ now \in {"ended", "failed to start"}
  BY EndsIs
<1>2. /\ state[s] = "running" /\ printed' = printed
      /\ state'[s] = now /\ \A d \in Others(s) : state'[d] = state[d]
  BY <1>1, CloseIs
<1>3. \A d \in Others(s) : gaps'[d] = gaps[d]
  BY <1>1, CloseIs
<1> QED
  BY <1>1, <1>2, <1>3

(* What an operation needs of its session lasts while its host does.       *)
LEMMA GoingLasts ==
    ASSUME Typed, [Next]_vars, ~HostDies
    PROVE  Going \subseteq Going'
<1> SUFFICES ASSUME NEW o \in Going PROVE o \in Going'
  OBVIOUS
<1> DEFINE c == o.session
<1>1. /\ o \in OpType /\ c \in Sessions /\ o.n \in Nat
      /\ state[c] # "new"
      /\ o.op = "Data" => o.n > 0 /\ o.n <= printed[c]
      /\ o.op = "Gap" => o.n > 0
      /\ o.op = "Close" => state[c] # "running" /\ gaps[c] = 0
      /\ o.op = "Discard" => state[c] = "ended" /\ printed[c] = 0
  BY DEF Going, OpType
<1>2. printed[c] \in Nat
  BY <1>1 DEF Typed
<1> HIDE DEF c
<1>3. SUFFICES /\ state'[c] # "new"
               /\ o.op = "Data" => o.n <= printed'[c]
               /\ o.op = "Close" => state'[c] # "running" /\ gaps'[c] = 0
               /\ o.op = "Discard" => state'[c] = "ended" /\ printed'[c] = 0
  BY <1>1 DEF Going, c
<1>4. CASE UNCHANGED <<state, printed, gaps>>
  BY <1>1, <1>4
<1>5. ASSUME NEW s \in Sessions, Arm(s)
      PROVE  c # s /\ state'[c] = state[c] /\ printed' = printed /\ gaps'[c] = gaps[c]
  BY <1>1, <1>5, ArmIs DEF Others
<1>6. ASSUME NEW s \in Sessions, DropChunk(s)
      PROVE  /\ state' = state /\ state[s] = "running"
             /\ IF c = s THEN printed'[c] = printed[c] + 1
                ELSE printed'[c] = printed[c] /\ gaps'[c] = gaps[c]
  BY <1>1, <1>6, DropChunkIs DEF Others
<1>7. ASSUME NEW s \in Sessions, KeepChunk(s)
      PROVE  /\ state' = state /\ state[s] = "running"
             /\ IF c = s THEN printed'[c] = printed[c] + 1
                ELSE printed'[c] = printed[c] /\ gaps'[c] = gaps[c]
  BY <1>1, <1>7, KeepChunkIs DEF Others
<1>8. ASSUME NEW s \in Sessions, NEW now, Ends(s, now)
      PROVE  /\ state[s] = "running" /\ printed' = printed
             /\ IF c = s THEN state'[c] \notin {"new", "running"}
                ELSE state'[c] = state[c] /\ gaps'[c] = gaps[c]
  BY <1>1, <1>8, ClosedNow DEF Others
<1>9. ASSUME NEW s \in Sessions, Discard(s)
      PROVE  /\ state[s] = "failed to start" /\ printed' = printed /\ gaps' = gaps
             /\ IF c = s THEN state'[c] = "ended" ELSE state'[c] = state[c]
  BY <1>1, <1>9, DiscardIs DEF Others
<1>10. CASE UNCHANGED vars
  BY <1>4, <1>10, VarsSame
<1>11. CASE Shutdown \/ TakeBatch \/ (Wait \/ SyncIdle \/ Stopped \/ BatchDone)
  BY <1>4, <1>11, ShutdownIs, TakeBatchIs, IdleIs
<1>12. CASE ApplyOpen \/ ApplyDiscard \/ AppendSkipped \/ WriteItem \/ Rename \/ NewSegment
  BY <1>4, <1>12 DEF ApplyOpen, ApplyDiscard, AppendSkipped, WriteItem, Rename, NewSegment,
                     programs, queueVars
<1>13. CASE AppendFails \/ Enforce \/ Applied \/ Panic \/ PanicInMarker \/ BatchFails
              \/ BatchReleased
  BY <1>4, <1>13 DEF AppendFails, Enforce, Applied, Panic, PanicInMarker, BatchFails,
                     BatchReleased, programs, queueVars
<1>14. CASE Reads
  BY <1>4, <1>14, ReadUnread DEF Reads
<1>15. CASE \E s \in Sessions : Arm(s) \/ DropChunk(s) \/ KeepChunk(s)
  BY <1>1, <1>2, <1>5, <1>6, <1>7, <1>15
<1>16. CASE \E s \in Sessions : Discard(s) \/ \E now : Ends(s, now)
  BY <1>1, <1>8, <1>9, <1>16
<1> QED
  BY Steps, <1>10, <1>11, <1>12, <1>13, <1>14, <1>15, <1>16

(* The operations of a queue that others have joined.                      *)
LEMMA JoinedIs ==
    ASSUME Typed, NEW k \in {1, 2}, Joins(k)
    PROVE  /\ DOMAIN ops = 1..Len(ops) /\ DOMAIN ops' = 1..Len(ops) + k /\ Len(ops) \in Nat
           /\ Len(ops') = Len(ops) + k
           /\ \A j \in DOMAIN ops : j \in DOMAIN ops' /\ ops'[j] = ops[j]
           /\ \A j \in DOMAIN ops' : \/ j \in DOMAIN ops
                                     \/ j = Len(ops) + k
                                     \/ k = 2 /\ j = Len(ops) + 1
<1>1. ops \in Seq(OpType) /\ ops' \in Seq(OpType) /\ Len(ops') = Len(ops) + k
      /\ \A i \in 1..Len(ops) : ops'[i] = ops[i]
  BY DEF Typed, Joins
<1>2. DOMAIN ops = 1..Len(ops) /\ DOMAIN ops' = 1..Len(ops) + k /\ Len(ops) \in Nat
  BY <1>1
<1> QED
  BY <1>1, <1>2

(* What may join the queue: it may follow all that goes before it.         *)
Welcome == {o \in OpType : \A a \in Going : MayFollow(a, o)}

(* A queue in order stays in order when those that may join it do.         *)
LEMMA JoinOrder ==
    ASSUME Typed, OrderInv, Going \subseteq Going', batch' = batch,
           NEW k \in {1, 2}, Joins(k), NEW o \in Welcome, o \in Going', ops'[Len(ops) + k] = o,
           NEW m, k = 2 => /\ m \in Welcome /\ m \in Going' /\ MayFollow(m, o)
                           /\ ops'[Len(ops) + 1] = m
    PROVE  OrderInv'
<1>1. /\ DOMAIN ops = 1..Len(ops) /\ DOMAIN ops' = 1..Len(ops) + k /\ Len(ops) \in Nat
      /\ \A j \in DOMAIN ops : j \in DOMAIN ops' /\ ops'[j] = ops[j]
      /\ \A j \in DOMAIN ops' : \/ j \in DOMAIN ops
                                \/ j = Len(ops) + k
                                \/ k = 2 /\ j = Len(ops) + 1
  BY JoinedIs
<1>2. \A j \in DOMAIN ops' : \/ j \in DOMAIN ops /\ ops'[j] = ops[j]
                             \/ ops'[j] \in Welcome /\ ops'[j] \in Going'
  BY <1>1
<1>3. \A j \in DOMAIN ops' : ops'[j] \in Going'
  BY <1>2 DEF OrderInv
<1>4. \A i \in DOMAIN batch', j \in DOMAIN ops' : MayFollow(batch'[i], ops'[j])
  BY <1>2 DEF OrderInv, Welcome
<1>5. \A i, j \in DOMAIN ops' : i < j => MayFollow(ops'[i], ops'[j])
  <2> SUFFICES ASSUME NEW i \in DOMAIN ops', NEW j \in DOMAIN ops', i < j
               PROVE  MayFollow(ops'[i], ops'[j])
    OBVIOUS
  <2>1. CASE j \in DOMAIN ops
    <3>1. i \in DOMAIN ops
      BY <1>1, <2>1
    <3> QED
      BY <1>1, <2>1, <3>1 DEF OrderInv, Ordered
  <2>2. CASE j \notin DOMAIN ops /\ i \in DOMAIN ops
    BY <1>2, <1>1, <2>2 DEF Welcome, OrderInv
  <2>3. CASE j \notin DOMAIN ops /\ i \notin DOMAIN ops
    <3>1. k = 2 /\ i = Len(ops) + 1 /\ j = Len(ops) + 2
      BY <1>1, <2>3
    <3> QED
      BY <3>1
  <2> QED
    BY <2>1, <2>2, <2>3
<1>6. Ordered(ops')
  BY <1>5 DEF Ordered
<1>7. Ordered(batch') /\ \A i \in DOMAIN batch' : batch'[i] \in Going'
  BY DEF OrderInv
<1> QED
  BY <1>3, <1>4, <1>6, <1>7 DEF OrderInv

\* One operation joins, or one after the marker of what was dropped before.
LEMMA JoinOneOrder ==
    ASSUME Typed, OrderInv, Going \subseteq Going', batch' = batch,
           Joins(1), NEW o \in Welcome, o \in Going', ops'[Len(ops) + 1] = o
    PROVE  OrderInv'
<1>1. PICK k \in {1, 2} : k = 1
  OBVIOUS
<1> QED
  BY <1>1, JoinOrder

(* ... and when one joins it behind the marker of an earlier gap.          *)
LEMMA JoinMarkedOrder ==
    ASSUME Typed, OrderInv, Going \subseteq Going', batch' = batch,
           NEW s \in Sessions, Joins(MarkerLen(s) + 1),
           NEW o \in Welcome, o \in Going', ops'[Len(ops) + MarkerLen(s) + 1] = o,
           state'[s] # "new",
           gaps[s] > 0 => /\ ops'[Len(ops) + 1] = Op("Gap", s, gaps[s])
                          /\ Op("Gap", s, gaps[s]) \in Welcome
                          /\ MayFollow(Op("Gap", s, gaps[s]), o)
    PROVE  OrderInv'
<1>0. Len(ops) \in Nat /\ gaps[s] \in Nat
  BY OpsAreTyped DEF Typed
<1>1. CASE gaps[s] > 0
  <2>1. MarkerLen(s) = 1
    BY <1>1 DEF MarkerLen
  <2>2. PICK k \in {1, 2} : k = 2
    OBVIOUS
  <2>3. Joins(k) /\ ops'[Len(ops) + k] = o
    BY <1>0, <2>1, <2>2
  <2>4. Op("Gap", s, gaps[s]) \in Going'
    BY <1>0, <1>1 DEF Going, Op, OpType
  <2> QED
    BY <1>1, <2>3, <2>4, JoinOrder
<1>2. CASE ~(gaps[s] > 0)
  <2>1. MarkerLen(s) = 0
    BY <1>2 DEF MarkerLen
  <2>2. Joins(1) /\ ops'[Len(ops) + 1] = o
    BY <1>0, <2>1
  <2> QED
    BY <2>2, JoinOneOrder
<1> QED
  BY <1>1, <1>2

(* What may join the queue, by the state of its session.                   *)
LEMMA WelcomeIs ==
    ASSUME Typed, NEW s \in Sessions, NEW o \in OpType, o.session = s
    PROVE  /\ state[s] = "new" => o \in Welcome
           /\ state[s] = "running" /\ o.op # "Open" => o \in Welcome
           /\ state[s] = "failed to start" /\ o.op = "Discard" => o \in Welcome
BY DEF Welcome, Going, MayFollow

(* Every step keeps the operations of a session in order.                  *)
LEMMA OrderStep ==
    ASSUME Typed, WriterInv, OrderInv, FreshInv, [Next]_vars
    PROVE  OrderInv'
<1>0. ASSUME ~HostDies PROVE Going \subseteq Going'
  BY <1>0, GoingLasts
<1>1. CASE HostDies
  <2>1. batch' = <<>> /\ ops' = <<>>
    BY <1>1, HostDiesIs
  <2>2. DOMAIN batch' = {} /\ DOMAIN ops' = {}
    BY <2>1
  <2> QED
    BY <2>2 DEF OrderInv, Ordered
<1>2. ASSUME ~HostDies, batch' = batch, ops' = ops PROVE OrderInv'
  BY <1>0, <1>2 DEF OrderInv, Ordered
<1>3. ASSUME ~HostDies, batch' = <<>>, ops' = ops PROVE OrderInv'
  <2>1. DOMAIN <<>> = {}
    OBVIOUS
  <2> QED
    BY <1>0, <1>3, <2>1 DEF OrderInv, Ordered
<1>4. CASE ~HostDies /\ TakeBatch
  <2>1. batch' = ops /\ ops' = <<>> /\ DOMAIN <<>> = {}
    BY <1>4, TakeBatchIs
  <2> QED
    BY <1>0, <1>4, <2>1 DEF OrderInv, Ordered
<1>5. CASE ~HostDies /\ Applied
  <2>1. batch # <<>> /\ batch' = Tail(batch) /\ ops' = ops
    BY <1>5, AppliedIs
  <2>2. /\ Len(Tail(batch)) = Len(batch) - 1 /\ Len(batch) \in Nat
        /\ \A i \in 1..Len(batch) - 1 : Tail(batch)[i] = batch[i + 1]
        /\ Tail(batch) \in Seq(OpType)
    BY <2>1, HeadIs
  <2>3. DOMAIN Tail(batch) = 1..Len(batch) - 1 /\ DOMAIN batch = 1..Len(batch)
    BY <2>2, OpsAreTyped
  <2>4. \A i \in DOMAIN batch' : i + 1 \in DOMAIN batch /\ batch'[i] = batch[i + 1]
                                 /\ \A j \in DOMAIN batch' : i < j => i + 1 < j + 1
    BY <2>1, <2>2, <2>3
  <2> QED
    BY <1>0, <1>5, <2>1, <2>4 DEF OrderInv, Ordered
<1>6. ASSUME NEW s \in Sessions, Arm(s), ~HostDies PROVE OrderInv'
  <2>1. /\ state[s] = "new" /\ state'[s] = "running" /\ batch' = batch
        /\ Joins(1) /\ ops'[Len(ops) + 1] = Op("Open", s, 0)
    BY <1>6, ArmIs
  <2>2. Op("Open", s, 0) \in OpType /\ Op("Open", s, 0).session = s
    BY DEF Op, OpType
  <2>3. Op("Open", s, 0) \in Going'
    BY <2>1, <2>2 DEF Going, Op
  <2> QED
    BY <1>0, <1>6, <2>1, <2>2, <2>3, WelcomeIs, JoinOneOrder
<1>7. ASSUME NEW s \in Sessions, DropChunk(s), ~HostDies PROVE OrderInv'
  BY <1>2, <1>7, DropChunkIs
<1>8. ASSUME NEW s \in Sessions, NEW o \in OpType, o.session = s, o.op \in {"Data", "Close"},
             state[s] = "running", state'[s] # "new", o \in Going', ~HostDies, batch' = batch,
             Joins(MarkerLen(s) + 1), ops'[Len(ops) + MarkerLen(s) + 1] = o,
             gaps[s] > 0 => ops'[Len(ops) + 1] = Op("Gap", s, gaps[s])
      PROVE  OrderInv'
  <2>1. o \in Welcome
    BY <1>8, WelcomeIs
  <2>2. gaps[s] \in Nat
    BY DEF Typed
  <2>3. Op("Gap", s, gaps[s]) \in OpType /\ Op("Gap", s, gaps[s]).session = s
        /\ Op("Gap", s, gaps[s]).op = "Gap"
    BY <2>2 DEF Op, OpType
  <2>4. Op("Gap", s, gaps[s]) \in Welcome
    BY <1>8, <2>3, WelcomeIs
  <2>5. MayFollow(Op("Gap", s, gaps[s]), o)
    BY <1>8, <2>3 DEF MayFollow
  <2> QED
    BY <1>0, <1>8, <2>1, <2>4, <2>5, JoinMarkedOrder
<1>9. ASSUME NEW s \in Sessions, KeepChunk(s), ~HostDies PROVE OrderInv'
  <2>1. /\ state[s] = "running" /\ state' = state /\ batch' = batch
        /\ printed'[s] = printed[s] + 1
        /\ Joins(MarkerLen(s) + 1)
        /\ ops'[Len(ops) + MarkerLen(s) + 1] = Op("Data", s, printed[s] + 1)
        /\ gaps[s] > 0 => ops'[Len(ops) + 1] = Op("Gap", s, gaps[s])
    BY <1>9, KeepChunkIs
  <2>2. printed[s] \in Nat
    BY DEF Typed
  <2>3. Op("Data", s, printed[s] + 1) \in OpType
    BY <2>2 DEF Op, OpType
  <2>4. /\ Op("Data", s, printed[s] + 1).session = s /\ Op("Data", s, printed[s] + 1).op = "Data"
        /\ Op("Data", s, printed[s] + 1).n = printed[s] + 1
    BY DEF Op
  <2>5. Op("Data", s, printed[s] + 1) \in Going'
    BY <2>1, <2>2, <2>3, <2>4 DEF Going
  <2>6. state'[s] # "new"
    BY <2>1
  <2> QED
    BY <1>8, <1>9, <2>1, <2>3, <2>4, <2>5, <2>6
<1>10. ASSUME NEW s \in Sessions, NEW now, Ends(s, now), ~HostDies PROVE OrderInv'
  <2>1. Close(s, now) /\ state[s] = "running" /\ state'[s] \in {"ended", "failed to start"}
        /\ batch' = batch
    BY <1>10, EndsIs, ClosedNow, CloseIs
  <2>2. CASE shutdown
    BY <1>2, <1>10, <2>1, <2>2, CloseIs
  <2>3. CASE ~shutdown
    <3>1. /\ gaps'[s] = 0
          /\ Joins(MarkerLen(s) + 1)
          /\ ops'[Len(ops) + MarkerLen(s) + 1] = Op("Close", s, 0)
          /\ gaps[s] > 0 => ops'[Len(ops) + 1] = Op("Gap", s, gaps[s])
      BY <2>1, <2>3, CloseIs
    <3>2. /\ Op("Close", s, 0) \in OpType /\ Op("Close", s, 0).session = s
          /\ Op("Close", s, 0).op = "Close"
      BY DEF Op, OpType
    <3>3. Op("Close", s, 0) \in Going' /\ state'[s] # "new"
      BY <2>1, <3>1, <3>2 DEF Going
    <3> QED
      BY <1>8, <1>10, <2>1, <3>1, <3>2, <3>3
  <2> QED
    BY <2>2, <2>3
<1>11. ASSUME NEW s \in Sessions, Discard(s), ~HostDies PROVE OrderInv'
  <2>1. state[s] = "failed to start" /\ state'[s] = "ended" /\ batch' = batch /\ printed' = printed
    BY <1>11, DiscardIs
  <2>2. CASE shutdown
    BY <1>2, <1>11, <2>1, <2>2, DiscardIs
  <2>3. CASE ~shutdown
    <3>1. Joins(1) /\ ops'[Len(ops) + 1] = Op("Discard", s, 0)
      BY <1>11, <2>3, DiscardIs
    <3>2. /\ Op("Discard", s, 0) \in OpType /\ Op("Discard", s, 0).session = s
          /\ Op("Discard", s, 0).op = "Discard"
      BY DEF Op, OpType
    <3>3. printed'[s] = 0
      BY <2>1 DEF FreshInv
    <3>4. Op("Discard", s, 0) \in Going'
      BY <2>1, <3>2, <3>3 DEF Going
    <3>5. Op("Discard", s, 0) \in Welcome
      BY <2>1, <3>2, WelcomeIs
    <3> QED
      BY <1>0, <1>11, <2>1, <3>1, <3>4, <3>5, JoinOneOrder
  <2> QED
    BY <2>2, <2>3
<1>12. CASE ~HostDies /\ (UNCHANGED vars \/ Reads \/ Shutdown \/ (Wait \/ SyncIdle \/ Stopped \/ BatchDone))
  BY <1>2, <1>12, VarsSame, ReadUnread, ShutdownIs, IdleIs DEF Reads
<1>13. CASE ~HostDies /\ \/ ApplyOpen \/ ApplyDiscard \/ AppendSkipped \/ WriteItem \/ Rename \/ NewSegment
                         \/ AppendFails \/ Enforce \/ Panic \/ PanicInMarker \/ BatchFails
  BY <1>2, <1>13 DEF ApplyOpen, ApplyDiscard, AppendSkipped, WriteItem, Rename, NewSegment,
        AppendFails, Enforce, Panic, PanicInMarker, BatchFails, queueVars
<1>14. CASE ~HostDies /\ BatchReleased
  BY <1>3, <1>14, BatchReleasedIs
<1> QED
  BY Steps, <1>1, <1>4, <1>5, <1>6, <1>7, <1>9, <1>10, <1>11, <1>12, <1>13, <1>14

(* The operation in hand is the last that may open its session's log.      *)
LEMMA HeadOrder ==
    ASSUME Typed, OrderInv, batch # <<>>
    PROVE  /\ Current \in Going /\ state[Current.session] # "new"
           /\ \A j \in DOMAIN Tail(batch) : /\ Tail(batch)[j] \in Going
                                            /\ MayFollow(Current, Tail(batch)[j])
           /\ \A j \in DOMAIN ops : MayFollow(Current, ops[j])
           /\ ~HasOpen(Tail(batch), Current.session) /\ ~HasOpen(ops, Current.session)
           /\ Current.op # "Open" => ~HasOpen(batch, Current.session)
<1>1. /\ Current = batch[1] /\ Len(batch) \in Nat /\ Len(batch) > 0
      /\ Tail(batch) \in Seq(OpType) /\ Len(Tail(batch)) = Len(batch) - 1
      /\ \A i \in 1..Len(batch) - 1 : Tail(batch)[i] = batch[i + 1]
  BY HeadIs
<1>2. DOMAIN batch = 1..Len(batch) /\ DOMAIN Tail(batch) = 1..Len(batch) - 1
  BY <1>1, OpsAreTyped
<1>3. 1 \in DOMAIN batch
  BY <1>1, <1>2
<1>4. Current \in Going
  BY <1>1, <1>3 DEF OrderInv
<1>5. \A j \in DOMAIN batch : j = 1 \/ MayFollow(Current, batch[j])
  <2>1. \A j \in DOMAIN batch : j = 1 \/ 1 < j
    BY <1>2
  <2> QED
    BY <1>1, <1>3, <2>1 DEF OrderInv, Ordered
<1>6. \A j \in DOMAIN Tail(batch) : /\ Tail(batch)[j] \in Going
                                    /\ MayFollow(Current, Tail(batch)[j])
  <2>1. \A j \in DOMAIN Tail(batch) : j + 1 \in DOMAIN batch /\ j + 1 # 1
                                      /\ Tail(batch)[j] = batch[j + 1]
    BY <1>1, <1>2
  <2> QED
    BY <1>5, <2>1 DEF OrderInv
<1>7. \A j \in DOMAIN ops : MayFollow(Current, ops[j])
  BY <1>1, <1>3 DEF OrderInv
<1>8. Current.op # "Open" => ~HasOpen(batch, Current.session)
  BY <1>1, <1>5 DEF HasOpen, MayFollow
<1>9. state[Current.session] # "new"
  BY <1>4 DEF Going
<1> QED
  BY <1>4, <1>6, <1>7, <1>8, <1>9 DEF HasOpen, MayFollow

(* A sweep leaves nothing where there was nothing.                         *)
LEMMA KeptNone ==
    ASSUME NEW g \in SegmentType, Kept(NoSegments, g) PROVE g = NoSegments
<1>1. /\ g.newest = 0 /\ g.previousFrom = 0 /\ g.currentFrom = 0
      /\ g.previous = FALSE /\ g.current = FALSE
  BY DEF Kept, NoSegments, SegmentType
<1> QED
  BY <1>1 DEF NoSegments, SegmentType

(* What is new in a queue that one operation joined,                       *)
LEMMA JoinOneOf ==
    ASSUME Typed, Joins(1), NEW o, ops'[Len(ops) + 1] = o
    PROVE  \A j \in DOMAIN ops' : (j \in DOMAIN ops /\ ops'[j] = ops[j]) \/ ops'[j] = o
<1>1. PICK k \in {1, 2} : k = 1
  OBVIOUS
<1> QED
  BY <1>1, JoinedIs

(* ... or one behind the marker of an earlier gap.                         *)
LEMMA JoinMarkedOf ==
    ASSUME Typed, NEW s \in Sessions, Joins(MarkerLen(s) + 1), NEW o,
           ops'[Len(ops) + MarkerLen(s) + 1] = o,
           gaps[s] > 0 => ops'[Len(ops) + 1] = Op("Gap", s, gaps[s])
    PROVE  \A j \in DOMAIN ops' : \/ j \in DOMAIN ops /\ ops'[j] = ops[j]
                                  \/ j > Len(ops) /\ ops'[j] = o
                                  \/ j > Len(ops) /\ gaps[s] > 0 /\ ops'[j] = Op("Gap", s, gaps[s])
<1>0. Len(ops) \in Nat /\ gaps[s] \in Nat
  BY OpsAreTyped DEF Typed
<1>1. CASE gaps[s] > 0
  <2>1. MarkerLen(s) = 1
    BY <1>1 DEF MarkerLen
  <2>2. PICK k \in {1, 2} : k = 2
    OBVIOUS
  <2>3. Joins(k) /\ ops'[Len(ops) + k] = o
    BY <1>0, <2>1, <2>2
  <2>4. \A j \in DOMAIN ops' : \/ j \in DOMAIN ops /\ ops'[j] = ops[j]
                               \/ j = Len(ops) + 2 \/ j = Len(ops) + 1
    BY <2>2, <2>3, JoinedIs
  <2> QED
    BY <1>0, <1>1, <2>2, <2>3, <2>4
<1>2. CASE ~(gaps[s] > 0)
  <2>1. MarkerLen(s) = 0
    BY <1>2 DEF MarkerLen
  <2>2. PICK k \in {1, 2} : k = 1
    OBVIOUS
  <2>3. Joins(k) /\ ops'[Len(ops) + k] = o
    BY <1>0, <2>1, <2>2
  <2>4. \A j \in DOMAIN ops' : \/ j \in DOMAIN ops /\ ops'[j] = ops[j]
                               \/ j = Len(ops) + 1
    BY <2>2, <2>3, JoinedIs
  <2> QED
    BY <1>0, <2>2, <2>3, <2>4
<1> QED
  BY <1>1, <1>2

(* Every step leaves a session whose Open is to come without a log.        *)
LEMMA FreshStep ==
    ASSUME Typed, WriterInv, OrderInv, FreshInv, [Next]_vars
    PROVE  FreshInv'
<1> SUFFICES ASSUME NEW s \in Sessions
             PROVE  /\ HasOpen(Rest', s) => s \in Fresh' /\ (writer' # "failed" => s \notin failures')
                    /\ HasOpen(ops', s) => s \in Fresh' /\ s \notin failures'
                    /\ state'[s] = "new" =>
                           printed'[s] = 0 /\ gaps'[s] = 0 /\ s \in Fresh' /\ s \notin failures'
                    /\ state'[s] = "failed to start" => printed'[s] = 0
                    /\ s \in recording' => state'[s] = "running"
  BY DEF FreshInv
<1> DEFINE Goal == /\ HasOpen(Rest', s) => s \in Fresh' /\ (writer' # "failed" => s \notin failures')
                   /\ HasOpen(ops', s) => s \in Fresh' /\ s \notin failures'
                   /\ state'[s] = "new" =>
                          printed'[s] = 0 /\ gaps'[s] = 0 /\ s \in Fresh' /\ s \notin failures'
                   /\ state'[s] = "failed to start" => printed'[s] = 0
                   /\ s \in recording' => state'[s] = "running"
<1>0. /\ HasOpen(Rest, s) => s \in Fresh /\ (writer # "failed" => s \notin failures)
      /\ HasOpen(ops, s) => s \in Fresh /\ s \notin failures
      /\ state[s] = "new" => printed[s] = 0 /\ gaps[s] = 0 /\ s \in Fresh /\ s \notin failures
      /\ state[s] = "failed to start" => printed[s] = 0
      /\ s \in recording => state[s] = "running"
  BY DEF FreshInv
<1>1. ASSUME s \in Fresh => s \in Fresh', s \notin failures => s \notin failures',
             HasOpen(Rest', s) => \/ HasOpen(ops, s)
                                  \/ HasOpen(Rest, s) /\ (writer = "failed" => writer' = "failed"),
             HasOpen(ops', s) => HasOpen(ops, s),
             UNCHANGED <<state, printed, gaps, recording>>
      PROVE  Goal
  BY <1>0, <1>1
<1>2. ASSUME ~HasOpen(Rest', s), ~HasOpen(ops', s), state[s] # "new",
             UNCHANGED <<state, printed, recording>>
      PROVE  Goal
  BY <1>0, <1>2
\* What the sessions do changes no log.
<1>3. ASSUME Still, UNCHANGED <<saved, segments, logs, failures>>
      PROVE  /\ s \in Fresh <=> s \in Fresh'
             /\ s \notin failures <=> s \notin failures'
             /\ HasOpen(Rest', s) => HasOpen(Rest, s)
             /\ writer = "failed" => writer' = "failed"
  BY <1>3, StillIs DEF Fresh, Still
<1>4. CASE UNCHANGED vars \/ Reads \/ Shutdown
  <2>1. /\ Still /\ UNCHANGED <<saved, segments, logs, failures, state, printed, gaps, recording>>
        /\ ops' = ops
    BY <1>4, VarsSame, ReadUnread, ShutdownIs DEF Still, Reads
  <2> QED
    BY <1>1, <1>3, <2>1
<1>5. ASSUME NEW c \in Sessions, Arm(c) PROVE Goal
  <2>1. /\ state[c] = "new" /\ state'[c] = "running"
        /\ \A d \in Others(c) : state'[d] = state[d] /\ gaps'[d] = gaps[d]
        /\ recording' = recording \cup {c}
        /\ Joins(1) /\ ops'[Len(ops) + 1] = Op("Open", c, 0)
        /\ UNCHANGED <<batch, saved, segments, logs, failures, printed>>
    BY <1>5, ArmIs
  <2>2. Still
    BY <2>1 DEF Joins, Still
  <2>3. \A j \in DOMAIN ops' : (j \in DOMAIN ops /\ ops'[j] = ops[j]) \/ ops'[j] = Op("Open", c, 0)
    BY <2>1, JoinOneOf
  <2>4. s # c => (HasOpen(ops', s) => HasOpen(ops, s))
    BY <2>3 DEF HasOpen, Op
  <2>5. CASE s = c
    BY <1>0, <1>3, <2>1, <2>2, <2>5
  <2>6. CASE s # c
    BY <1>0, <1>3, <2>1, <2>2, <2>4, <2>6 DEF Others
  <2> QED
    BY <2>5, <2>6
<1>6. ASSUME NEW c \in Sessions, DropChunk(c) PROVE Goal
  <2>1. /\ state[c] = "running"
        /\ \A d \in Others(c) : printed'[d] = printed[d] /\ gaps'[d] = gaps[d]
        /\ UNCHANGED <<batch, writer, saved, segments, logs, failures, state, recording, ops>>
    BY <1>6, DropChunkIs
  <2>2. Still
    BY <2>1 DEF Still
  <2> QED
    BY <1>0, <1>3, <2>1, <2>2 DEF Others
<1>7. ASSUME NEW c \in Sessions, KeepChunk(c) PROVE Goal
  <2>1. /\ state[c] = "running"
        /\ \A d \in Others(c) : printed'[d] = printed[d] /\ gaps'[d] = gaps[d]
        /\ Joins(MarkerLen(c) + 1)
        /\ ops'[Len(ops) + MarkerLen(c) + 1] = Op("Data", c, printed[c] + 1)
        /\ gaps[c] > 0 => ops'[Len(ops) + 1] = Op("Gap", c, gaps[c])
        /\ UNCHANGED <<batch, saved, segments, logs, failures, state, recording>>
    BY <1>7, KeepChunkIs
  <2>2. Still
    BY <2>1 DEF Joins, Still
  <2>3. \A j \in DOMAIN ops' : \/ j \in DOMAIN ops /\ ops'[j] = ops[j]
                               \/ ops'[j] = Op("Data", c, printed[c] + 1)
                               \/ ops'[j] = Op("Gap", c, gaps[c])
    BY <2>1, JoinMarkedOf
  <2>4. HasOpen(ops', s) => HasOpen(ops, s)
    BY <2>3 DEF HasOpen, Op
  <2> QED
    BY <1>0, <1>3, <2>1, <2>2, <2>4 DEF Others
<1>8. ASSUME NEW c \in Sessions, NEW now, Ends(c, now) PROVE Goal
  <2>1. Close(c, now) /\ (now = "failed to start" => printed[c] = 0)
    BY <1>8, EndsIs
  <2>2. /\ state[c] = "running" /\ state'[c] = now /\ state'[c] \in {"ended", "failed to start"}
        /\ \A d \in Others(c) : state'[d] = state[d] /\ gaps'[d] = gaps[d]
        /\ recording' = recording \ {c}
        /\ UNCHANGED <<batch, saved, segments, logs, failures, printed>>
    BY <1>8, <2>1, ClosedNow, CloseIs
  <2>3. Still /\ (HasOpen(ops', s) => HasOpen(ops, s))
    <3>1. CASE shutdown
      BY <2>1, <2>2, <3>1, CloseIs DEF Still
    <3>2. CASE ~shutdown
      <4>1. /\ Joins(MarkerLen(c) + 1)
            /\ ops'[Len(ops) + MarkerLen(c) + 1] = Op("Close", c, 0)
            /\ gaps[c] > 0 => ops'[Len(ops) + 1] = Op("Gap", c, gaps[c])
        BY <2>1, <3>2, CloseIs
      <4>2. \A j \in DOMAIN ops' : \/ j \in DOMAIN ops /\ ops'[j] = ops[j]
                                   \/ ops'[j] = Op("Close", c, 0)
                                   \/ ops'[j] = Op("Gap", c, gaps[c])
        BY <4>1, JoinMarkedOf
      <4>3. HasOpen(ops', s) => HasOpen(ops, s)
        BY <4>2 DEF HasOpen, Op
      <4>4. Still
        BY <2>2, <4>1 DEF Joins, Still
      <4> QED
        BY <4>3, <4>4
    <3> QED
      BY <3>1, <3>2
  <2> QED
    BY <1>0, <1>3, <2>1, <2>2, <2>3 DEF Others
<1>9. ASSUME NEW c \in Sessions, Discard(c) PROVE Goal
  <2>2. /\ state[c] = "failed to start" /\ state'[c] = "ended"
        /\ \A d \in Others(c) : state'[d] = state[d]
        /\ UNCHANGED <<batch, saved, segments, logs, failures, printed, gaps, recording>>
    BY <1>9, DiscardIs
  <2>3. Still /\ (HasOpen(ops', s) => HasOpen(ops, s))
    <3>1. CASE shutdown
      BY <1>9, <2>2, <3>1, DiscardIs DEF Still
    <3>2. CASE ~shutdown
      <4>1. Joins(1) /\ ops'[Len(ops) + 1] = Op("Discard", c, 0)
        BY <1>9, <3>2, DiscardIs
      <4>2. \A j \in DOMAIN ops' : (j \in DOMAIN ops /\ ops'[j] = ops[j]) \/ ops'[j] = Op("Discard", c, 0)
        BY <4>1, JoinOneOf
      <4>3. HasOpen(ops', s) => HasOpen(ops, s)
        BY <4>2 DEF HasOpen, Op
      <4>4. Still
        BY <2>2, <4>1 DEF Joins, Still
      <4> QED
        BY <4>3, <4>4
    <3> QED
      BY <3>1, <3>2
  <2> QED
    BY <1>0, <1>3, <2>2, <2>3 DEF Others
<1>10. CASE TakeBatch
  <2>1. /\ batch' = ops /\ ops' = <<>> /\ writer' = "applying"
        /\ UNCHANGED <<saved, segments, logs, failures, state, printed, gaps, recording>>
    BY <1>10, TakeBatchIs
  <2>2. Rest' = ops
    BY <2>1 DEF Rest, Written
  <2>3. ~HasOpen(ops', s)
    BY <2>1 DEF HasOpen
  <2>4. s \in Fresh => s \in Fresh'
    BY <2>1 DEF Fresh
  <2> QED
    BY <1>1, <2>1, <2>2, <2>3, <2>4
<1>11. CASE Wait \/ SyncIdle \/ Stopped \/ BatchDone
  <2>1. /\ writer \in {"looking", "waiting", "applying"}
        /\ writer' \in {"looking", "waiting", "stopped"}
        /\ logs' \subseteq logs
        /\ UNCHANGED <<batch, ops, saved, segments, failures, state, printed, gaps, recording>>
    BY <1>11, IdleIs
  <2>2. Rest' = Rest
    BY <2>1 DEF Rest, Written
  <2>3. s \in Fresh => s \in Fresh'
    BY <2>1 DEF Fresh
  <2> QED
    BY <1>1, <2>1, <2>2, <2>3
\* The head of the batch: nothing is left that may open its log.
<1>12. ASSUME batch # <<>>, writer # "failed", ops' = ops,
              Rest' = Tail(batch) \/ (Rest' = Rest /\ Rest = batch /\ Current.op # "Open"),
              Rest = batch \/ Rest = Tail(batch),
              UNCHANGED <<state, printed, gaps, recording>>,
              s # Current.session =>
                  /\ saved'[s] = saved[s] /\ segments'[s] = segments[s] /\ (s \in logs' => s \in logs)
                  /\ s \notin failures => s \notin failures'
       PROVE  Goal
  <2>1. /\ state[Current.session] # "new"
        /\ ~HasOpen(Tail(batch), Current.session) /\ ~HasOpen(ops, Current.session)
        /\ Current.op # "Open" => ~HasOpen(batch, Current.session)
    BY <1>12, HeadOrder
  <2>2. CASE s = Current.session
    BY <1>2, <1>12, <2>1, <2>2
  <2>3. CASE s # Current.session
    <3>1. s \in Fresh => s \in Fresh'
      BY <1>12, <2>3 DEF Fresh
    <3>2. HasOpen(Tail(batch), s) => HasOpen(batch, s)
      <4>1. /\ Tail(batch) \in Seq(OpType) /\ Len(Tail(batch)) = Len(batch) - 1
            /\ \A i \in 1..Len(batch) - 1 : Tail(batch)[i] = batch[i + 1]
            /\ Len(batch) \in Nat /\ DOMAIN batch = 1..Len(batch)
        BY <1>12, HeadIs, OpsAreTyped
      <4>2. \A j \in DOMAIN Tail(batch) : j + 1 \in DOMAIN batch /\ Tail(batch)[j] = batch[j + 1]
        BY <4>1
      <4> QED
        BY <4>2 DEF HasOpen
    <3>3. HasOpen(Rest', s) => HasOpen(Rest, s)
      BY <1>12, <3>2
    <3> QED
      BY <1>1, <1>12, <2>3, <3>1, <3>3
  <2> QED
    BY <2>2, <2>3
<1>13. CASE ApplyOpen
  <2>1. /\ Leaves /\ writer # "failed"
        /\ UNCHANGED <<state, printed, gaps, recording, ops, saved>>
    BY <1>13, ApplyOpenIs DEF Leaves
  <2>2. s # Current.session =>
            segments'[s] = segments[s] /\ (s \in logs' => s \in logs) /\ (s \notin failures => s \notin failures')
    BY <1>13, ApplyOpenIs DEF Others
  <2> QED
    BY <1>12, <2>1, <2>2, LeavesIs DEF Leaves
<1>14. CASE ApplyDiscard
  <2>1. /\ Leaves /\ writer # "failed"
        /\ UNCHANGED <<state, printed, gaps, recording, ops, saved, logs>>
    BY <1>14, ApplyDiscardIs DEF Leaves
  <2>2. s # Current.session => segments'[s] = segments[s] /\ (s \notin failures => s \notin failures')
    BY <1>14, ApplyDiscardIs DEF Others
  <2> QED
    BY <1>12, <2>1, <2>2, LeavesIs DEF Leaves
<1>15. CASE AppendSkipped \/ AppendFails
  <2>1. /\ Leaves /\ writer # "failed"
        /\ UNCHANGED <<state, printed, gaps, recording, ops, saved, segments>>
    BY <1>15, AppendSkippedIs, AppendFailsIs DEF Leaves, Ready
  <2>2. s # Current.session => (s \in logs' => s \in logs) /\ (s \notin failures => s \notin failures')
    BY <1>15, AppendSkippedIs, AppendFailsIs DEF Closes
  <2> QED
    BY <1>12, <2>1, <2>2, LeavesIs DEF Leaves
<1>16. CASE WriteItem
  <2>1. /\ Leaves /\ writer # "failed"
        /\ UNCHANGED <<state, printed, gaps, recording, ops, segments, failures>>
    BY <1>16, WriteItemIs DEF Leaves, Ready
  <2>2. s # Current.session => saved'[s] = saved[s] /\ (s \in logs' => s \in logs)
    BY <1>16, WriteItemIs DEF Others, LogsAfter, Closes
  <2> QED
    BY <1>12, <2>1, <2>2, LeavesIs DEF Leaves
<1>17. CASE Rename \/ NewSegment
  <2>1. /\ batch # <<>> /\ batch' = batch /\ Current.op # "Open"
        /\ writer \in {"applying", "renamed"} /\ writer' \in {"renamed", "rotated"}
        /\ UNCHANGED <<state, printed, gaps, recording, ops, saved, failures>>
    BY <1>17, RenameIs, NewSegmentIs DEF Ready
  <2>2. s # Current.session => segments'[s] = segments[s] /\ (s \in logs' => s \in logs)
    BY <1>17, RenameIs, NewSegmentIs DEF Others, LogsAfter, Closes
  <2>3. Rest = batch /\ Rest' = Rest
    BY <2>1 DEF Rest, Written
  <2> QED
    BY <1>12, <2>1, <2>2, <2>3
<1>18. CASE Enforce
  <2>1. /\ batch' = batch /\ writer = "enforcing" /\ writer' = "applied"
        /\ segments' \in [Sessions -> SegmentType] /\ Kept(segments[s], segments'[s])
        /\ UNCHANGED <<state, printed, gaps, recording, ops, saved, failures, logs>>
    BY <1>18, EnforceIs
  <2>2. Rest' = Rest
    BY <2>1 DEF Rest, Written
  <2>3. s \in Fresh => s \in Fresh'
    BY <2>1, KeptNone DEF Fresh
  <2> QED
    BY <1>1, <2>1, <2>2, <2>3
<1>19. CASE Applied
  <2>1. /\ batch' = Tail(batch) /\ writer = "applied" /\ writer' = "applying"
        /\ UNCHANGED <<state, printed, gaps, recording, ops, saved, segments, failures, logs>>
    BY <1>19, AppliedIs
  <2>2. Rest' = Rest
    BY <2>1 DEF Rest, Written
  <2>3. s \in Fresh => s \in Fresh'
    BY <2>1 DEF Fresh
  <2> QED
    BY <1>1, <2>1, <2>2, <2>3
<1>20. CASE Panic \/ PanicInMarker
  <2>1. /\ batch # <<>> /\ batch' = batch /\ writer \in {"applying", "renamed", "rotated", "enforcing"}
        /\ writer' = "unwinding" /\ logs' \subseteq logs
        /\ UNCHANGED <<state, printed, gaps, recording, ops, saved, segments, failures>>
    BY <1>20, PanicIs, PanicInMarkerIs
  <2>2. Rest' = Tail(batch) /\ (Rest = batch \/ Rest = Tail(batch))
    BY <2>1 DEF Rest, Written
  <2> QED
    BY <1>12, <2>1, <2>2
<1>21. CASE BatchFails
  <2>1. /\ batch' = batch /\ writer = "unwinding" /\ writer' = "failed"
        /\ \A c \in failures' \ failures : \E i \in DOMAIN batch : batch[i].session = c
        /\ UNCHANGED <<state, printed, gaps, recording, ops, saved, segments, logs>>
    BY <1>21, BatchFailsIs
  <2>2. Rest' = Rest
    BY <2>1 DEF Rest, Written
  <2>3. s \in Fresh => s \in Fresh'
    BY <2>1 DEF Fresh
  <2>4. s \in failures' /\ s \notin failures => ~HasOpen(ops, s) /\ state[s] # "new"
    BY <2>1 DEF OrderInv, MayFollow, HasOpen, Going
  <2> QED
    BY <1>0, <2>1, <2>2, <2>3, <2>4
<1>22. CASE BatchReleased
  <2>1. /\ batch' = <<>> /\ writer' \in {"looking", "given up"}
        /\ UNCHANGED <<state, printed, gaps, recording, ops, saved, segments, failures, logs>>
    BY <1>22, BatchReleasedIs
  <2>0. Rest' = <<>>
    BY <2>1 DEF Rest, Written
  <2>2. ~HasOpen(Rest', s)
    BY <2>0 DEF HasOpen
  <2>3. s \in Fresh => s \in Fresh'
    BY <2>1 DEF Fresh
  <2> QED
    BY <1>1, <2>1, <2>2, <2>3
<1>23. CASE HostDies
  <2>1. /\ batch' = <<>> /\ ops' = <<>> /\ writer' = "looking" /\ failures' = {} /\ logs' = {}
        /\ recording' = {} /\ gaps'[s] = 0
        /\ state'[s] = IF state[s] = "new" THEN "new" ELSE "ended"
        /\ segments' \in [Sessions -> SegmentType] /\ Kept(segments[s], segments'[s])
        /\ UNCHANGED <<printed, saved>>
    BY <1>23, HostDiesIs
  <2>2. ~HasOpen(Rest', s) /\ ~HasOpen(ops', s)
    BY <2>1 DEF Rest, Written, HasOpen
  <2>3. s \in Fresh => s \in Fresh'
    BY <2>1, KeptNone DEF Fresh
  <2> QED
    BY <1>0, <2>1, <2>2, <2>3
<1> QED
  BY Steps, <1>4, <1>5, <1>6, <1>7, <1>8, <1>9, <1>10, <1>11, <1>13, <1>14, <1>15, <1>16, <1>17,
     <1>18, <1>19, <1>20, <1>21, <1>22, <1>23

-----------------------------------------------------------------------------
(* The ledger: what a step moves from one part of the sum to another.      *)

(* A queue that names a session in no operation weighs nothing for it.     *)
LEMMA NoneOf ==
    ASSUME NEW q \in Seq(OpType), NEW s, ~HasOp(q, s)
    PROVE  Weight(q, s, Len(q)) = 0
<1>1. Len(q) \in 0..Len(q) /\ \A i \in 1..Len(q) : i \in DOMAIN q
  OBVIOUS
<1>2. \A i \in 1..Len(q) : WeightOf(q[i], s) = 0
  BY <1>1 DEF HasOp, WeightOf
<1> QED
  BY <1>1, <1>2, QueueZero

\* The chunk in hand is the next of its log.
LEMMA HeadInTurn ==
    ASSUME Typed, batch # <<>>, ~Written, InTurn(Current.session), Current.op = "Data"
    PROVE  Current.n = InLog(Current.session) + 1
<1>1. Rest = batch
  BY DEF Rest
<1>2. batch \in Seq(OpType) /\ Current = batch[1] /\ Len(batch) > 0 /\ Len(batch) \in Nat
  BY HeadIs DEF Typed
<1>3. 1 \in DOMAIN batch /\ 0 \in Nat /\ 0 < Len(batch) /\ 0 + 1 = 1
  BY <1>2
<1>4. Current.n = InLog(Current.session) + Weight(batch, Current.session, 1)
  BY <1>1, <1>2, <1>3 DEF InTurn
<1>5. Weight(batch, Current.session, 0 + 1) = Weight(batch, Current.session, 0) + WeightOf(batch[0 + 1], Current.session)
  BY <1>2, <1>3, QueueNext
<1>6. Weight(batch, Current.session, 0) = 0
  BY <1>2, QueueNone
<1>7. WeightOf(Current, Current.session) = 1
  BY DEF WeightOf
<1>8. Weight(batch, Current.session, 1) = 1
  BY <1>2, <1>3, <1>5, <1>6, <1>7
<1> QED
  BY <1>4, <1>8

\* What leaves the batch is in the log.
LEMMA LeavesInTurn ==
    ASSUME Typed, WriterInv, Leaves, ops' = ops, NEW s \in Sessions, InTurn(s),
           InLog(s)' = InLog(s) + WeightOf(Current, s)
    PROVE  InTurn(s)'
<1>1. Rest = batch /\ Rest' = Tail(batch) /\ batch # <<>>
  BY LeavesIs DEF Leaves
<1>2. /\ batch \in Seq(OpType) /\ Tail(batch) \in Seq(OpType) /\ Current = batch[1]
      /\ Len(batch) \in Nat /\ Len(batch) > 0 /\ Len(Tail(batch)) = Len(batch) - 1
      /\ \A i \in 1..Len(batch) - 1 : Tail(batch)[i] = batch[i + 1]
  BY <1>1, HeadIs DEF Typed
<1>3. InLog(s) \in Nat /\ WeightOf(Current, s) \in Nat /\ WeightLeft(s) \in Nat
  <2>1. Current \in OpType
    BY <1>1, HeadIs
  <2> QED
    BY <2>1, SumsAreNat DEF WeightOf, OpType
<1>4. ASSUME NEW i \in DOMAIN Tail(batch), Tail(batch)[i].op = "Data", Tail(batch)[i].session = s
      PROVE  Tail(batch)[i].n = InLog(s)' + Weight(Tail(batch), s, i)
  <2>1. i \in 0..Len(batch) - 1 /\ i + 1 \in DOMAIN batch /\ Tail(batch)[i] = batch[i + 1]
        /\ i \in 0..Len(Tail(batch))
    BY <1>2
  <2>2. batch[i + 1].n = InLog(s) + Weight(batch, s, i + 1)
    BY <1>1, <1>4, <2>1 DEF InTurn
  <2>3. Weight(batch, s, i + 1) = WeightOf(Current, s) + Weight(Tail(batch), s, i)
    BY <1>1, <1>2, <2>1, QueueTail
  <2>4. Weight(Tail(batch), s, i) \in Nat
    BY <1>2, <2>1, QueueNat
  <2> QED
    BY <1>3, <2>1, <2>2, <2>3, <2>4
<1>5. WeightLeft(s) = WeightOf(Current, s) + WeightLeft(s)'
  BY LeavesSums
<1>6. WeightLeft(s)' \in Nat
  <2>1. Len(Tail(batch)) \in 0..Len(Tail(batch))
    BY <1>2
  <2>2. Weight(Tail(batch), s, Len(Tail(batch))) \in Nat
    BY <1>2, <2>1, QueueNat
  <2> QED
    BY <1>1, <2>2 DEF WeightLeft
<1>7. ASSUME NEW i \in DOMAIN ops, ops[i].op = "Data", ops[i].session = s
      PROVE  ops[i].n = InLog(s)' + WeightLeft(s)' + Weight(ops, s, i)
  <2>1. ops[i].n = InLog(s) + WeightLeft(s) + Weight(ops, s, i)
    BY <1>7 DEF InTurn
  <2>2. Weight(ops, s, i) \in Nat
    <3>1. ops \in Seq(OpType)
      BY DEF Typed
    <3>2. i \in 0..Len(ops)
      BY <3>1
    <3> QED
      BY <3>1, <3>2, QueueNat
  <2> QED
    BY <1>3, <1>5, <1>6, <2>1, <2>2
<1> QED
  BY <1>1, <1>4, <1>7 DEF InTurn

\* What joins the queue is in turn.
LEMMA JoinsInTurn ==
    ASSUME Typed, Still, NEW s \in Sessions, InTurn(s), InLog(s)' = InLog(s),
           \A n \in 0..Len(ops) : Weight(ops', s, n) = Weight(ops, s, n),
           \A j \in DOMAIN ops' :
               \/ j \in DOMAIN ops /\ ops'[j] = ops[j]
               \/ ops'[j].op # "Data" \/ ops'[j].session # s
               \/ ops'[j].n = InLog(s) + WeightLeft(s) + Weight(ops', s, j)
    PROVE  InTurn(s)'
<1>1. Rest' = Rest
  BY StillIs
<1>2. WeightLeft(s)' = WeightLeft(s)
  BY <1>1 DEF WeightLeft
<1>3. \A j \in DOMAIN ops : j \in 0..Len(ops)
  BY OpsAreTyped
<1>4. ASSUME NEW j \in DOMAIN ops', ops'[j].op = "Data", ops'[j].session = s
      PROVE  ops'[j].n = InLog(s) + WeightLeft(s) + Weight(ops', s, j)
  <2>1. CASE j \in DOMAIN ops /\ ops'[j] = ops[j]
    BY <1>3, <1>4, <2>1 DEF InTurn
  <2> QED
    BY <1>4, <2>1
<1> QED
  BY <1>1, <1>2, <1>4 DEF InTurn

(* Of a session that printed nothing no chunk is queued.                   *)
LEMMA NoneInTurn ==
    ASSUME Typed, WriterInv, OrderInv, NEW s, printed[s] = 0
    PROVE  /\ \A i \in DOMAIN Rest : ~(Rest[i].op = "Data" /\ Rest[i].session = s)
           /\ \A i \in DOMAIN Tail(batch) : batch # <<>> => ~(Tail(batch)[i].op = "Data" /\ Tail(batch)[i].session = s)
           /\ \A i \in DOMAIN ops : ~(ops[i].op = "Data" /\ ops[i].session = s)
<1>1. \A o \in Going : ~(o.op = "Data" /\ o.session = s)
  BY DEF Going, OpType
<1>2. \A i \in DOMAIN batch : batch[i] \in Going
  BY DEF OrderInv
<1>3. \A i \in DOMAIN ops : ops[i] \in Going
  BY DEF OrderInv
<1>4. batch # <<>> => \A i \in DOMAIN Tail(batch) : Tail(batch)[i] \in Going
  BY HeadOrder
<1>5. \A i \in DOMAIN Rest : Rest[i] \in Going
  BY <1>2, <1>4, RestIs
<1> QED
  BY <1>1, <1>3, <1>4, <1>5

LedgerOf(s) == /\ Total(s) <= printed[s]
               /\ Owns(s) /\ Sound(s) => Total(s) = printed[s]
               /\ Sound(s) => InTurn(s)

(* Every step keeps the sum of what one session printed and where it is.   *)
LEMMA LedgerOfStep ==
    ASSUME Typed, WriterInv, OrderInv, FreshInv, LedgerInv, [Next]_vars, NEW s \in Sessions
    PROVE  LedgerOf(s)'
<1>0. /\ Total(s) <= printed[s]
      /\ Owns(s) /\ Sound(s) => Total(s) = printed[s]
      /\ Sound(s) => InTurn(s)
      /\ Total(s) = InLog(s) + WeightLeft(s) + WeightQueued(s) + gaps[s]
      /\ InLog(s) \in Nat /\ WeightLeft(s) \in Nat /\ WeightQueued(s) \in Nat
      /\ gaps[s] \in Nat /\ printed[s] \in Nat
  BY SumsAreNat DEF LedgerInv, Total, Typed
<1>00. Total(s)' = InLog(s)' + WeightLeft(s)' + WeightQueued(s)' + gaps'[s]
  BY DEF Total
<1>1. ASSUME Rest' = Rest, ops' = ops, saved'[s] = saved[s],
             gaps'[s] = gaps[s], printed'[s] = printed[s],
             Sound(s)' => Sound(s), Owns(s)' => Owns(s)
      PROVE  LedgerOf(s)'
  <2>1. /\ InLog(s)' = InLog(s) /\ WeightLeft(s)' = WeightLeft(s) /\ WeightQueued(s)' = WeightQueued(s)
    BY <1>1 DEF InLog, WeightLeft, WeightQueued
  <2>2. Total(s)' = Total(s)
    BY <1>0, <1>00, <1>1, <2>1
  <2>3. InTurn(s) => InTurn(s)'
    BY <1>1, <2>1 DEF InTurn
  <2> QED
    BY <1>0, <1>1, <2>2, <2>3 DEF LedgerOf
<1>2. ASSUME Still, UNCHANGED <<failures, host>>
      PROVE  /\ Sound(s)' <=> Sound(s)
             /\ ops' = ops /\ (state[s] = "ended" => state'[s] = "ended") => (Owns(s)' => Owns(s))
             /\ state[s] # "ended" => Owns(s)
             /\ Rest' = Rest /\ WeightLeft(s)' = WeightLeft(s)
  <2>1. Rest' = Rest /\ Current' = Current /\ batch' = batch /\ (Interrupted(s)' <=> Interrupted(s))
    BY <1>2, StillIs DEF Still
  <2> QED
    BY <1>2, <2>1 DEF Sound, Owns, WeightLeft
<1>3. CASE UNCHANGED vars \/ Reads \/ Shutdown
  <2>1. Still /\ UNCHANGED <<saved, failures, host, state, printed, gaps, ops>>
    BY <1>3, VarsSame, ReadUnread, ShutdownIs DEF Still, Reads
  <2> QED
    BY <1>1, <1>2, <2>1
\* The sessions' side.
<1>4. ASSUME Still, UNCHANGED <<failures, host, saved>>, state[s] # "ended" \/ UNCHANGED <<state, ops>>,
             Total(s)' - Total(s) = printed'[s] - printed[s], Total(s)' \in Int,
             printed'[s] \in Int, InTurn(s) => InTurn(s)'
      PROVE  LedgerOf(s)'
  <2>1. (Sound(s)' <=> Sound(s)) /\ (Owns(s)' => Owns(s))
    BY <1>2, <1>4
  <2> QED
    BY <1>0, <1>4, <2>1 DEF LedgerOf
<1>5. ASSUME UNCHANGED saved PROVE InLog(s)' = InLog(s)
  BY <1>5 DEF InLog
<1>6. ASSUME NEW c \in Sessions, Arm(c) PROVE LedgerOf(s)'
  <2>1. /\ state[c] = "new" /\ state'[c] = "running" /\ gaps'[c] = 0
        /\ \A d \in Others(c) : state'[d] = state[d] /\ gaps'[d] = gaps[d]
        /\ Joins(1) /\ ops'[Len(ops) + 1] = Op("Open", c, 0)
        /\ UNCHANGED <<batch, saved, failures, printed, host>>
    BY <1>6, ArmIs
  <2>2. Still
    BY <2>1 DEF Joins, Still
  <2>3. gaps'[s] = gaps[s]
    <3>1. gaps[c] = 0
      BY <2>1 DEF FreshInv
    <3> QED
      BY <2>1, <3>1 DEF Others
  <2>4. WeightOf(Op("Open", c, 0), s) = 0
    BY DEF WeightOf, Op
  <2>5. /\ \A n \in 0..Len(ops) : Weight(ops', s, n) = Weight(ops, s, n)
        /\ WeightQueued(s)' = WeightQueued(s)
    <3>1. /\ \A n \in 0..Len(ops) : Weight(ops', s, n) = Weight(ops, s, n)
          /\ WeightQueued(s)' = WeightQueued(s) + WeightOf(Op("Open", c, 0), s)
      BY <2>1, JoinsSums
    <3> QED
      BY <1>0, <2>4, <3>1
  <2>6. InLog(s)' = InLog(s) /\ WeightLeft(s)' = WeightLeft(s) /\ Rest' = Rest /\ (Sound(s)' <=> Sound(s))
    BY <1>2, <1>5, <2>1, <2>2
  <2>7. Total(s)' = Total(s)
    BY <1>0, <1>00, <2>3, <2>5, <2>6
  <2>8. InTurn(s) => InTurn(s)'
    <3>1. \A j \in DOMAIN ops' : (j \in DOMAIN ops /\ ops'[j] = ops[j]) \/ ops'[j].op # "Data"
      BY <2>1, JoinOneOf DEF Op
    <3> QED
      BY <2>2, <2>5, <2>6, <3>1, JoinsInTurn
  <2>9. Owns(s)' => Owns(s)
    <3>1. \A j \in DOMAIN ops' : (j \in DOMAIN ops /\ ops'[j] = ops[j]) \/ ops'[j].session = c
      BY <2>1, JoinOneOf DEF Op
    <3> QED
      BY <2>1, <3>1 DEF Owns, HasOp, Others
  <2> QED
    BY <1>0, <2>1, <2>6, <2>7, <2>8, <2>9 DEF LedgerOf
<1>7. ASSUME NEW c \in Sessions, DropChunk(c) PROVE LedgerOf(s)'
  <2>1. /\ state[c] = "running" /\ printed'[c] = printed[c] + 1 /\ gaps'[c] = gaps[c] + 1
        /\ \A d \in Others(c) : printed'[d] = printed[d] /\ gaps'[d] = gaps[d]
        /\ UNCHANGED <<batch, writer, saved, failures, host, state, ops>>
    BY <1>7, DropChunkIs
  <2>2. Still
    BY <2>1 DEF Still
  <2>3. gaps'[s] - gaps[s] = printed'[s] - printed[s] /\ gaps'[s] \in Int /\ printed'[s] \in Int
    BY <1>0, <2>1 DEF Others
  <2>4. InLog(s)' = InLog(s) /\ WeightLeft(s)' = WeightLeft(s) /\ WeightQueued(s)' = WeightQueued(s) /\ Rest' = Rest
    BY <1>2, <1>5, <2>1, <2>2 DEF WeightQueued
  <2>5. Total(s)' - Total(s) = printed'[s] - printed[s] /\ Total(s)' \in Int
    BY <1>0, <1>00, <2>3, <2>4
  <2>6. InTurn(s) => InTurn(s)'
    BY <2>1, <2>4 DEF InTurn
  <2> QED
    BY <1>4, <2>1, <2>2, <2>3, <2>5, <2>6
\* The marker takes over what the gap counted.
<1>8. ASSUME NEW c \in Sessions, NEW o \in OpType, Joins(MarkerLen(c) + 1), Still,
             ops'[Len(ops) + MarkerLen(c) + 1] = o, o.session = c,
             gaps[c] > 0 => ops'[Len(ops) + 1] = Op("Gap", c, gaps[c]),
             gaps'[c] = 0, \A d \in Others(c) : gaps'[d] = gaps[d],
             UNCHANGED <<saved, failures, host>>
      PROVE  /\ Total(s)' = Total(s) + WeightOf(o, s)
             /\ \A n \in 0..Len(ops) : Weight(ops', s, n) = Weight(ops, s, n)
             /\ Weight(ops', s, Len(ops')) = WeightQueued(s)'
             /\ InLog(s)' = InLog(s) /\ WeightLeft(s)' = WeightLeft(s)
  <2>1. /\ \A n \in 0..Len(ops) : Weight(ops', s, n) = Weight(ops, s, n)
        /\ WeightQueued(s)' = WeightQueued(s) + (IF s = c THEN gaps[c] ELSE 0) + WeightOf(o, s)
        /\ Weight(ops', s, Len(ops')) = WeightQueued(s)'
    BY <1>8, MarkedSums
  <2>2. gaps'[s] = gaps[s] - (IF s = c THEN gaps[c] ELSE 0)
    BY <1>0, <1>8 DEF Others
  <2>3. InLog(s)' = InLog(s) /\ WeightLeft(s)' = WeightLeft(s)
    BY <1>2, <1>5, <1>8
  <2>4. WeightOf(o, s) \in Int /\ gaps[c] \in Int
    <3>1. o.n \in Nat
      BY <1>8 DEF OpType
    <3>2. gaps[c] \in Int
      <4>1. gaps \in [Sessions -> Nat]
        BY DEF Typed
      <4> QED
        BY <4>1
    <3> QED
      BY <3>1, <3>2 DEF WeightOf
  <2>5. Total(s)' = Total(s) + WeightOf(o, s)
    BY <1>0, <1>00, <2>1, <2>2, <2>3, <2>4
  <2> QED
    BY <2>1, <2>3, <2>5
<1>9. ASSUME NEW c \in Sessions, KeepChunk(c) PROVE LedgerOf(s)'
  <2>1. /\ state[c] = "running" /\ printed'[c] = printed[c] + 1 /\ gaps'[c] = 0
        /\ \A d \in Others(c) : printed'[d] = printed[d] /\ gaps'[d] = gaps[d]
        /\ Joins(MarkerLen(c) + 1)
        /\ ops'[Len(ops) + MarkerLen(c) + 1] = Op("Data", c, printed[c] + 1)
        /\ gaps[c] > 0 => ops'[Len(ops) + 1] = Op("Gap", c, gaps[c])
        /\ UNCHANGED <<batch, saved, failures, host, state>>
    BY <1>9, KeepChunkIs
  <2>2. Still
    BY <2>1 DEF Joins, Still
  <2> DEFINE o == Op("Data", c, printed[c] + 1)
  <2>3. o \in OpType /\ o.session = c /\ o.op = "Data" /\ o.n = printed[c] + 1
    <3>1. printed[c] \in Nat
      BY DEF Typed
    <3> QED
      BY <3>1 DEF Op, OpType
  <2>4. ops'[Len(ops) + MarkerLen(c) + 1] = o
    BY <2>1
  <2> HIDE DEF o
  <2>5. /\ Total(s)' = Total(s) + WeightOf(o, s)
        /\ \A n \in 0..Len(ops) : Weight(ops', s, n) = Weight(ops, s, n)
        /\ Weight(ops', s, Len(ops')) = WeightQueued(s)'
        /\ InLog(s)' = InLog(s) /\ WeightLeft(s)' = WeightLeft(s)
    BY <1>8, <2>1, <2>2, <2>3, <2>4
  <2>6. WeightOf(o, s) = printed'[s] - printed[s] /\ printed'[s] \in Int /\ WeightOf(o, s) \in Nat
    BY <1>0, <2>1, <2>3 DEF WeightOf, Others
  <2>7. Total(s)' - Total(s) = printed'[s] - printed[s] /\ Total(s)' \in Int
    BY <1>0, <2>5, <2>6
  <2>8. \A j \in DOMAIN ops' : \/ j \in DOMAIN ops /\ ops'[j] = ops[j]
                               \/ j = Len(ops') /\ ops'[j] = o
                               \/ ops'[j] = Op("Gap", c, gaps[c])
    <3>1. \A j \in DOMAIN ops' : \/ j \in DOMAIN ops /\ ops'[j] = ops[j]
                                 \/ j > Len(ops) /\ ops'[j] = o
                                 \/ j > Len(ops) /\ gaps[c] > 0 /\ ops'[j] = Op("Gap", c, gaps[c])
      BY <2>1, <2>4, JoinMarkedOf
    <3>2. /\ MarkerLen(c) \in {0, 1} /\ (MarkerLen(c) = 1 <=> gaps[c] > 0) /\ Len(ops) \in Nat
      BY OpsAreTyped DEF MarkerLen
    <3>3. ops' \in Seq(OpType) /\ Len(ops') = Len(ops) + (MarkerLen(c) + 1)
      BY <2>1 DEF Joins
    <3>4. \A j \in DOMAIN ops' : j \in 1..Len(ops')
      BY <3>3
    <3>5. ASSUME NEW j \in DOMAIN ops', j > Len(ops), j # Len(ops')
          PROVE  gaps[c] > 0 /\ j = Len(ops) + 1
      <4>1. MarkerLen(c) = 1 /\ j = Len(ops) + 1
        BY <3>2, <3>3, <3>4, <3>5
      <4> QED
        BY <3>2, <4>1
    <3> QED
      BY <2>1, <3>1, <3>5
  <2>9. Sound(s) => InTurn(s)'
    <3> SUFFICES ASSUME Sound(s) PROVE InTurn(s)'
      OBVIOUS
    <3>1. s = c => o.n = InLog(s) + WeightLeft(s) + Weight(ops', s, Len(ops'))
      <4> SUFFICES ASSUME s = c PROVE o.n = InLog(s) + WeightLeft(s) + Weight(ops', s, Len(ops'))
        OBVIOUS
      <4>1. Total(s) = printed[s]
        BY <1>0, <2>1 DEF Owns
      <4>2. gaps'[s] = 0 /\ Total(s)' = InLog(s) + WeightLeft(s) + WeightQueued(s)' + 0
        BY <1>00, <2>1, <2>5
      <4>3. WeightOf(o, s) = 1
        BY <2>3 DEF WeightOf
      <4>4. WeightQueued(s)' \in Int
        <5>1. ops' \in Seq(OpType)
          BY <2>1 DEF Joins
        <5>2. Len(ops') \in 0..Len(ops')
          BY <5>1
        <5>3. Weight(ops', s, Len(ops')) \in Nat
          BY <5>1, <5>2, QueueNat
        <5> QED
          BY <2>5, <5>3
      <4> QED
        BY <1>0, <2>3, <2>5, <4>1, <4>2, <4>3, <4>4
    <3>2. \A j \in DOMAIN ops' :
               \/ j \in DOMAIN ops /\ ops'[j] = ops[j]
               \/ ops'[j].op # "Data" \/ ops'[j].session # s
               \/ ops'[j].n = InLog(s) + WeightLeft(s) + Weight(ops', s, j)
      <4>1. Op("Gap", c, gaps[c]).op # "Data"
        BY DEF Op
      <4> QED
        BY <2>3, <2>8, <3>1, <4>1
    <3> QED
      BY <1>0, <2>2, <2>5, <3>2, JoinsInTurn
  <2>10. (Sound(s)' <=> Sound(s)) /\ (Owns(s)' => Owns(s))
    <3>1. \A j \in DOMAIN ops' : (j \in DOMAIN ops /\ ops'[j] = ops[j]) \/ ops'[j].session = c
      BY <2>3, <2>8 DEF Op
    <3> QED
      BY <1>2, <2>1, <2>2, <3>1 DEF Owns, HasOp
  <2>11. Total(s) \in Int
    BY <1>0
  <2>12. Total(s)' <= printed'[s] /\ (Total(s) = printed[s] => Total(s)' = printed'[s])
    BY <1>0, <2>6, <2>7, <2>11
  <2> QED
    BY <1>0, <2>9, <2>10, <2>12 DEF LedgerOf
<1>10. ASSUME NEW c \in Sessions, NEW now, Ends(c, now) PROVE LedgerOf(s)'
  <2>1. /\ Close(c, now) /\ state[c] = "running"
        /\ \A d \in Others(c) : state'[d] = state[d] /\ gaps'[d] = gaps[d]
        /\ UNCHANGED <<batch, saved, failures, printed, host>>
    BY <1>10, EndsIs, ClosedNow, CloseIs
  <2>2. CASE shutdown
    <3>1. UNCHANGED <<gaps, ops, writer>>
      BY <2>1, <2>2, CloseIs
    <3>2. Still
      BY <2>1, <3>1 DEF Still
    <3>3. state[s] = "ended" => state'[s] = "ended"
      BY <2>1 DEF Others
    <3> QED
      BY <1>1, <1>2, <2>1, <3>1, <3>2, <3>3
  <2>3. CASE ~shutdown
    <3>1. /\ gaps'[c] = 0 /\ Joins(MarkerLen(c) + 1)
          /\ ops'[Len(ops) + MarkerLen(c) + 1] = Op("Close", c, 0)
          /\ gaps[c] > 0 => ops'[Len(ops) + 1] = Op("Gap", c, gaps[c])
      BY <2>1, <2>3, CloseIs
    <3>2. Still
      BY <2>1, <3>1 DEF Joins, Still
    <3>3. /\ Op("Close", c, 0) \in OpType /\ Op("Close", c, 0).session = c
          /\ Op("Close", c, 0).op = "Close"
      BY DEF Op, OpType
    <3>4. /\ Total(s)' = Total(s) + WeightOf(Op("Close", c, 0), s)
          /\ \A n \in 0..Len(ops) : Weight(ops', s, n) = Weight(ops, s, n)
          /\ InLog(s)' = InLog(s) /\ WeightLeft(s)' = WeightLeft(s)
      BY <1>8, <2>1, <3>1, <3>2, <3>3
    <3>5. WeightOf(Op("Close", c, 0), s) = 0
      BY <3>3 DEF WeightOf
    <3>6. Total(s)' = Total(s)
      BY <1>0, <3>4, <3>5
    <3>7. \A j \in DOMAIN ops' : \/ j \in DOMAIN ops /\ ops'[j] = ops[j]
                                 \/ ops'[j].op # "Data" /\ ops'[j].session = c
      <4>1. \A j \in DOMAIN ops' : \/ j \in DOMAIN ops /\ ops'[j] = ops[j]
                                   \/ ops'[j] = Op("Close", c, 0)
                                   \/ ops'[j] = Op("Gap", c, gaps[c])
        BY <3>1, JoinMarkedOf
      <4> QED
        BY <4>1 DEF Op
    <3>8. InTurn(s) => InTurn(s)'
      BY <3>2, <3>4, <3>7, JoinsInTurn
    <3>9. (Sound(s)' <=> Sound(s)) /\ (Owns(s)' => Owns(s))
      BY <1>2, <2>1, <3>2, <3>7 DEF Owns, HasOp, Others
    <3> QED
      BY <1>0, <2>1, <3>6, <3>8, <3>9 DEF LedgerOf
  <2> QED
    BY <2>2, <2>3
<1>11. ASSUME NEW c \in Sessions, Discard(c) PROVE LedgerOf(s)'
  <2>1. /\ state[c] = "failed to start"
        /\ \A d \in Others(c) : state'[d] = state[d]
        /\ UNCHANGED <<batch, saved, failures, printed, host, gaps>>
    BY <1>11, DiscardIs
  <2>2. CASE shutdown
    <3>1. UNCHANGED <<ops, writer>>
      BY <1>11, <2>2, DiscardIs
    <3>2. Still
      BY <2>1, <3>1 DEF Still
    <3>3. state[s] = "ended" => state'[s] = "ended"
      BY <2>1 DEF Others
    <3> QED
      BY <1>1, <1>2, <2>1, <3>1, <3>2, <3>3
  <2>3. CASE ~shutdown
    <3>1. Joins(1) /\ ops'[Len(ops) + 1] = Op("Discard", c, 0)
      BY <1>11, <2>3, DiscardIs
    <3>2. Still
      BY <2>1, <3>1 DEF Joins, Still
    <3>3. WeightOf(Op("Discard", c, 0), s) = 0
      BY DEF WeightOf, Op
    <3>4. /\ \A n \in 0..Len(ops) : Weight(ops', s, n) = Weight(ops, s, n)
          /\ WeightQueued(s)' = WeightQueued(s) + WeightOf(Op("Discard", c, 0), s)
      BY <3>1, JoinsSums
    <3>5. InLog(s)' = InLog(s) /\ WeightLeft(s)' = WeightLeft(s)
      BY <1>2, <1>5, <2>1, <3>2
    <3>6. Total(s)' = Total(s)
      <4>1. gaps'[s] = gaps[s]
        BY <2>1
      <4>2. WeightQueued(s)' = WeightQueued(s)
        <5>1. WeightQueued(s)' = WeightQueued(s) + 0
          BY <3>3, <3>4
        <5> QED
          BY <1>0, <5>1
      <4> QED
        BY <1>0, <1>00, <3>5, <4>1, <4>2
    <3>7. \A j \in DOMAIN ops' : \/ j \in DOMAIN ops /\ ops'[j] = ops[j]
                                 \/ ops'[j].op # "Data" /\ ops'[j].session = c
      BY <3>1, JoinOneOf DEF Op
    <3>8. InTurn(s) => InTurn(s)'
      BY <3>2, <3>4, <3>5, <3>7, JoinsInTurn
    <3>9. (Sound(s)' <=> Sound(s)) /\ (Owns(s)' => Owns(s))
      BY <1>2, <2>1, <3>2, <3>7 DEF Owns, HasOp, Others
    <3> QED
      BY <1>0, <2>1, <3>6, <3>8, <3>9 DEF LedgerOf
  <2> QED
    BY <2>2, <2>3
\* The writer's side.
<1>12. CASE TakeBatch
  <2>1. /\ writer = "looking" /\ writer' = "applying" /\ batch' = ops /\ ops' = <<>>
        /\ UNCHANGED <<saved, failures, host, state, printed, gaps>>
    BY <1>12, TakeBatchIs
  <2>2. Rest = <<>> /\ Rest' = ops /\ batch = <<>>
    BY <2>1 DEF Rest, Written, WriterInv
  <2>3. WeightLeft(s) = 0 /\ WeightLeft(s)' = WeightQueued(s)
    BY <2>2, NothingLeft DEF WeightLeft, WeightQueued
  <2>4. WeightQueued(s)' = 0
    BY <2>1, EmptySums DEF WeightQueued
  <2>5. InLog(s)' = InLog(s) /\ Total(s)' = Total(s)
    BY <1>0, <1>00, <1>5, <2>1, <2>3, <2>4
  <2>6. (Sound(s)' <=> Sound(s)) /\ (Owns(s)' => Owns(s))
    BY <2>1 DEF Sound, Interrupted, Owns, HasOp
  <2>7. InTurn(s) => InTurn(s)'
    <3> SUFFICES ASSUME InTurn(s) PROVE InTurn(s)'
      OBVIOUS
    <3>1. \A i \in DOMAIN ops : Weight(ops, s, i) \in Nat
      <4>1. ops \in Seq(OpType) /\ \A i \in DOMAIN ops : i \in 0..Len(ops)
        <5>1. ops \in Seq(OpType)
          BY DEF Typed
        <5> QED
          BY <5>1
      <4> QED
        BY <4>1, QueueNat
    <3>2. \A i \in DOMAIN ops : ops[i].op = "Data" /\ ops[i].session = s =>
              ops[i].n = InLog(s)' + Weight(ops, s, i)
      BY <1>0, <2>3, <2>5, <3>1 DEF InTurn
    <3>3. DOMAIN ops' = {}
      BY <2>1
    <3> QED
      BY <2>2, <3>2, <3>3 DEF InTurn
  <2> QED
    BY <1>0, <2>1, <2>5, <2>6, <2>7 DEF LedgerOf
<1>13. CASE Wait \/ SyncIdle \/ Stopped \/ BatchDone
  <2>1. /\ writer \in {"looking", "waiting", "applying"}
        /\ writer' \in {"looking", "waiting", "stopped"}
        /\ UNCHANGED <<batch, ops, saved, failures, host, state, printed, gaps>>
    BY <1>13, IdleIs
  <2>2. Rest' = Rest
    BY <2>1 DEF Rest, Written
  <2>3. (Sound(s)' <=> Sound(s)) /\ (Owns(s)' => Owns(s))
    BY <2>1 DEF Sound, Interrupted, Owns, HasOp
  <2> QED
    BY <1>1, <2>1, <2>2, <2>3
\* The operation in hand is in the log, or weighs nothing.
<1>14. ASSUME Leaves, UNCHANGED <<ops, host, state, printed, gaps>>,
              InLog(s)' = InLog(s) + WeightOf(Current, s), Sound(s)' => Sound(s)
       PROVE  LedgerOf(s)'
  <2>1. WeightLeft(s) = WeightOf(Current, s) + WeightLeft(s)' /\ WeightQueued(s)' = WeightQueued(s)
    BY <1>14, LeavesSums DEF WeightQueued
  <2>2. WeightOf(Current, s) \in Nat
    BY <1>14, HeadIs DEF Leaves, WeightOf
  <2>3. WeightLeft(s)' = WeightLeft(s) - WeightOf(Current, s)
    <3>1. Rest' = Tail(batch) /\ batch # <<>>
      BY <1>14, LeavesIs DEF Leaves
    <3>2. Tail(batch) \in Seq(OpType) /\ Len(Tail(batch)) \in 0..Len(Tail(batch))
      <4>1. Tail(batch) \in Seq(OpType)
        BY <3>1, HeadIs
      <4> QED
        BY <4>1
    <3>3. WeightLeft(s)' \in Nat
      BY <3>1, <3>2, QueueNat DEF WeightLeft
    <3> QED
      BY <2>1, <2>2, <3>3
  <2>4. Total(s)' = Total(s)
    BY <1>0, <1>00, <1>14, <2>1, <2>2, <2>3
  <2>5. InTurn(s) => InTurn(s)'
    BY <1>14, LeavesInTurn
  <2>6. Owns(s)' => Owns(s)
    BY <1>14 DEF Owns, Leaves
  <2> QED
    BY <1>0, <1>14, <2>4, <2>5, <2>6 DEF LedgerOf
\* It is given up, and its session's log with it.
<1>15. ASSUME Leaves, UNCHANGED <<ops, saved, printed, gaps>>, ~Sound(s)'
       PROVE  LedgerOf(s)'
  <2>1. WeightLeft(s) = WeightOf(Current, s) + WeightLeft(s)' /\ WeightQueued(s)' = WeightQueued(s)
    BY <1>15, LeavesSums DEF WeightQueued
  <2>2. WeightOf(Current, s) \in Nat
    BY <1>15, HeadIs DEF Leaves, WeightOf
  <2>3. WeightLeft(s)' \in Nat
    <3>1. Rest' = Tail(batch) /\ batch # <<>>
      BY <1>15, LeavesIs DEF Leaves
    <3>2. Tail(batch) \in Seq(OpType) /\ Len(Tail(batch)) \in 0..Len(Tail(batch))
      <4>1. Tail(batch) \in Seq(OpType)
        BY <3>1, HeadIs
      <4> QED
        BY <4>1
    <3> QED
      BY <3>1, <3>2, QueueNat DEF WeightLeft
  <2>4. InLog(s)' = InLog(s)
    BY <1>5, <1>15
  <2>5. Total(s)' <= printed'[s]
    BY <1>0, <1>00, <1>15, <2>1, <2>2, <2>3, <2>4
  <2> QED
    BY <1>15, <2>5 DEF LedgerOf
<1>16. Current.session # s \/ Current.op \in {"Open", "Close", "Discard"} => WeightOf(Current, s) = 0
  BY DEF WeightOf
<1>17. ASSUME UNCHANGED saved, Current.session # s \/ Current.op \in {"Open", "Close", "Discard"}
       PROVE  InLog(s)' = InLog(s) + WeightOf(Current, s)
  BY <1>0, <1>5, <1>16, <1>17
<1>18. CASE ApplyOpen
  <2>1. /\ Leaves /\ writer # "failed" /\ writer' = "applied" /\ Current.op = "Open" /\ batch # <<>>
        /\ UNCHANGED <<ops, host, state, printed, gaps, saved, batch>>
        /\ failures' = failures \ {Current.session} \/ failures' = failures \cup {Current.session}
    BY <1>18, ApplyOpenIs DEF Leaves
  <2>2. Rest = batch
    BY <2>1, LeavesIs
  <2>3. Current.session = s => HasOpen(Rest, s)
    <3>1. Current = batch[1] /\ 1 \in DOMAIN batch
      <4>1. Current = batch[1] /\ Len(batch) \in Nat /\ Len(batch) > 0 /\ DOMAIN batch = 1..Len(batch)
        BY <2>1, HeadIs, OpsAreTyped
      <4> QED
        BY <4>1
    <3> QED
      BY <2>1, <2>2, <3>1 DEF HasOpen
  <2>4. Current.session = s => s \notin failures
    BY <2>1, <2>3 DEF FreshInv
  <2>5. Sound(s)' => Sound(s)
    BY <2>1, <2>4, LeavesIs DEF Sound
  <2> QED
    BY <1>14, <1>17, <2>1, <2>5
<1>19. CASE ApplyDiscard
  <2>1. /\ Leaves /\ writer' = "applied" /\ Current.op = "Discard" /\ batch # <<>>
        /\ UNCHANGED <<ops, host, state, printed, gaps, saved, batch>>
        /\ failures' = failures \ {Current.session} \/ failures' = failures
    BY <1>19, ApplyDiscardIs DEF Leaves
  <2>2. CASE Current.session # s
    <3>1. Sound(s)' => Sound(s)
      BY <2>1, <2>2, LeavesIs DEF Sound
    <3> QED
      BY <1>14, <1>17, <2>1, <2>2, <3>1
  <2>3. CASE Current.session = s
    <3>1. printed[s] = 0
      <4>1. Current \in Going
        BY <2>1, HeadOrder
      <4> QED
        BY <2>1, <2>3, <4>1 DEF Going
    <3>2. Rest' = Tail(batch)
      BY <2>1, LeavesIs
    <3>3. InTurn(s)'
      BY <2>1, <3>1, <3>2, NoneInTurn DEF InTurn
    <3>4. Total(s)' = printed'[s]
      <4>1. WeightLeft(s) = WeightOf(Current, s) + WeightLeft(s)' /\ WeightQueued(s)' = WeightQueued(s)
        BY <2>1, LeavesSums DEF WeightQueued
      <4>2. WeightOf(Current, s) = 0 /\ InLog(s)' = InLog(s)
        BY <1>5, <1>16, <2>1
      <4>3. InLog(s) = 0 /\ WeightLeft(s) = 0 /\ WeightQueued(s) = 0 /\ gaps[s] = 0
        BY <1>0, <3>1
      <4>4. WeightLeft(s)' \in Nat
        <5>1. Tail(batch) \in Seq(OpType)
          BY <2>1, HeadIs
        <5>2. Len(Tail(batch)) \in 0..Len(Tail(batch))
          BY <5>1
        <5> QED
          BY <3>2, <5>1, <5>2, QueueNat DEF WeightLeft
      <4>5. WeightLeft(s)' = 0
        BY <4>1, <4>2, <4>3, <4>4
      <4> QED
        BY <1>00, <2>1, <3>1, <4>1, <4>2, <4>3, <4>5
    <3>5. Total(s)' <= printed'[s]
      BY <2>1, <3>1, <3>4
    <3> QED
      BY <3>3, <3>4, <3>5 DEF LedgerOf
  <2> QED
    BY <2>2, <2>3
<1>20. CASE AppendSkipped \/ AppendFails
  <2>1. /\ Leaves /\ writer' # "unwinding"
        /\ UNCHANGED <<ops, host, state, printed, gaps, saved, batch>>
        /\ failures \subseteq failures' /\ failures' \subseteq failures \cup {Current.session}
        /\ Current.op = "Close" \/ Current.session \in failures'
        /\ Current.op \in {"Data", "Gap", "Close"}
    BY <1>20, AppendSkippedIs, AppendFailsIs DEF Leaves, Ready
  <2>2. CASE Current.session = s /\ s \in failures'
    BY <1>15, <2>1, <2>2 DEF Sound
  <2>3. CASE Current.session # s \/ s \notin failures'
    <3>1. Sound(s)' => Sound(s)
      BY <2>1, LeavesIs DEF Sound
    <3> QED
      BY <1>14, <1>17, <2>1, <2>3, <3>1
  <2> QED
    BY <2>2, <2>3
<1>21. CASE WriteItem
  <2>1. /\ Leaves /\ writer' # "unwinding" /\ Ready /\ Item \in Int
        /\ saved'[Current.session] = Append(saved[Current.session], Item)
        /\ \A d \in Others(Current.session) : saved'[d] = saved[d]
        /\ UNCHANGED <<ops, host, state, printed, gaps, batch, failures>>
    BY <1>21, WriteItemIs DEF Leaves, Ready
  <2>2. Sound(s)' => Sound(s)
    BY <2>1, LeavesIs DEF Sound
  <2>3. InLog(s)' = InLog(s) + WeightOf(Current, s)
    <3>1. CASE Current.session # s
      <4>1. InLog(s)' = InLog(s) /\ WeightOf(Current, s) = 0
        BY <1>16, <2>1, <3>1 DEF Others, InLog
      <4> QED
        BY <1>0, <4>1
    <3>2. CASE Current.session = s
      <4>1. /\ Current \in Going /\ Current.n \in Nat /\ Current.op \in {"Data", "Gap", "Close"}
        BY <2>1, HeadOrder, HeadIs DEF Ready
      <4>2. (Current.op = "Data" => Current.n > 0) /\ (Current.op = "Gap" => Current.n > 0)
        BY <4>1 DEF Going
      <4>3. Accounts(Item) = WeightOf(Current, s)
        BY <3>2, <4>1, <4>2 DEF Accounts, Item, WeightOf, End
      <4>4. saved[s] \in Seq(Int) /\ saved'[s] = Append(saved[s], Item)
        BY <2>1, <3>2 DEF Typed
      <4>5. InLog(s)' = Covered(saved[s], Len(saved[s])) + Accounts(Item)
        BY <2>1, <4>4, LogAppend DEF InLog
      <4> QED
        BY <4>3, <4>5 DEF InLog
    <3> QED
      BY <3>1, <3>2
  <2> QED
    BY <1>14, <2>1, <2>2, <2>3
<1>22. CASE Rename \/ NewSegment
  <2>1. /\ batch' = batch /\ writer \in {"applying", "renamed"} /\ writer' \in {"renamed", "rotated"}
        /\ UNCHANGED <<ops, host, state, printed, gaps, saved, failures>>
    BY <1>22, RenameIs, NewSegmentIs
  <2>2. Rest' = Rest
    BY <2>1 DEF Rest, Written
  <2>3. (Sound(s)' <=> Sound(s)) /\ (Owns(s)' => Owns(s))
    BY <2>1 DEF Sound, Interrupted, Owns
  <2> QED
    BY <1>1, <2>1, <2>2, <2>3
<1>23. CASE Enforce
  <2>1. /\ batch' = batch /\ writer = "enforcing" /\ writer' = "applied"
        /\ UNCHANGED <<ops, host, state, printed, gaps, saved, failures>>
    BY <1>23, EnforceIs
  <2>2. Rest' = Rest
    BY <2>1 DEF Rest, Written
  <2>3. (Sound(s)' <=> Sound(s)) /\ (Owns(s)' => Owns(s))
    BY <2>1 DEF Sound, Interrupted, Owns
  <2> QED
    BY <1>1, <2>1, <2>2, <2>3
<1>24. CASE Applied
  <2>1. /\ batch # <<>> /\ batch' = Tail(batch) /\ writer = "applied" /\ writer' = "applying"
        /\ UNCHANGED <<ops, host, state, printed, gaps, saved, failures>>
    BY <1>24, AppliedIs
  <2>2. Rest' = Rest
    BY <2>1 DEF Rest, Written
  <2>3. HasOp(batch', s) => HasOp(batch, s)
    <3>1. /\ Tail(batch) \in Seq(OpType) /\ Len(Tail(batch)) = Len(batch) - 1
          /\ \A i \in 1..Len(batch) - 1 : Tail(batch)[i] = batch[i + 1]
          /\ Len(batch) \in Nat /\ DOMAIN batch = 1..Len(batch)
      BY <2>1, HeadIs, OpsAreTyped
    <3>2. \A j \in DOMAIN Tail(batch) : j + 1 \in DOMAIN batch /\ Tail(batch)[j] = batch[j + 1]
      BY <3>1
    <3> QED
      BY <2>1, <3>2 DEF HasOp
  <2>4. (Sound(s)' <=> Sound(s)) /\ (Owns(s)' => Owns(s))
    BY <2>1, <2>3 DEF Sound, Interrupted, Owns
  <2> QED
    BY <1>1, <2>1, <2>2, <2>4
<1>25. CASE Panic \/ PanicInMarker
  <2>1. /\ batch # <<>> /\ batch' = batch /\ writer \in {"applying", "renamed", "rotated", "enforcing"}
        /\ writer' = "unwinding" /\ Current' = Current
        /\ UNCHANGED <<ops, host, state, printed, gaps, saved, failures>>
    BY <1>25, PanicIs, PanicInMarkerIs DEF Current
  <2>2. (Sound(s)' => Sound(s)) /\ (Owns(s)' => Owns(s))
    BY <2>1 DEF Sound, Interrupted, Owns
  <2>3. Current.op \in {"Open", "Data", "Gap", "Close", "Discard"}
    BY <2>1, HeadIs
  <2>4. CASE writer = "enforcing"
    <3>1. Rest' = Rest
      BY <2>1, <2>4 DEF Rest, Written
    <3> QED
      BY <1>1, <2>1, <2>2, <3>1
  <2>5. CASE writer # "enforcing"
    <3>1. Leaves
      BY <2>1, <2>5 DEF Leaves
    <3>2. CASE Current.session = s /\ Current.op \in {"Data", "Gap"}
      <4>1. ~Sound(s)'
        BY <2>1, <3>2 DEF Sound, Interrupted
      <4> QED
        BY <1>15, <2>1, <3>1, <4>1
    <3>3. CASE Current.session # s \/ Current.op \notin {"Data", "Gap"}
      BY <1>14, <1>17, <2>1, <2>2, <2>3, <3>1, <3>3
    <3> QED
      BY <3>2, <3>3
  <2> QED
    BY <2>1, <2>4, <2>5
<1>26. CASE BatchFails
  <2>1. /\ batch' = batch /\ writer = "unwinding" /\ writer' = "failed"
        /\ failures \subseteq failures' /\ \A i \in DOMAIN batch : batch[i].session \in failures'
        /\ UNCHANGED <<ops, host, state, printed, gaps, saved>>
    BY <1>26, BatchFailsIs
  <2>2. Rest' = Rest /\ batch # <<>>
    BY <2>1 DEF Rest, Written, WriterInv
  <2>3. Current.session \in failures'
    <3>1. Current = batch[1] /\ Len(batch) \in Nat /\ Len(batch) > 0 /\ DOMAIN batch = 1..Len(batch)
      BY <2>2, HeadIs, OpsAreTyped
    <3>2. 1 \in DOMAIN batch
      BY <3>1
    <3> QED
      BY <2>1, <3>1, <3>2
  <2>4. (Sound(s)' => Sound(s)) /\ (Owns(s)' => Owns(s))
    BY <2>1, <2>3 DEF Sound, Interrupted, Owns
  <2> QED
    BY <1>1, <2>1, <2>2, <2>4
<1>27. CASE BatchReleased
  <2>1. /\ batch # <<>> /\ batch' = <<>> /\ writer = "failed" /\ writer' \in {"looking", "given up"}
        /\ UNCHANGED <<ops, host, state, printed, gaps, saved, failures>>
    BY <1>27, BatchReleasedIs
  <2>2. Rest = Tail(batch) /\ Rest' = <<>>
    BY <2>1 DEF Rest, Written
  <2>3. s \notin failures => WeightLeft(s) = 0
    <3> SUFFICES ASSUME s \notin failures PROVE WeightLeft(s) = 0
      OBVIOUS
    <3>1. /\ Tail(batch) \in Seq(OpType) /\ Len(Tail(batch)) = Len(batch) - 1
          /\ \A i \in 1..Len(batch) - 1 : Tail(batch)[i] = batch[i + 1]
          /\ Len(batch) \in Nat /\ DOMAIN batch = 1..Len(batch)
      BY <2>1, HeadIs, OpsAreTyped
    <3>2. \A j \in DOMAIN Tail(batch) : j + 1 \in DOMAIN batch /\ Tail(batch)[j] = batch[j + 1]
      BY <3>1
    <3>3. ~HasOp(Tail(batch), s)
      BY <2>1, <3>2 DEF HasOp, WriterInv
    <3> QED
      BY <2>2, <3>1, <3>3, NoneOf DEF WeightLeft
  <2>4. WeightLeft(s)' = 0
    BY <2>2, EmptySums DEF WeightLeft
  <2>5. InLog(s)' = InLog(s) /\ WeightQueued(s)' = WeightQueued(s)
    BY <1>5, <2>1 DEF WeightQueued
  <2>6. Total(s)' <= printed'[s] /\ (WeightLeft(s) = 0 => Total(s)' = Total(s))
    <3>1. gaps'[s] = gaps[s] /\ printed'[s] = printed[s]
      BY <2>1
    <3>2. Total(s)' = InLog(s) + WeightQueued(s) + gaps[s]
      BY <1>0, <1>00, <2>4, <2>5, <3>1
    <3> QED
      BY <1>0, <3>1, <3>2
  <2>7. Sound(s)' => s \notin failures /\ Sound(s)
    BY <2>1 DEF Sound, Interrupted
  <2>8. Owns(s)' => Owns(s)
    <3>1. batch' = <<>> /\ ops' = ops /\ host' = host /\ state' = state
      BY <2>1
    <3>2. ~HasOp(batch', s)
      BY <3>1 DEF HasOp
    <3> QED
      BY <3>1, <3>2 DEF Owns
  <2>9. Sound(s) /\ WeightLeft(s) = 0 => InTurn(s)'
    <3> SUFFICES ASSUME Sound(s), WeightLeft(s) = 0 PROVE InTurn(s)'
      OBVIOUS
    <3>1. DOMAIN Rest' = {}
      BY <2>2
    <3>2. WeightLeft(s)' = WeightLeft(s) /\ ops' = ops
      BY <2>1, <2>4
    <3> QED
      BY <1>0, <2>5, <3>1, <3>2 DEF InTurn
  <2> QED
    BY <1>0, <2>1, <2>3, <2>6, <2>7, <2>8, <2>9 DEF LedgerOf
<1>28. CASE HostDies
  <2>1. /\ batch' = <<>> /\ ops' = <<>> /\ writer' = "looking" /\ gaps'[s] = 0 /\ host' = 2
        /\ state'[s] = IF state[s] = "new" THEN "new" ELSE "ended"
        /\ UNCHANGED <<printed, saved>>
    BY <1>28, HostDiesIs
  <2>2. Rest' = <<>>
    BY <2>1 DEF Rest, Written
  <2>3. WeightLeft(s)' = 0 /\ WeightQueued(s)' = 0
    BY <2>1, <2>2, EmptySums DEF WeightLeft, WeightQueued
  <2>4. InLog(s)' = InLog(s)
    BY <1>5, <2>1
  <2>5. Total(s)' = InLog(s) /\ InLog(s) <= printed[s]
    BY <1>0, <1>00, <2>1, <2>3, <2>4
  <2>6. Owns(s)' => printed[s] = 0
    <3>1. ~HasOp(batch', s) /\ ~HasOp(ops', s)
      BY <2>1 DEF HasOp
    <3>2. Owns(s)' => state[s] = "new"
      BY <2>1, <3>1 DEF Owns
    <3> QED
      BY <3>2 DEF FreshInv
  <2>7. InTurn(s)'
    BY <2>1, <2>2 DEF InTurn
  <2>8. Total(s)' <= printed'[s] /\ (printed[s] = 0 => Total(s)' = printed'[s])
    BY <1>0, <2>1, <2>5
  <2> QED
    BY <2>6, <2>7, <2>8 DEF LedgerOf
<1> QED
  BY Steps, <1>3, <1>6, <1>7, <1>9, <1>10, <1>11, <1>12, <1>13, <1>18, <1>19, <1>20, <1>21, <1>22,
     <1>23, <1>24, <1>25, <1>26, <1>27, <1>28

(* Every step keeps that sum, and the chunks in turn, for all sessions.    *)
LEMMA LedgerStep ==
    ASSUME Typed, WriterInv, OrderInv, FreshInv, LedgerInv, [Next]_vars
    PROVE  LedgerInv'
<1>1. /\ \A s \in Sessions : Total(s)' <= printed'[s]
      /\ \A s \in Sessions : Owns(s)' /\ Sound(s)' => Total(s)' = printed'[s]
      /\ \A s \in Sessions : Sound(s)' => InTurn(s)'
  BY LedgerOfStep DEF LedgerOf
<1>2. SUFFICES ASSUME writer' \in {"enforcing", "unwinding"}, Current'.op = "Data",
                      Current'.session \notin failures'
               PROVE  (InLog(Current.session) >= Current.n - 1)'
  BY <1>1 DEF LedgerInv
<1> DEFINE c == Current.session
<1>3. ASSUME batch' = batch, batch # <<>>
      PROVE  /\ Current' = Current /\ c \in Sessions /\ Current.n \in Nat /\ InLog(c) \in Nat
             /\ saved' = saved => InLog(Current.session)' = InLog(c)
  BY <1>3, HeadIs, SumsAreNat DEF Current, InLog
<1>4. ASSUME batch' = batch, writer \in {"enforcing", "unwinding"}, saved' = saved,
             failures \subseteq failures'
      PROVE  (InLog(Current.session) >= Current.n - 1)'
  <2>1. batch # <<>>
    BY <1>4 DEF WriterInv
  <2>2. InLog(c) >= Current.n - 1
    BY <1>2, <1>3, <1>4, <2>1 DEF LedgerInv
  <2>3. InLog(Current.session)' = InLog(c) /\ Current' = Current
    BY <1>3, <1>4, <2>1
  <2> QED
    BY <2>2, <2>3
<1>5. ASSUME Leaves, Sound(c), InLog(Current.session)' >= InLog(c), InLog(Current.session)' \in Int
      PROVE  (InLog(Current.session) >= Current.n - 1)'
  <2>1. batch # <<>> /\ batch' = batch /\ ~Written
    BY <1>5, LeavesIs DEF Leaves
  <2>2. Current' = Current /\ c \in Sessions /\ Current.n \in Nat /\ InLog(c) \in Nat
    BY <1>3, <2>1
  <2>3. Current.n = InLog(c) + 1
    BY <1>2, <1>5, <2>1, <2>2, HeadInTurn DEF LedgerInv
  <2> QED
    BY <1>5, <2>2, <2>3
<1>6. ASSUME Still, saved' = saved, failures' = failures
      PROVE  (InLog(Current.session) >= Current.n - 1)'
  BY <1>2, <1>4, <1>6 DEF Still
<1>7. CASE UNCHANGED vars \/ Reads \/ Shutdown
  BY <1>6, <1>7, VarsSame, ReadUnread, ShutdownIs DEF Reads, Still
<1>8. ASSUME NEW s \in Sessions, Arm(s) \/ DropChunk(s) \/ KeepChunk(s) \/ Discard(s)
      PROVE  (InLog(Current.session) >= Current.n - 1)'
  <2>1. batch' = batch /\ saved' = saved /\ failures' = failures
    BY <1>8, ArmIs, DropChunkIs, KeepChunkIs, DiscardIs
  <2>2. writer' = writer \/ (writer = "waiting" /\ writer' = "looking")
    <3>1. Arm(s) \/ KeepChunk(s) => writer' = writer \/ (writer = "waiting" /\ writer' = "looking")
      BY ArmIs, KeepChunkIs DEF Joins
    <3>2. DropChunk(s) => writer' = writer
      BY DropChunkIs
    <3>3. Discard(s) => writer' = writer \/ (writer = "waiting" /\ writer' = "looking")
      BY DiscardIs DEF Joins
    <3> QED
      BY <1>8, <3>1, <3>2, <3>3
  <2> QED
    BY <1>6, <2>1, <2>2 DEF Still
<1>9. ASSUME NEW s \in Sessions, NEW now, Ends(s, now)
      PROVE  (InLog(Current.session) >= Current.n - 1)'
  <2>1. Close(s, now) /\ batch' = batch /\ saved' = saved /\ failures' = failures
    BY <1>9, EndsIs, CloseIs
  <2>2. writer' = writer \/ (writer = "waiting" /\ writer' = "looking")
    BY <2>1, CloseIs DEF Joins
  <2> QED
    BY <1>6, <2>1, <2>2 DEF Still
<1>10. CASE TakeBatch \/ (Wait \/ SyncIdle \/ Stopped \/ BatchDone) \/ ApplyOpen \/ ApplyDiscard
            \/ Rename \/ NewSegment \/ Enforce \/ Applied \/ BatchFails \/ BatchReleased \/ HostDies
  BY <1>2, <1>10, TakeBatchIs, IdleIs, ApplyOpenIs, ApplyDiscardIs, RenameIs, NewSegmentIs, EnforceIs,
     AppliedIs, BatchFailsIs, BatchReleasedIs, HostDiesIs
<1>11. CASE AppendSkipped \/ AppendFails
  <2>1. Current.op # "Data" \/ writer' = "applied"
    BY <1>11, AppendSkippedIs, AppendFailsIs
  <2>2. batch' = batch
    BY <1>11, AppendSkippedIs, AppendFailsIs
  <2> QED
    BY <1>2, <2>1, <2>2 DEF Current
<1>12. CASE WriteItem
  <2>1. /\ Leaves /\ Ready /\ writer' # "unwinding" /\ batch # <<>>
        /\ Item \in Int /\ batch' = batch
        /\ saved'[c] = Append(saved[c], Item)
    BY <1>12, WriteItemIs DEF Leaves, Ready
  <2>2. Sound(c)
    BY <2>1, LeavesIs DEF Sound, Ready
  <2>3. Current' = Current /\ c \in Sessions /\ InLog(c) \in Nat
    BY <1>3, <2>1
  <2>4. InLog(Current.session)' = InLog(c) + Accounts(Item)
    <3>1. PICK d \in Sessions : d = c
      BY <2>3
    <3>2. saved[d] \in Seq(Int) /\ saved'[d] = Append(saved[d], Item)
      BY <2>1, <3>1 DEF Typed
    <3>3. InLog(d)' = InLog(d) + Accounts(Item)
      <4>1. Len(saved'[d]) = Len(saved[d]) + 1
        BY <2>1, <3>2, LogAppend
      <4>2. Covered(saved'[d], Len(saved[d]) + 1) = Covered(saved[d], Len(saved[d])) + Accounts(Item)
        BY <2>1, <3>2, LogAppend
      <4> QED
        BY <4>1, <4>2 DEF InLog
    <3>4. InLog(Current.session)' = InLog(d)'
      BY <2>3, <3>1 DEF InLog
    <3> QED
      BY <3>1, <3>3, <3>4
  <2>5. Accounts(Item) \in Nat
    BY <2>1 DEF Accounts
  <2> QED
    BY <1>5, <2>1, <2>2, <2>3, <2>4, <2>5
<1>13. CASE Panic \/ PanicInMarker
  <2>1. /\ batch # <<>> /\ batch' = batch /\ writer \in {"applying", "renamed", "rotated", "enforcing"}
        /\ writer' = "unwinding" /\ failures' = failures /\ saved' = saved /\ Current' = Current
    BY <1>13, PanicIs, PanicInMarkerIs DEF Current
  <2>2. CASE writer = "enforcing"
    BY <1>4, <2>1, <2>2
  <2>3. CASE writer # "enforcing"
    <3>1. Leaves
      BY <2>1, <2>3 DEF Leaves
    <3>2. Sound(c)
      BY <1>2, <2>1, <3>1, LeavesIs DEF Sound
    <3>3. InLog(Current.session)' = InLog(c) /\ InLog(c) \in Nat
      BY <1>3, <2>1
    <3> QED
      BY <1>5, <3>1, <3>2, <3>3
  <2> QED
    BY <2>1, <2>2, <2>3
<1> QED
  BY Steps, <1>7, <1>8, <1>9, <1>10, <1>11, <1>12, <1>13

Ended(s) == \E i \in DOMAIN saved[s] : saved[s][i] = End

EndOf(s) ==
    /\ \A i \in DOMAIN saved[s] : saved[s][i] > 0 => saved[s][i] = Covered(saved[s], i)
    /\ \A i \in DOMAIN saved[s] :
           saved[s][i] = End => i = Len(saved[s]) /\ Covered(saved[s], i) = printed[s]
    /\ Ended(s) => state[s] \notin {"new", "running"} /\ OnlyDiscards(Rest, s) /\ OnlyDiscards(ops, s)

(* EndInv, of one session at a time.                                       *)
LEMMA EndIs == EndInv <=> \A s \in Sessions : EndOf(s)
BY DEF EndInv, GapsInPlace, EndMeansWhole, EndOf, Ended

(* The operations of the tail are those of the batch after its head.       *)
LEMMA TailOf ==
    ASSUME Typed, batch # <<>>
    PROVE  /\ \A j \in DOMAIN Tail(batch) : j + 1 \in DOMAIN batch /\ Tail(batch)[j] = batch[j + 1]
           /\ 1 \in DOMAIN batch /\ Current = batch[1]
           /\ \A j \in DOMAIN batch : j = 1 \/ (j - 1 \in DOMAIN Tail(batch) /\ batch[j] = Tail(batch)[j - 1])
<1>1. /\ Tail(batch) \in Seq(OpType) /\ Len(Tail(batch)) = Len(batch) - 1 /\ Len(batch) > 0
      /\ \A i \in 1..Len(batch) - 1 : Tail(batch)[i] = batch[i + 1]
      /\ Len(batch) \in Nat /\ DOMAIN batch = 1..Len(batch) /\ Current = batch[1]
  BY HeadIs, OpsAreTyped
<1>2. DOMAIN Tail(batch) = 1..Len(batch) - 1
  BY <1>1
<1>3. ASSUME NEW j \in DOMAIN batch, j # 1
      PROVE  j - 1 \in DOMAIN Tail(batch) /\ batch[j] = Tail(batch)[j - 1]
  <2>1. j \in 1..Len(batch) /\ j - 1 \in 1..Len(batch) - 1 /\ (j - 1) + 1 = j
    BY <1>1, <1>3
  <2> QED
    BY <1>1, <1>2, <2>1
<1> QED
  BY <1>1, <1>2, <1>3

(* An item written keeps the gaps in place and the end marker last and     *)
(* true.                                                                   *)
LEMMA WrittenEnd ==
    ASSUME Typed, WriterInv, OrderInv, LedgerInv, WriteItem, NEW s \in Sessions, s = Current.session,
           EndOf(s)
    PROVE  EndOf(s)'
<1>1. /\ Leaves /\ writer' # "unwinding" /\ Ready /\ Item \in Int
      /\ saved'[s] = Append(saved[s], Item)
      /\ UNCHANGED <<ops, state, printed, batch>>
  BY WriteItemIs DEF Leaves, Ready
<1>2. /\ batch # <<>> /\ Rest = batch /\ Rest' = Tail(batch) /\ ~Written
      /\ Current.op \in {"Data", "Gap", "Close"}
  BY <1>1, LeavesIs DEF Leaves, Ready
<1>3. Sound(s)
  BY <1>1, LeavesIs DEF Sound, Ready
<1>4. /\ Current \in Going /\ state[s] # "new" /\ Current.n \in Nat
      /\ \A j \in DOMAIN Tail(batch) : MayFollow(Current, Tail(batch)[j])
      /\ \A j \in DOMAIN ops : MayFollow(Current, ops[j])
  BY <1>2, HeadOrder, HeadIs
<1>5. /\ Current.op = "Data" => Current.n > 0
      /\ Current.op = "Gap" => Current.n > 0
      /\ Current.op = "Close" => state[s] # "running" /\ gaps[s] = 0
  BY <1>4 DEF Going
<1>6. ~Ended(s)
  <2>1. 1 \in DOMAIN Rest /\ Rest[1] = Current
    BY <1>2, TailOf
  <2> QED
    BY <1>2, <2>1 DEF EndOf, OnlyDiscards
<1> DEFINE q == saved[s]
           n == Len(q)
<1>7. q \in Seq(Int) /\ n \in Nat /\ DOMAIN q = 1..n
  <2>1. q \in Seq(Int)
    BY DEF Typed
  <2> QED
    BY <2>1
<1>8. /\ saved'[s] \in Seq(Int) /\ Len(saved'[s]) = n + 1 /\ DOMAIN saved'[s] = 1..n + 1
      /\ \A i \in 1..n : saved'[s][i] = q[i]
      /\ saved'[s][n + 1] = Item
      /\ \A i \in 0..n : Covered(saved'[s], i) = Covered(q, i)
      /\ Covered(saved'[s], n + 1) = Covered(q, n) + Accounts(Item)
  <2>1. /\ Append(q, Item) \in Seq(Int) /\ Len(Append(q, Item)) = n + 1
        /\ \A i \in 1..n : Append(q, Item)[i] = q[i]
        /\ Append(q, Item)[n + 1] = Item
        /\ \A i \in 0..n : Covered(Append(q, Item), i) = Covered(q, i)
        /\ Covered(Append(q, Item), n + 1) = Covered(q, n) + Accounts(Item)
    BY <1>1, <1>7, LogAppend
  <2>2. DOMAIN Append(q, Item) = 1..n + 1
    BY <2>1
  <2> QED
    BY <1>1, <2>1, <2>2
<1>9. Covered(q, n) = InLog(s) /\ InLog(s) \in Nat
  BY SumsAreNat DEF InLog
<1>10. Item > 0 => Current.op = "Data" /\ Item = Current.n
  BY <1>2, <1>4, <1>5 DEF Item, End
<1>11. Item = End => Current.op = "Close"
  BY <1>2, <1>4, <1>5 DEF Item, End
<1>12. Item > 0 => Item = Covered(saved'[s], n + 1)
  <2> SUFFICES ASSUME Item > 0 PROVE Item = Covered(saved'[s], n + 1)
    OBVIOUS
  <2>1. Current.n = InLog(s) + 1
    BY <1>2, <1>3, <1>10, HeadInTurn DEF LedgerInv
  <2>2. Accounts(Item) = 1
    BY DEF Accounts
  <2> QED
    BY <1>8, <1>9, <1>10, <2>1, <2>2
<1>13. Item = End => /\ OnlyDiscards(Tail(batch), s) /\ OnlyDiscards(ops, s)
                     /\ InLog(s) = printed[s] /\ state[s] \notin {"new", "running"}
  <2> SUFFICES ASSUME Item = End
               PROVE  /\ OnlyDiscards(Tail(batch), s) /\ OnlyDiscards(ops, s)
                      /\ InLog(s) = printed[s] /\ state[s] \notin {"new", "running"}
    OBVIOUS
  <2>1. Current.op = "Close" /\ gaps[s] = 0
    BY <1>5, <1>11
  <2>2. OnlyDiscards(Tail(batch), s) /\ OnlyDiscards(ops, s)
    BY <1>4, <2>1 DEF MayFollow, OnlyDiscards
  <2>3. /\ batch \in Seq(OpType) /\ ops \in Seq(OpType) /\ Len(batch) \in 0..Len(batch)
        /\ Len(ops) \in 0..Len(ops)
    <3>1. batch \in Seq(OpType) /\ ops \in Seq(OpType)
      BY DEF Typed
    <3> QED
      BY <3>1
  <2>4. \A i \in 1..Len(ops) : WeightOf(ops[i], s) = 0
    BY <2>2, OpsAreTyped DEF OnlyDiscards, WeightOf
  <2>5. \A i \in 1..Len(batch) : WeightOf(batch[i], s) = 0
    <3>1. \A i \in DOMAIN batch : batch[i].session = s => batch[i].op \in {"Close", "Discard"}
      <4> SUFFICES ASSUME NEW i \in DOMAIN batch, batch[i].session = s
                   PROVE  batch[i].op \in {"Close", "Discard"}
        OBVIOUS
      <4>1. i = 1 \/ (i - 1 \in DOMAIN Tail(batch) /\ batch[i] = Tail(batch)[i - 1])
        BY <1>2, TailOf
      <4>2. CASE i = 1
        BY <1>2, <2>1, <4>2, TailOf
      <4>3. CASE i - 1 \in DOMAIN Tail(batch) /\ batch[i] = Tail(batch)[i - 1]
        BY <2>2, <4>3 DEF OnlyDiscards
      <4> QED
        BY <4>1, <4>2, <4>3
    <3> QED
      BY <3>1, OpsAreTyped DEF WeightOf
  <2>6. WeightLeft(s) = 0 /\ WeightQueued(s) = 0
    BY <1>2, <2>3, <2>4, <2>5, QueueZero DEF WeightLeft, WeightQueued
  <2>7. Owns(s)
    BY <1>2, TailOf DEF Owns, HasOp
  <2>8. InLog(s) + WeightLeft(s) + WeightQueued(s) + gaps[s] = printed[s]
    BY <1>3, <2>7 DEF LedgerInv, Total
  <2> QED
    BY <1>4, <1>5, <1>9, <2>1, <2>2, <2>6, <2>8
<1>14. Item = End => InLog(s) = Covered(saved'[s], n + 1)
  <2>1. Item = End => Accounts(Item) = 0
    <3>1. PICK x \in Int : x = Item
      BY <1>1
    <3>2. x <= 0 /\ 0 <= x => Accounts(x) = 0
      BY DEF Accounts
    <3> QED
      BY <3>1, <3>2 DEF End
  <2> QED
    BY <1>8, <1>9, <2>1
<1> HIDE DEF q, n
<1>15. ASSUME NEW i \in DOMAIN saved'[s]
       PROVE  (i \in DOMAIN q /\ i \in 0..n /\ saved'[s][i] = q[i] /\ q[i] # End)
              \/ (i = n + 1 /\ saved'[s][i] = Item)
  <2>1. i \in 1..n \/ i = n + 1
    BY <1>7, <1>8
  <2>2. \A k \in DOMAIN q : q[k] # End
    BY <1>6 DEF Ended, q
  <2>3. i \in 1..n => i \in 0..n
    BY <1>7
  <2> QED
    BY <1>7, <1>8, <2>1, <2>2, <2>3
<1>16. \A i \in DOMAIN q : q[i] > 0 => q[i] = Covered(q, i)
  BY DEF EndOf, q
<1>17. \A i \in DOMAIN saved'[s] : saved'[s][i] > 0 => saved'[s][i] = Covered(saved'[s], i)
  BY <1>8, <1>12, <1>15, <1>16
<1>18. \A i \in DOMAIN saved'[s] :
           saved'[s][i] = End => i = Len(saved'[s]) /\ Covered(saved'[s], i) = printed'[s] /\ Item = End
  BY <1>1, <1>8, <1>13, <1>14, <1>15
<1>19. Ended(s)' => Item = End
  BY <1>18 DEF Ended
<1>20. Ended(s)' => state'[s] \notin {"new", "running"} /\ OnlyDiscards(Rest', s) /\ OnlyDiscards(ops', s)
  BY <1>1, <1>2, <1>13, <1>19
<1>21. OnlyDiscards(Rest, s)' = OnlyDiscards(Rest', s) /\ OnlyDiscards(ops, s)' = OnlyDiscards(ops', s)
  BY DEF OnlyDiscards
<1> QED
  BY <1>17, <1>18, <1>20, <1>21 DEF EndOf

(* Every step does.                                                        *)
LEMMA EndStep ==
    ASSUME Typed, WriterInv, OrderInv, LedgerInv, EndInv, [Next]_vars
    PROVE  EndInv'
<1> SUFFICES ASSUME NEW s \in Sessions PROVE EndOf(s)'
  BY DEF EndInv, GapsInPlace, EndMeansWhole, EndOf, Ended
<1>0. EndOf(s)
  BY EndIs
<1>1. ASSUME saved'[s] = saved[s],
             state[s] \notin {"new", "running"} =>
                 printed'[s] = printed[s] /\ state'[s] \notin {"new", "running"},
             \A j \in DOMAIN Rest' : Rest'[j].session = s =>
                 Rest'[j].op = "Discard" \/ (\E i \in DOMAIN Rest : Rest'[j] = Rest[i])
                     \/ (\E i \in DOMAIN ops : Rest'[j] = ops[i]),
             \A j \in DOMAIN ops' : ops'[j].session = s /\ state[s] \notin {"new", "running"} =>
                 ops'[j].op = "Discard" \/ (\E i \in DOMAIN ops : ops'[j] = ops[i])
      PROVE  EndOf(s)'
  <2>1. Ended(s)' <=> Ended(s)
    BY <1>1 DEF Ended
  <2>2. Ended(s) => /\ state[s] \notin {"new", "running"}
                    /\ \A j \in DOMAIN Rest' : Rest'[j].session = s => Rest'[j].op = "Discard"
                    /\ \A j \in DOMAIN ops' : ops'[j].session = s => ops'[j].op = "Discard"
    BY <1>0, <1>1 DEF EndOf, OnlyDiscards
  <2>3. Ended(s)' => OnlyDiscards(Rest, s)' /\ OnlyDiscards(ops, s)'
    BY <2>1, <2>2 DEF OnlyDiscards
  <2>4. \A i \in DOMAIN saved[s] : saved[s][i] = End =>
            i = Len(saved[s]) /\ Covered(saved[s], i) = printed'[s]
    BY <1>0, <1>1, <2>2 DEF EndOf, Ended
  <2> QED
    BY <1>0, <1>1, <2>1, <2>2, <2>3, <2>4 DEF EndOf
<1>2. ASSUME Rest' = Rest PROVE \A j \in DOMAIN Rest' : \E i \in DOMAIN Rest : Rest'[j] = Rest[i]
  BY <1>2
<1>3. ASSUME ops' = ops PROVE \A j \in DOMAIN ops' : \E i \in DOMAIN ops : ops'[j] = ops[i]
  BY <1>3
<1>4. ASSUME Still PROVE Rest' = Rest
  BY <1>4, StillIs
<1>5. ASSUME Leaves PROVE \A j \in DOMAIN Rest' : \E i \in DOMAIN Rest : Rest'[j] = Rest[i]
  <2>1. Rest = batch /\ Rest' = Tail(batch) /\ batch # <<>>
    BY <1>5, LeavesIs DEF Leaves
  <2> QED
    BY <2>1, TailOf
<1>6. CASE UNCHANGED vars \/ Reads \/ Shutdown
  <2>1. Still /\ UNCHANGED <<saved, state, printed, ops>>
    BY <1>6, VarsSame, ReadUnread, ShutdownIs DEF Still, Reads
  <2> QED
    BY <1>1, <1>2, <1>3, <1>4, <2>1
\* The sessions' side.
<1>7. ASSUME NEW c \in Sessions, state[c] \in {"new", "running"} \/ printed' = printed,
             state[c] \in {"new", "running"} \/ state'[c] = "ended",
             \A d \in Others(c) : state'[d] = state[d] /\ printed'[d] = printed[d],
             saved' = saved, Still,
             \A j \in DOMAIN ops' : \/ j \in DOMAIN ops /\ ops'[j] = ops[j]
                                    \/ ops'[j].session = c /\ state[c] \in {"new", "running"}
                                    \/ ops'[j].op = "Discard"
      PROVE  EndOf(s)'
  <2>1. state[s] \notin {"new", "running"} =>
            printed'[s] = printed[s] /\ state'[s] \notin {"new", "running"}
    BY <1>7 DEF Others
  <2> QED
    BY <1>1, <1>2, <1>4, <1>7, <2>1
<1>8. ASSUME NEW c \in Sessions, Arm(c) PROVE EndOf(s)'
  <2>1. /\ state[c] = "new"
        /\ \A d \in Others(c) : state'[d] = state[d]
        /\ Joins(1) /\ ops'[Len(ops) + 1] = Op("Open", c, 0)
        /\ UNCHANGED <<batch, saved, printed>>
    BY <1>8, ArmIs
  <2>2. \A j \in DOMAIN ops' : (j \in DOMAIN ops /\ ops'[j] = ops[j]) \/ ops'[j].session = c
    BY <2>1, JoinOneOf DEF Op
  <2> QED
    BY <1>7, <2>1, <2>2 DEF Joins, Still
<1>9. ASSUME NEW c \in Sessions, DropChunk(c) PROVE EndOf(s)'
  <2>1. /\ state[c] = "running" /\ \A d \in Others(c) : printed'[d] = printed[d]
        /\ UNCHANGED <<batch, writer, saved, state, ops>>
    BY <1>9, DropChunkIs
  <2> QED
    BY <1>7, <2>1 DEF Still
<1>10. ASSUME NEW c \in Sessions, KeepChunk(c) PROVE EndOf(s)'
  <2>1. /\ state[c] = "running" /\ \A d \in Others(c) : printed'[d] = printed[d]
        /\ Joins(MarkerLen(c) + 1)
        /\ ops'[Len(ops) + MarkerLen(c) + 1] = Op("Data", c, printed[c] + 1)
        /\ gaps[c] > 0 => ops'[Len(ops) + 1] = Op("Gap", c, gaps[c])
        /\ UNCHANGED <<batch, saved, state>>
    BY <1>10, KeepChunkIs
  <2>2. \A j \in DOMAIN ops' : (j \in DOMAIN ops /\ ops'[j] = ops[j]) \/ ops'[j].session = c
    BY <2>1, JoinMarkedOf DEF Op
  <2> QED
    BY <1>7, <2>1, <2>2 DEF Joins, Still
<1>11. ASSUME NEW c \in Sessions, NEW now, Ends(c, now) PROVE EndOf(s)'
  <2>1. /\ Close(c, now) /\ state[c] = "running" /\ printed' = printed
        /\ \A d \in Others(c) : state'[d] = state[d]
        /\ UNCHANGED <<batch, saved>>
    BY <1>11, EndsIs, ClosedNow, CloseIs
  <2>2. CASE shutdown
    BY <1>7, <2>1, <2>2, CloseIs DEF Still
  <2>3. CASE ~shutdown
    <3>1. /\ Joins(MarkerLen(c) + 1)
          /\ ops'[Len(ops) + MarkerLen(c) + 1] = Op("Close", c, 0)
          /\ gaps[c] > 0 => ops'[Len(ops) + 1] = Op("Gap", c, gaps[c])
      BY <2>1, <2>3, CloseIs
    <3>2. \A j \in DOMAIN ops' : (j \in DOMAIN ops /\ ops'[j] = ops[j]) \/ ops'[j].session = c
      BY <3>1, JoinMarkedOf DEF Op
    <3> QED
      BY <1>7, <2>1, <3>1, <3>2 DEF Joins, Still
  <2> QED
    BY <2>2, <2>3
<1>12. ASSUME NEW c \in Sessions, Discard(c) PROVE EndOf(s)'
  <2>1. /\ state'[c] = "ended" /\ printed' = printed
        /\ \A d \in Others(c) : state'[d] = state[d]
        /\ UNCHANGED <<batch, saved>>
    BY <1>12, DiscardIs
  <2>2. CASE shutdown
    <3>1. UNCHANGED <<ops, writer>>
      BY <1>12, <2>2, DiscardIs
    <3> QED
      BY <1>7, <2>1, <3>1 DEF Still
  <2>3. CASE ~shutdown
    <3>1. Joins(1) /\ ops'[Len(ops) + 1] = Op("Discard", c, 0)
      BY <1>12, <2>3, DiscardIs
    <3>2. \A j \in DOMAIN ops' : (j \in DOMAIN ops /\ ops'[j] = ops[j]) \/ ops'[j].op = "Discard"
      BY <3>1, JoinOneOf DEF Op
    <3> QED
      BY <1>7, <2>1, <3>1, <3>2 DEF Joins, Still
  <2> QED
    BY <2>2, <2>3
\* The writer's side.
<1>13. CASE TakeBatch
  <2>1. batch' = ops /\ ops' = <<>> /\ writer' = "applying" /\ UNCHANGED <<saved, state, printed>>
    BY <1>13, TakeBatchIs
  <2>2. Rest' = ops
    BY <2>1 DEF Rest, Written
  <2> QED
    BY <1>1, <2>1, <2>2
<1>14. CASE Wait \/ SyncIdle \/ Stopped \/ BatchDone
  <2>1. /\ writer \in {"looking", "waiting", "applying"}
        /\ writer' \in {"looking", "waiting", "stopped"}
        /\ UNCHANGED <<batch, ops, saved, state, printed>>
    BY <1>14, IdleIs
  <2>2. Rest' = Rest
    BY <2>1 DEF Rest, Written
  <2> QED
    BY <1>1, <1>2, <1>3, <2>1, <2>2
<1>15. CASE ApplyOpen \/ ApplyDiscard \/ AppendSkipped \/ AppendFails
  <2>1. Leaves /\ UNCHANGED <<ops, saved, state, printed>>
    BY <1>15, ApplyOpenIs, ApplyDiscardIs, AppendSkippedIs, AppendFailsIs DEF Leaves, Ready
  <2> QED
    BY <1>1, <1>3, <1>5, <2>1
<1>16. CASE WriteItem
  <2>1. CASE s = Current.session
    BY <1>0, <1>16, <2>1, WrittenEnd
  <2>2. CASE s # Current.session
    <3>1. Leaves /\ saved'[s] = saved[s] /\ UNCHANGED <<ops, state, printed>>
      BY <1>16, <2>2, WriteItemIs DEF Leaves, Ready, Others
    <3> QED
      BY <1>1, <1>3, <1>5, <3>1
  <2> QED
    BY <2>1, <2>2
<1>17. CASE Rename \/ NewSegment \/ Enforce
  <2>1. /\ batch' = batch /\ UNCHANGED <<ops, saved, state, printed>>
        /\ \/ writer \in {"applying", "renamed"} /\ writer' \in {"renamed", "rotated"}
           \/ writer = "enforcing" /\ writer' = "applied"
    BY <1>17, RenameIs, NewSegmentIs, EnforceIs
  <2>2. Rest' = Rest
    BY <2>1 DEF Rest, Written
  <2> QED
    BY <1>1, <1>2, <1>3, <2>1, <2>2
<1>18. CASE Applied
  <2>1. /\ batch' = Tail(batch) /\ writer = "applied" /\ writer' = "applying"
        /\ UNCHANGED <<ops, saved, state, printed>>
    BY <1>18, AppliedIs
  <2>2. Rest' = Rest
    BY <2>1 DEF Rest, Written
  <2> QED
    BY <1>1, <1>2, <1>3, <2>1, <2>2
<1>19. CASE Panic \/ PanicInMarker
  <2>1. /\ batch # <<>> /\ batch' = batch /\ writer \in {"applying", "renamed", "rotated", "enforcing"}
        /\ writer' = "unwinding" /\ UNCHANGED <<ops, saved, state, printed>>
    BY <1>19, PanicIs, PanicInMarkerIs
  <2>2. Rest' = Tail(batch) /\ (Rest = batch \/ Rest = Tail(batch))
    BY <2>1 DEF Rest, Written
  <2>3. \A j \in DOMAIN Rest' : \E i \in DOMAIN Rest : Rest'[j] = Rest[i]
    BY <2>1, <2>2, TailOf
  <2> QED
    BY <1>1, <1>3, <2>1, <2>3
<1>20. CASE BatchFails
  <2>1. batch' = batch /\ writer = "unwinding" /\ writer' = "failed" /\ UNCHANGED <<ops, saved, state, printed>>
    BY <1>20, BatchFailsIs
  <2>2. Rest' = Rest
    BY <2>1 DEF Rest, Written
  <2> QED
    BY <1>1, <1>2, <1>3, <2>1, <2>2
<1>21. CASE BatchReleased
  <2>1. batch' = <<>> /\ writer' \in {"looking", "given up"} /\ UNCHANGED <<ops, saved, state, printed>>
    BY <1>21, BatchReleasedIs
  <2>2. Rest' = <<>>
    BY <2>1 DEF Rest, Written
  <2>3. DOMAIN Rest' = {}
    BY <2>2
  <2> QED
    BY <1>1, <1>3, <2>1, <2>3
<1>22. CASE HostDies
  <2>1. /\ batch' = <<>> /\ ops' = <<>> /\ writer' = "looking"
        /\ state'[s] = IF state[s] = "new" THEN "new" ELSE "ended"
        /\ UNCHANGED <<printed, saved>>
    BY <1>22, HostDiesIs
  <2>2. Rest' = <<>>
    BY <2>1 DEF Rest, Written
  <2> QED
    BY <1>1, <2>1, <2>2
<1> QED
  BY Steps, <1>6, <1>8, <1>9, <1>10, <1>11, <1>12, <1>13, <1>14, <1>15, <1>16, <1>17, <1>18,
     <1>19, <1>20, <1>21, <1>22

\* What the head of the batch is appended to is open.
LEMMA ReadyIsOpen ==
    ASSUME Typed, WriterInv, OrderInv, LogsInv, writer = "applying", Ready
    PROVE  Current.session \in logs /\ segments[Current.session].current
<1> DEFINE s == Current.session
<1>1. /\ batch # <<>> /\ Current.op \in {"Data", "Gap", "Close"} /\ s \notin failures
      /\ Current.op = "Close" => s \in logs
  BY DEF Ready
<1>2. Rest = batch /\ ~Interrupted(s) /\ s \in Sessions
  BY <1>1, HeadIs DEF Rest, Written, Interrupted
<1>3. ~HasOpen(Rest, s) /\ ~HasOpen(ops, s)
  BY <1>1, <1>2, HeadOrder
<1>4. Current.op # "Close" => HasOutput(Rest, s)
  BY <1>1, <1>2, TailOf DEF HasOutput
<1>5. s \in logs
  BY <1>1, <1>2, <1>3, <1>4 DEF LogsInv, LogsOf
<1> QED
  BY <1>1, <1>2, <1>5 DEF LogsInv, LogsOf

\* A log that is full holds something the session printed.
LEMMA FullIsPrinted ==
    ASSUME Typed, WriterInv, LedgerInv, EndInv, NEW s \in Sessions, Len(saved[s]) > 1
    PROVE  printed[s] > 0
<1> DEFINE q == saved[s]
<1>1. q \in Seq(Int) /\ Len(q) \in Nat /\ 1 \in DOMAIN q /\ q[1] \in Int /\ Len(q) > 1
  <2>1. q \in Seq(Int)
    BY DEF Typed
  <2> QED
    BY <2>1
<1>2. q[1] # End
  <2>1. q[1] = End => 1 = Len(q)
    BY <1>1 DEF EndInv, EndMeansWhole
  <2>2. PICK l \in Nat : l = Len(q)
    BY <1>1
  <2>3. l > 1 /\ (q[1] = End => 1 = l)
    BY <1>1, <2>1, <2>2
  <2>4. ~(1 = l)
    BY <2>3
  <2> QED
    BY <2>3, <2>4
<1> HIDE DEF q
<1>3. Covered(q, 0 + 1) = Covered(q, 0) + Accounts(q[0 + 1])
  <2>1. 0 \in Nat /\ 0 < Len(q)
    BY <1>1
  <2> QED
    BY <1>1, <2>1, LogNext
<1>4. Accounts(q[1]) >= 1
  <2>1. PICK x \in Int : x = q[1]
    BY <1>1
  <2>2. x > 0 \/ x < 0
    BY <1>2, <2>1 DEF End
  <2>3. Accounts(x) >= 1
    BY <2>2 DEF Accounts
  <2> QED
    BY <2>1, <2>3
<1>5. Covered(q, 0) = 0
  BY LogNone
<1>6. Accounts(q[1]) \in Int
  BY <1>1 DEF Accounts
<1>7. Covered(q, 1) >= 1
  <2>1. 0 + 1 = 1
    OBVIOUS
  <2> QED
    BY <1>3, <1>4, <1>5, <1>6, <2>1
<1>8. Covered(q, 1) <= Covered(q, Len(q)) /\ Covered(q, 1) \in Nat /\ Covered(q, Len(q)) \in Nat
  <2>1. Len(q) \in 0..Len(q) /\ 1 \in 0..Len(q)
    BY <1>1
  <2> QED
    BY <1>1, <2>1, LogNat
<1>9. InLog(s) >= 1
  BY <1>7, <1>8 DEF InLog, q
<1>10. /\ Total(s) <= printed[s] /\ Total(s) = InLog(s) + WeightLeft(s) + WeightQueued(s) + gaps[s]
       /\ WeightLeft(s) \in Nat /\ WeightQueued(s) \in Nat /\ InLog(s) \in Nat
       /\ gaps[s] \in Nat /\ printed[s] \in Nat
  BY SumsAreNat DEF LedgerInv, Total, Typed
<1> QED
  BY <1>9, <1>10

(* Every step keeps the segments of a log in order and within their size.  *)
LEMMA SegmentsStep ==
    ASSUME Typed, WriterInv, OrderInv, FreshInv, LedgerInv, EndInv, SegmentsInv, LogsInv, [Next]_vars
    PROVE  SegmentsInv'
<1> SUFFICES ASSUME NEW s \in Sessions PROVE SegmentsOf(s)'
  BY DEF SegmentsInv
<1> DEFINE g == segments[s]
           h == segments'[s]
<1>0. /\ SegmentsOf(s) /\ g \in SegmentType /\ g.newest \in Nat /\ g.currentFrom \in Nat
      /\ saved[s] \in Seq(Int) /\ Len(saved[s]) \in Nat /\ printed[s] \in Nat
  <2>1. g \in SegmentType /\ saved[s] \in Seq(Int) /\ printed[s] \in Nat
    BY DEF Typed
  <2> QED
    BY <2>1 DEF SegmentsInv, SegmentType
<1>1. ASSUME saved'[s] = saved[s], Kept(g, h), printed'[s] \in Nat, printed'[s] >= printed[s],
             ~(writer' \in {"renamed", "rotated"} /\ Current'.session = s)
             \/ (writer' = writer /\ Current' = Current /\ h = g)
      PROVE  SegmentsOf(s)'
  <2>1. Used(s)' = Used(s)
    BY <1>1 DEF Used, Kept
  <2>2. printed[s] > 0 => printed'[s] > 0
    BY <1>0, <1>1
  <2> QED
    BY <1>0, <1>1, <2>1, <2>2 DEF SegmentsOf, Kept
<1>2. h = g => Kept(g, h)
  BY DEF Kept
<1>3. printed'[s] = printed[s] => printed'[s] \in Nat /\ printed'[s] >= printed[s]
  BY <1>0
<1>4. ASSUME Still, saved' = saved, segments' = segments, printed'[s] \in Nat, printed'[s] >= printed[s]
      PROVE  SegmentsOf(s)'
  <2>1. writer' = writer \/ writer' = "looking"
    BY <1>4 DEF Still
  <2>2. Current' = Current
    BY <1>4, StillIs
  <2> QED
    BY <1>1, <1>2, <1>4, <2>1, <2>2
<1>5. CASE UNCHANGED vars \/ Reads \/ Shutdown
  <2>1. Still /\ UNCHANGED <<saved, segments, printed>>
    BY <1>5, VarsSame, ReadUnread, ShutdownIs DEF Still, Reads
  <2> QED
    BY <1>3, <1>4, <2>1
<1>6. ASSUME NEW c \in Sessions, Arm(c) PROVE SegmentsOf(s)'
  <2>1. Still /\ UNCHANGED <<saved, segments, printed>>
    BY <1>6, ArmIs DEF Joins, Still
  <2> QED
    BY <1>3, <1>4, <2>1
<1>7. ASSUME NEW c \in Sessions, DropChunk(c) \/ KeepChunk(c) PROVE SegmentsOf(s)'
  <2>1. /\ UNCHANGED <<saved, segments, batch>>
        /\ printed'[c] = printed[c] + 1 /\ \A d \in Others(c) : printed'[d] = printed[d]
    BY <1>7, DropChunkIs, KeepChunkIs
  <2>2. Still
    <3>1. DropChunk(c) => writer' = writer
      BY DropChunkIs
    <3>2. KeepChunk(c) => Joins(MarkerLen(c) + 1)
      BY KeepChunkIs
    <3> QED
      BY <1>7, <2>1, <3>1, <3>2 DEF Joins, Still
  <2>3. printed'[s] \in Nat /\ printed'[s] >= printed[s]
    BY <1>0, <2>1 DEF Others
  <2> QED
    BY <1>4, <2>1, <2>2, <2>3
<1>8. ASSUME NEW c \in Sessions, NEW now, Ends(c, now) PROVE SegmentsOf(s)'
  <2>1. Close(c, now) /\ UNCHANGED <<saved, segments, printed, batch>>
    BY <1>8, EndsIs, CloseIs
  <2>2. Still
    BY <2>1, CloseIs DEF Joins, Still
  <2> QED
    BY <1>3, <1>4, <2>1, <2>2
<1>9. ASSUME NEW c \in Sessions, Discard(c) PROVE SegmentsOf(s)'
  <2>1. UNCHANGED <<saved, segments, printed, batch>>
    BY <1>9, DiscardIs
  <2>2. Still
    BY <1>9, <2>1, DiscardIs DEF Joins, Still
  <2> QED
    BY <1>3, <1>4, <2>1, <2>2
<1>10. ASSUME writer' \notin {"renamed", "rotated"}, saved'[s] = saved[s], printed' = printed, Kept(g, h)
       PROVE  SegmentsOf(s)'
  BY <1>1, <1>3, <1>10
<1>11. CASE TakeBatch \/ Wait \/ SyncIdle \/ Stopped \/ BatchDone \/ AppendSkipped \/ AppendFails
            \/ Applied \/ Panic \/ PanicInMarker \/ BatchFails \/ BatchReleased
  <2>1. /\ writer' \notin {"renamed", "rotated"}
        /\ UNCHANGED <<saved, segments, printed>>
    BY <1>11, TakeBatchIs, IdleIs, AppendSkippedIs, AppendFailsIs, AppliedIs, PanicIs, PanicInMarkerIs,
       BatchFailsIs, BatchReleasedIs
  <2> QED
    BY <1>2, <1>10, <2>1
<1>12. CASE ApplyOpen
  <2>1. /\ writer = "applying" /\ writer' = "applied" /\ batch # <<>> /\ Current.op = "Open"
        /\ UNCHANGED <<saved, printed>>
    BY <1>12, ApplyOpenIs
  <2>2. CASE h = g
    BY <1>2, <1>10, <2>1, <2>2
  <2>3. CASE h # g
    <3>1. s = Current.session /\ Begun(h)
      BY <1>12, <2>3, ApplyOpenIs DEF Others
    <3>2. saved[s] = <<>>
      <4>1. HasOpen(Rest, s)
        BY <2>1, <3>1, TailOf DEF HasOpen, Rest, Written
      <4> QED
        BY <4>1 DEF FreshInv, Fresh
    <3>3. Len(saved'[s]) = 0
      BY <2>1, <3>2
    <3>4. Used(s)' = 0
      BY <3>1, <3>3 DEF Used, Begun
    <3> QED
      BY <2>1, <3>1, <3>3, <3>4, SizesAssumption DEF SegmentsOf, Begun
  <2> QED
    BY <2>2, <2>3
<1>13. CASE ApplyDiscard
  <2>1. /\ writer = "applying" /\ writer' = "applied" /\ batch # <<>>
        /\ UNCHANGED <<saved, printed>>
    BY <1>13, ApplyDiscardIs
  <2>2. CASE h = g
    BY <1>2, <1>10, <2>1, <2>2
  <2>3. CASE h # g
    <3>1. h = NoSegments
      BY <1>13, <2>3, ApplyDiscardIs DEF Others
    <3>2. /\ h.currentFrom = 0 /\ ~h.previous /\ ~h.current /\ h.newest = 0
      BY <3>1 DEF NoSegments
    <3>3. Len(saved'[s]) \in Nat
      BY <1>0, <2>1
    <3> QED
      BY <2>1, <3>2, <3>3 DEF SegmentsOf
  <2> QED
    BY <2>2, <2>3
\* What is appended goes to a segment that is there and has room.
<1>14. CASE WriteItem
  <2>1. /\ writer \in {"applying", "rotated"} /\ Ready /\ HasRoom(Current.session) /\ Item \in Int
        /\ writer' \in {"enforcing", "applied"} /\ h = g /\ printed' = printed
        /\ Current.session = s => saved'[s] = Append(saved[s], Item)
        /\ Current.session # s => saved'[s] = saved[s]
    BY <1>14, WriteItemIs DEF Others
  <2>2. CASE Current.session # s
    BY <1>2, <1>10, <2>1, <2>2
  <2>3. CASE Current.session = s
    <3>1. g.current
      BY <1>0, <2>1, <2>3, ReadyIsOpen DEF SegmentsOf
    <3>2. Len(saved'[s]) = Len(saved[s]) + 1
      BY <1>0, <2>1, <2>3
    <3>3. Used(s) < SegmentItems /\ Used(s)' = Used(s) + 1 /\ Used(s) \in Int
      <4>1. Used(s) < SegmentItems
        BY <2>1, <2>3 DEF HasRoom
      <4>2. PICK e \in Nat : e = IF g.newest > 1 THEN 1 ELSE 0
        OBVIOUS
      <4>3. Used(s) = Len(saved[s]) - g.currentFrom + e
        BY <4>2 DEF Used
      <4>4. Used(s)' = Len(saved'[s]) - g.currentFrom + e
        BY <2>1, <4>2 DEF Used
      <4> QED
        BY <1>0, <3>2, <4>1, <4>3, <4>4
    <3>4. Used(s)' <= SegmentItems
      BY <3>3, SizesAssumption
    <3>5. h.currentFrom <= Len(saved'[s])
      BY <1>0, <2>1, <3>2 DEF SegmentsOf
    <3> QED
      BY <1>0, <2>1, <3>1, <3>4, <3>5 DEF SegmentsOf
  <2> QED
    BY <2>2, <2>3
<1>15. CASE Rename
  <2>1. /\ writer = "applying" /\ writer' = "renamed" /\ Ready /\ ~HasRoom(Current.session)
        /\ UNCHANGED <<saved, printed, batch>>
    BY <1>15, RenameIs
  <2>2. Current' = Current
    BY <2>1 DEF Current
  <2>3. CASE Current.session # s
    <3>1. h = g
      BY <1>15, <2>3, RenameIs DEF Others
    <3> QED
      BY <1>1, <1>2, <1>3, <2>1, <2>2, <2>3, <3>1
  <2>4. CASE Current.session = s
    <3>1. /\ h.newest = g.newest + 1 /\ h.previous /\ ~h.current
          /\ h.currentFrom = Len(saved[s])
      BY <1>15, <2>4, RenameIs
    <3>2. g.newest > 0
      BY <1>0, <2>1, <2>4, ReadyIsOpen DEF SegmentsOf
    <3>3. printed[s] > 0
      <4>1. CASE g.newest > 1
        BY <1>0, <4>1 DEF SegmentsOf
      <4>2. CASE ~(g.newest > 1)
        <5>1. Used(s) = Len(saved[s]) - g.currentFrom + 0 /\ ~(Used(s) < SegmentItems)
          BY <2>1, <2>4, <4>2 DEF Used, HasRoom
        <5>2. Len(saved[s]) > 1
          BY <1>0, <5>1, SizesAssumption
        <5> QED
          BY <5>2, FullIsPrinted
      <4> QED
        BY <4>1, <4>2
    <3>4. h.newest > 1 /\ h.currentFrom = Len(saved'[s]) /\ h.currentFrom <= Len(saved'[s])
      BY <1>0, <2>1, <3>1, <3>2
    <3> QED
      BY <2>1, <3>1, <3>3, <3>4 DEF SegmentsOf
  <2> QED
    BY <2>3, <2>4
<1>16. CASE NewSegment
  <2>1. /\ writer = "renamed" /\ writer' = "rotated" /\ UNCHANGED <<saved, printed, batch>>
    BY <1>16, NewSegmentIs
  <2>2. Current' = Current
    BY <2>1 DEF Current
  <2>3. CASE Current.session # s
    <3>1. h = g
      BY <1>16, <2>3, NewSegmentIs DEF Others
    <3> QED
      BY <1>1, <1>2, <1>3, <2>1, <2>2, <2>3, <3>1
  <2>4. CASE Current.session = s
    <3>1. /\ h.newest = g.newest /\ h.previous = g.previous /\ h.current
          /\ h.currentFrom = g.currentFrom
      BY <1>16, <2>4, NewSegmentIs
    <3>2. g.previous /\ g.currentFrom = Len(saved[s]) /\ g.newest > 1
      BY <1>0, <2>1, <2>4 DEF SegmentsOf
    <3>3. Used(s)' = Len(saved[s]) - Len(saved[s]) + 1
      BY <2>1, <3>1, <3>2 DEF Used
    <3>4. Used(s)' <= SegmentItems /\ h.newest > 0 /\ h.currentFrom <= Len(saved'[s])
      BY <1>0, <2>1, <3>1, <3>2, <3>3, SizesAssumption
    <3> QED
      BY <1>0, <2>1, <3>1, <3>4 DEF SegmentsOf
  <2> QED
    BY <2>3, <2>4
<1>17. CASE Enforce \/ HostDies
  <2>1. /\ writer' \notin {"renamed", "rotated"} /\ Kept(g, h) /\ UNCHANGED <<saved, printed>>
    BY <1>17, EnforceIs, HostDiesIs
  <2> QED
    BY <1>10, <2>1
<1> QED
  BY Steps, <1>5, <1>6, <1>7, <1>8, <1>9, <1>11, <1>12, <1>13, <1>14, <1>15, <1>16, <1>17

(* Every step keeps the queue within its bound and one marker.             *)
LEMMA BoundStep ==
    ASSUME Typed, WriterInv, BoundInv, [Next]_vars
    PROVE  BoundInv'
<1>0. cost \in Nat /\ cost <= QueueBytes + OpCost /\ QueueBytes \in Nat /\ OpCost \in Nat
  BY SizesAssumption DEF Typed, BoundInv
<1>1. cost' = cost => BoundInv'
  BY <1>0 DEF BoundInv
<1>2. cost' = 0 => BoundInv'
  BY <1>0 DEF BoundInv
<1>3. CASE UNCHANGED vars \/ Reads
  BY <1>1, <1>3, VarsSame, ReadUnread DEF Reads
<1>4. ASSUME NEW s \in Sessions, Arm(s) \/ DropChunk(s) PROVE BoundInv'
  BY <1>1, <1>4, ArmIs, DropChunkIs
<1>5. ASSUME NEW s \in Sessions, KeepChunk(s) PROVE BoundInv'
  <2>1. cost + ChunkCost <= QueueBytes /\ cost' = cost + ChunkCost + OpCost * MarkerLen(s)
    BY <1>5, KeepChunkIs
  <2>2. ChunkCost \in Nat /\ MarkerLen(s) \in {0, 1}
    BY <1>0 DEF ChunkCost, MarkerLen
  <2>3. OpCost * MarkerLen(s) \in Nat /\ OpCost * MarkerLen(s) <= OpCost
    BY <1>0, <2>2
  <2> QED
    BY <1>0, <2>1, <2>2, <2>3 DEF BoundInv
<1>6. ASSUME NEW s \in Sessions, NEW now, Ends(s, now) PROVE BoundInv'
  <2>1. Close(s, now)
    BY <1>6, EndsIs
  <2> QED
    BY <1>1, <2>1, CloseIs
<1>7. ASSUME NEW s \in Sessions, Discard(s) PROVE BoundInv'
  BY <1>1, <1>7, DiscardIs
<1>8. CASE TakeBatch \/ HostDies
  BY <1>2, <1>8, TakeBatchIs, HostDiesIs
<1>9. CASE Shutdown \/ Wait \/ SyncIdle \/ Stopped \/ BatchDone \/ ApplyOpen \/ ApplyDiscard
           \/ AppendSkipped \/ AppendFails \/ WriteItem \/ Rename
  BY <1>1, <1>9, ShutdownIs, IdleIs, ApplyOpenIs, ApplyDiscardIs, AppendSkippedIs, AppendFailsIs,
     WriteItemIs, RenameIs
<1>10. CASE NewSegment \/ Enforce \/ Applied \/ Panic \/ PanicInMarker \/ BatchFails \/ BatchReleased
  BY <1>1, <1>10, NewSegmentIs, EnforceIs, AppliedIs, PanicIs, PanicInMarkerIs, BatchFailsIs,
     BatchReleasedIs
<1> QED
  BY Steps, <1>3, <1>4, <1>5, <1>6, <1>7, <1>8, <1>9, <1>10

-----------------------------------------------------------------------------
(* The logs that are open.                                                 *)

Fed(s) == (state[s] = "running" /\ ~shutdown) \/ HasOutput(Rest, s) \/ HasOutput(ops, s)
Opens(s) == HasOpen(Rest, s) \/ HasOpen(ops, s)
Renamed(s) == writer = "renamed" /\ Current.session = s

(* What the tail of the batch holds of a session the batch holds too.      *)
LEMMA TailHas ==
    ASSUME Typed, batch # <<>>, NEW s
    PROVE  /\ HasOutput(Tail(batch), s) => HasOutput(batch, s)
           /\ Current.session # s /\ HasOpen(batch, s) => HasOpen(Tail(batch), s)
<1>1. HasOutput(Tail(batch), s) => HasOutput(batch, s)
  BY TailOf DEF HasOutput
<1>2. ASSUME Current.session # s, HasOpen(batch, s) PROVE HasOpen(Tail(batch), s)
  <2>1. PICK i \in DOMAIN batch : batch[i].session = s /\ batch[i].op = "Open"
    BY <1>2 DEF HasOpen
  <2>2. i # 1
    BY <1>2, <2>1, TailOf
  <2>3. i - 1 \in DOMAIN Tail(batch) /\ batch[i] = Tail(batch)[i - 1]
    BY <2>2, TailOf
  <2> QED
    BY <2>1, <2>3 DEF HasOpen
<1> QED
  BY <1>1, <1>2

\* After a Close or a Discard nothing more is appended.
LEMMA LastOf ==
    ASSUME Typed, OrderInv, batch # <<>>, Current.op \in {"Close", "Discard"}, NEW s,
           s = Current.session
    PROVE  /\ state[s] # "running" /\ ~HasOutput(Tail(batch), s) /\ ~HasOutput(ops, s)
           /\ ~HasOutput(batch, s)
<1>1. /\ Current \in Going
      /\ \A j \in DOMAIN Tail(batch) : MayFollow(Current, Tail(batch)[j])
      /\ \A j \in DOMAIN ops : MayFollow(Current, ops[j])
  BY HeadOrder
<1>2. state[s] # "running"
  BY <1>1 DEF Going
<1>3. ~HasOutput(Tail(batch), s) /\ ~HasOutput(ops, s)
  BY <1>1 DEF MayFollow, HasOutput
<1>4. ASSUME HasOutput(batch, s) PROVE FALSE
  <2>1. PICK i \in DOMAIN batch : batch[i].session = s /\ batch[i].op \in {"Data", "Gap"}
    BY <1>4 DEF HasOutput
  <2>2. i # 1
    BY <2>1, TailOf
  <2>3. i - 1 \in DOMAIN Tail(batch) /\ batch[i] = Tail(batch)[i - 1]
    BY <2>2, TailOf
  <2> QED
    BY <1>3, <2>1, <2>3 DEF HasOutput
<1> QED
  BY <1>2, <1>3, <1>4

(* Every step keeps a session's log open while something is to be          *)
(* appended.                                                               *)
LEMMA LogsOfStep ==
    ASSUME Typed, WriterInv, OrderInv, SegmentsInv, LogsInv, [Next]_vars, NEW s \in Sessions
    PROVE  LogsOf(s)'
<1>0. /\ s \in logs /\ s \notin failures => segments[s].current \/ Interrupted(s) \/ Renamed(s)
      /\ s \notin failures /\ ~Interrupted(s) /\ Fed(s) => s \in logs \/ Opens(s)
  BY DEF LogsInv, LogsOf, Renamed, Fed, Opens
<1> DEFINE Now == /\ s \in logs' /\ s \notin failures' =>
                         segments'[s].current \/ Interrupted(s)' \/ Renamed(s)'
                  /\ s \notin failures' /\ ~Interrupted(s)' /\ Fed(s)' => s \in logs' \/ Opens(s)'
<1> SUFFICES Now
  BY DEF LogsOf, Renamed, Fed, Opens
<1>1. ASSUME s \in logs' <=> s \in logs, s \in failures => s \in failures',
             segments[s].current => segments'[s].current,
             Interrupted(s) => Interrupted(s)' \/ s \in failures',
             Renamed(s) => Renamed(s)', Fed(s)' => Fed(s) \/ s \in logs \/ Opens(s),
             Opens(s) => Opens(s)'
      PROVE  Now
  BY <1>0, <1>1
<1>2. ASSUME s \notin logs', ~Fed(s)' PROVE Now
  BY <1>2
<1>3. s \in failures' => Now
  OBVIOUS
<1>4. ASSUME Still PROVE /\ (Interrupted(s) <=> Interrupted(s)') /\ (Renamed(s) => Renamed(s)')
                         /\ Rest' = Rest
  BY <1>4, StillIs DEF Still, Renamed
<1> HIDE DEF Now
<1>5. CASE UNCHANGED vars \/ Reads \/ Shutdown
  <2>0. shutdown' = shutdown \/ shutdown' = TRUE
    BY <1>5, VarsSame, ReadUnread, ShutdownIs DEF Reads
  <2>1. Still /\ UNCHANGED <<logs, failures, segments, state, ops>>
    BY <1>5, VarsSame, ReadUnread, ShutdownIs DEF Still, Reads
  <2>2. (Fed(s)' => Fed(s)) /\ (Opens(s) => Opens(s)')
    BY <1>4, <2>0, <2>1 DEF Fed, Opens
  <2> QED
    BY <1>1, <1>4, <2>1, <2>2
\* The sessions' side: what is fed is open or will be.
<1>6. ASSUME Still, UNCHANGED <<logs, failures, segments>>,
             HasOpen(ops, s) => HasOpen(ops', s),
             (state'[s] = "running" /\ ~shutdown') \/ HasOutput(ops', s) =>
                 Fed(s) \/ Opens(s)'
      PROVE  Now
  <2>1. Opens(s) => Opens(s)'
    BY <1>4, <1>6 DEF Opens
  <2>2. Fed(s)' => Fed(s) \/ Opens(s)'
    BY <1>4, <1>6 DEF Fed
  <2> QED
    BY <1>0, <1>4, <1>6, <2>1, <2>2 DEF Now
<1>7. ASSUME NEW c \in Sessions, Arm(c) PROVE Now
  <2>1. /\ state[c] = "new" /\ state'[c] = "running" /\ shutdown' = shutdown
        /\ \A d \in Others(c) : state'[d] = state[d]
        /\ Joins(1) /\ ops'[Len(ops) + 1] = Op("Open", c, 0)
        /\ UNCHANGED <<batch, logs, failures, segments>>
    BY <1>7, ArmIs
  <2>2. /\ \A j \in DOMAIN ops : j \in DOMAIN ops' /\ ops'[j] = ops[j]
        /\ \A j \in DOMAIN ops' : (j \in DOMAIN ops /\ ops'[j] = ops[j]) \/ ops'[j] = Op("Open", c, 0)
        /\ Len(ops) + 1 \in DOMAIN ops'
    <3>1. PICK k \in {1, 2} : k = 1
      OBVIOUS
    <3>2. /\ \A j \in DOMAIN ops : j \in DOMAIN ops' /\ ops'[j] = ops[j]
          /\ DOMAIN ops' = 1..Len(ops) + 1 /\ Len(ops) \in Nat
      BY <2>1, <3>1, JoinedIs
    <3> QED
      BY <2>1, <3>2, JoinOneOf
  <2>3. HasOpen(ops, s) => HasOpen(ops', s)
    BY <2>2 DEF HasOpen
  <2>4. c = s => HasOpen(ops', s)
    BY <2>1, <2>2 DEF HasOpen, Op
  <2>5. HasOutput(ops', s) => HasOutput(ops, s)
    BY <2>2 DEF HasOutput, Op
  <2> QED
    BY <1>6, <2>1, <2>3, <2>4, <2>5 DEF Joins, Still, Fed, Opens, Others
<1>8. ASSUME NEW c \in Sessions, DropChunk(c) PROVE Now
  <2>1. UNCHANGED <<batch, writer, logs, failures, segments, state, shutdown, ops>>
    BY <1>8, DropChunkIs
  <2>2. Still
    BY <2>1 DEF Still
  <2> QED
    BY <1>6, <2>1, <2>2 DEF Fed
<1>9. ASSUME NEW c \in Sessions, NEW o, Joins(MarkerLen(c) + 1), ops'[Len(ops) + MarkerLen(c) + 1] = o,
             o.session = c, gaps[c] > 0 => ops'[Len(ops) + 1] = Op("Gap", c, gaps[c])
      PROVE  /\ HasOpen(ops, s) => HasOpen(ops', s)
             /\ HasOutput(ops', s) => HasOutput(ops, s) \/ c = s
  <2>1. \A j \in DOMAIN ops' : (j \in DOMAIN ops /\ ops'[j] = ops[j]) \/ ops'[j].session = c
    BY <1>9, JoinMarkedOf DEF Op
  <2>2. \A j \in DOMAIN ops : j \in DOMAIN ops' /\ ops'[j] = ops[j]
    <3>1. PICK k \in {1, 2} : k = MarkerLen(c) + 1
      BY DEF MarkerLen
    <3> QED
      BY <1>9, <3>1, JoinedIs
  <2> QED
    BY <2>1, <2>2 DEF HasOpen, HasOutput
<1>10. ASSUME NEW c \in Sessions, KeepChunk(c) PROVE Now
  <2>1. /\ state[c] = "running" /\ ~shutdown
        /\ Joins(MarkerLen(c) + 1)
        /\ ops'[Len(ops) + MarkerLen(c) + 1] = Op("Data", c, printed[c] + 1)
        /\ gaps[c] > 0 => ops'[Len(ops) + 1] = Op("Gap", c, gaps[c])
        /\ UNCHANGED <<batch, logs, failures, segments, state, shutdown>>
    BY <1>10, KeepChunkIs
  <2>2. Op("Data", c, printed[c] + 1).session = c
    BY DEF Op
  <2>3. /\ HasOpen(ops, s) => HasOpen(ops', s)
        /\ HasOutput(ops', s) => HasOutput(ops, s) \/ c = s
    BY <1>9, <2>1, <2>2
  <2>4. Still
    BY <2>1 DEF Joins, Still
  <2>5. (state'[s] = "running" /\ ~shutdown') \/ HasOutput(ops', s) => Fed(s)
    BY <2>1, <2>3 DEF Fed
  <2> QED
    BY <1>6, <2>1, <2>3, <2>4, <2>5
<1>11. ASSUME NEW c \in Sessions, NEW now, Ends(c, now) PROVE Now
  <2>1. /\ Close(c, now) /\ state[c] = "running" /\ state'[c] # "running"
        /\ \A d \in Others(c) : state'[d] = state[d]
        /\ UNCHANGED <<batch, logs, failures, segments, shutdown>>
    BY <1>11, EndsIs, ClosedNow, CloseIs
  <2>2. state'[s] = "running" => state[s] = "running"
    BY <2>1 DEF Others
  <2>3. CASE shutdown
    <3>1. Still /\ ops' = ops
      BY <2>1, <2>3, CloseIs DEF Still
    <3> QED
      BY <1>6, <2>1, <2>2, <3>1 DEF Fed
  <2>4. CASE ~shutdown
    <3>1. /\ Joins(MarkerLen(c) + 1)
          /\ ops'[Len(ops) + MarkerLen(c) + 1] = Op("Close", c, 0)
          /\ gaps[c] > 0 => ops'[Len(ops) + 1] = Op("Gap", c, gaps[c])
      BY <2>1, <2>4, CloseIs
    <3>2. Op("Close", c, 0).session = c
      BY DEF Op
    <3>3. /\ HasOpen(ops, s) => HasOpen(ops', s)
          /\ HasOutput(ops', s) => HasOutput(ops, s) \/ c = s
      BY <1>9, <3>1, <3>2
    <3>4. Still
      BY <2>1, <3>1 DEF Joins, Still
    <3>5. (state'[s] = "running" /\ ~shutdown') \/ HasOutput(ops', s) => Fed(s)
      BY <2>1, <2>2, <2>4, <3>3 DEF Fed
    <3> QED
      BY <1>6, <2>1, <3>3, <3>4, <3>5
  <2> QED
    BY <2>3, <2>4
<1>12. ASSUME NEW c \in Sessions, Discard(c) PROVE Now
  <2>1. /\ state'[c] = "ended"
        /\ \A d \in Others(c) : state'[d] = state[d]
        /\ UNCHANGED <<batch, logs, failures, segments, shutdown>>
    BY <1>12, DiscardIs
  <2>2. state'[s] = "running" => state[s] = "running"
    BY <2>1 DEF Others
  <2>3. Still /\ (HasOpen(ops, s) => HasOpen(ops', s)) /\ (HasOutput(ops', s) => HasOutput(ops, s))
    <3>1. CASE shutdown
      BY <1>12, <2>1, <3>1, DiscardIs DEF Still
    <3>2. CASE ~shutdown
      <4>1. Joins(1) /\ ops'[Len(ops) + 1] = Op("Discard", c, 0)
        BY <1>12, <3>2, DiscardIs
      <4>2. PICK k \in {1, 2} : k = 1
        OBVIOUS
      <4>3. \A j \in DOMAIN ops : j \in DOMAIN ops' /\ ops'[j] = ops[j]
        BY <4>1, <4>2, JoinedIs
      <4>4. \A j \in DOMAIN ops' : (j \in DOMAIN ops /\ ops'[j] = ops[j]) \/ ops'[j].op = "Discard"
        BY <4>1, JoinOneOf DEF Op
      <4>5. Still
        BY <2>1, <4>1 DEF Joins, Still
      <4> QED
        BY <4>3, <4>4, <4>5 DEF HasOpen, HasOutput
    <3> QED
      BY <3>1, <3>2
  <2> QED
    BY <1>6, <2>1, <2>2, <2>3 DEF Fed
\* The writer's side.
<1>13. CASE TakeBatch
  <2>1. /\ writer = "looking" /\ writer' = "applying" /\ batch' = ops /\ ops' = <<>>
        /\ UNCHANGED <<logs, failures, segments, state, shutdown>>
    BY <1>13, TakeBatchIs
  <2>2. Rest' = ops /\ ~Interrupted(s) /\ ~Renamed(s)
    BY <2>1 DEF Rest, Written, Interrupted, Renamed
  <2>3. ~HasOutput(ops', s) /\ Rest = <<>>
    BY <2>1 DEF HasOutput, Rest, Written, WriterInv
  <2>4. ~HasOpen(Rest, s)
    BY <2>3 DEF HasOpen
  <2>5. (Fed(s)' => Fed(s)) /\ (Opens(s) => Opens(s)')
    BY <2>1, <2>2, <2>3, <2>4 DEF Fed, Opens
  <2> QED
    BY <1>1, <2>1, <2>2, <2>5
<1>14. CASE Wait \/ SyncIdle \/ Stopped \/ BatchDone
  <2>1. /\ writer \in {"looking", "waiting", "applying"}
        /\ writer' \in {"looking", "waiting", "stopped"}
        /\ logs' = logs \/ (logs' = {} /\ ops = <<>> /\ shutdown /\ writer # "applying")
        /\ writer = "applying" => batch = <<>>
        /\ UNCHANGED <<batch, ops, failures, segments, state, shutdown>>
    BY <1>14 DEF Wait, SyncIdle, Stopped, BatchDone, programs, queueVars, disk
  <2>2. Rest' = Rest /\ ~Interrupted(s) /\ ~Renamed(s) /\ Rest = <<>>
    BY <2>1 DEF Rest, Written, Interrupted, Renamed, WriterInv
  <2>3. CASE logs' = logs
    <3>1. (Fed(s)' => Fed(s)) /\ (Opens(s) => Opens(s)')
      BY <2>1, <2>2 DEF Fed, Opens
    <3> QED
      BY <1>1, <2>1, <2>2, <2>3, <3>1
  <2>4. CASE logs' # logs
    <3>1. logs' = {} /\ Rest' = <<>> /\ ops' = <<>> /\ shutdown'
      BY <2>1, <2>2, <2>4
    <3>2. s \notin logs' /\ ~HasOutput(Rest', s) /\ ~HasOutput(ops', s)
      BY <3>1 DEF HasOutput
    <3> QED
      BY <1>2, <3>1, <3>2 DEF Fed
  <2> QED
    BY <2>3, <2>4
\* The head of the batch is of another session.
<1>15. ASSUME batch # <<>>, batch' = batch, Rest = batch \/ Rest = Tail(batch),
              Rest' = Rest \/ Rest' = Tail(batch),
              UNCHANGED <<ops, state, shutdown>>, Current.session # s,
              s \in logs' <=> s \in logs, s \in failures => s \in failures',
              segments[s].current => segments'[s].current
       PROVE  Now
  <2>1. ~Interrupted(s) /\ ~Renamed(s)
    BY <1>15 DEF Interrupted, Renamed
  <2>2. (HasOutput(Rest', s) => HasOutput(Rest, s)) /\ (HasOpen(Rest, s) => HasOpen(Rest', s))
    BY <1>15, TailHas
  <2>3. (Fed(s)' => Fed(s)) /\ (Opens(s) => Opens(s)')
    BY <1>15, <2>2 DEF Fed, Opens
  <2> QED
    BY <1>1, <1>15, <2>1, <2>3
<1>16. ASSUME Leaves PROVE Rest = batch /\ Rest' = Tail(batch) /\ batch' = batch /\ batch # <<>>
  BY <1>16, LeavesIs DEF Leaves
\* It is of this one, and was the last to append anything.
<1>17. ASSUME batch # <<>>, Current.op \in {"Close", "Discard"}, Current.session = s,
              Rest' = batch \/ Rest' = Tail(batch), UNCHANGED <<ops, state>>
       PROVE  ~Fed(s)'
  BY <1>17, LastOf DEF Fed
<1>18. CASE ApplyOpen
  <2>1. /\ Leaves /\ writer' = "applied"
        /\ UNCHANGED <<ops, state, shutdown>>
        /\ \A d \in Others(Current.session) :
               /\ d \in logs' <=> d \in logs
               /\ d \in failures <=> d \in failures'
               /\ segments'[d] = segments[d]
        /\ \/ Current.session \in failures'
           \/ Current.session \in logs' /\ segments'[Current.session].current
    BY <1>18, ApplyOpenIs DEF Leaves, Others, Begun
  <2>2. CASE Current.session # s
    BY <1>15, <1>16, <2>1, <2>2 DEF Others
  <2>3. CASE Current.session = s
    BY <2>1, <2>3 DEF Now
  <2> QED
    BY <2>2, <2>3
<1>19. CASE ApplyDiscard
  <2>1. /\ Leaves /\ writer = "applying" /\ writer' = "applied" /\ Current.op = "Discard"
        /\ UNCHANGED <<ops, state, shutdown, logs>>
        /\ \A d \in Others(Current.session) :
               /\ d \in failures <=> d \in failures'
               /\ segments'[d] = segments[d]
        /\ Current.session \in logs => segments' = segments /\ failures' = failures
    BY <1>19, ApplyDiscardIs DEF Leaves, Others
  <2>2. CASE Current.session # s
    BY <1>15, <1>16, <2>1, <2>2 DEF Others
  <2>3. CASE Current.session = s
    <3>1. ~Fed(s)'
      BY <1>16, <1>17, <2>1, <2>3
    <3>2. ~Interrupted(s) /\ ~Renamed(s)
      BY <2>1 DEF Interrupted, Renamed
    <3>3. s \in logs' /\ s \notin failures' => segments'[s].current
      BY <1>0, <2>1, <2>3, <3>2
    <3> QED
      BY <3>1, <3>3 DEF Now
  <2> QED
    BY <2>2, <2>3
<1>20. CASE AppendSkipped \/ AppendFails
  <2>1. /\ Leaves
        /\ UNCHANGED <<ops, state, shutdown, segments>>
        /\ \A d \in Others(Current.session) :
               /\ d \in logs' <=> d \in logs
               /\ d \in failures <=> d \in failures'
        /\ \/ Current.session \in failures'
           \/ Current.op = "Close" /\ Current.session \notin logs'
    BY <1>20, AppendSkippedIs, AppendFailsIs DEF Leaves, Others, Closes, Ready
  <2>2. CASE Current.session # s
    BY <1>15, <1>16, <2>1, <2>2 DEF Others
  <2>3. CASE Current.session = s
    <3>1. CASE s \in failures'
      BY <1>3, <3>1
    <3>2. CASE Current.op = "Close" /\ s \notin logs'
      BY <1>2, <1>16, <1>17, <2>1, <2>3, <3>2
    <3> QED
      BY <2>1, <2>3, <3>1, <3>2
  <2> QED
    BY <2>2, <2>3
<1>21. ASSUME LogsAfter PROVE \A d \in Others(Current.session) : d \in logs' <=> d \in logs
  BY <1>21 DEF LogsAfter, Closes, Others
<1>22. CASE WriteItem
  <2>1. /\ Leaves /\ Ready /\ LogsAfter /\ writer \in {"applying", "rotated"}
        /\ UNCHANGED <<ops, state, shutdown, segments, failures>>
    BY <1>22, WriteItemIs DEF Leaves, Ready
  <2>2. CASE Current.session # s
    BY <1>15, <1>16, <1>21, <2>1, <2>2 DEF Others
  <2>3. CASE Current.session = s
    <3>1. CASE Current.op = "Close"
      <4>1. s \notin logs'
        BY <2>1, <2>3, <3>1 DEF LogsAfter, Closes
      <4> QED
        BY <1>2, <1>16, <1>17, <2>1, <2>3, <3>1, <4>1
    <3>2. CASE Current.op # "Close"
      <4>1. logs' = logs
        BY <2>1, <3>2 DEF LogsAfter
      <4>2. /\ ~Interrupted(s) /\ ~Renamed(s) /\ Rest = batch /\ 1 \in DOMAIN batch /\ Current = batch[1]
            /\ Current.op \in {"Data", "Gap"} /\ Current.op # "Open" /\ s \notin failures
        BY <1>16, <2>1, <2>3, <3>2, TailOf DEF Interrupted, Renamed, Ready
      <4>3. HasOutput(Rest, s)
        BY <2>3, <4>2 DEF HasOutput
      <4>4. ~Opens(s)
        BY <1>16, <2>3, <4>2, HeadOrder DEF Opens
      <4>5. s \in logs /\ segments[s].current
        BY <1>0, <4>2, <4>3, <4>4 DEF Fed
      <4> QED
        BY <2>1, <4>1, <4>5 DEF Now
    <3> QED
      BY <3>1, <3>2
  <2> QED
    BY <2>2, <2>3
<1>23. CASE Rename
  <2>1. /\ writer = "applying" /\ writer' = "renamed" /\ Ready /\ LogsAfter
        /\ batch # <<>> /\ batch' = batch /\ Current' = Current
        /\ \A d \in Others(Current.session) : segments'[d] = segments[d]
        /\ UNCHANGED <<ops, state, shutdown, failures>>
    BY <1>23, RenameIs DEF Ready, Current
  <2>2. Rest = batch /\ Rest' = batch
    BY <2>1 DEF Rest, Written
  <2>3. CASE Current.session # s
    BY <1>15, <1>21, <2>1, <2>2, <2>3 DEF Others
  <2>4. CASE Current.session = s
    <3>1. CASE Current.op = "Close"
      <4>1. s \notin logs'
        BY <2>1, <2>4, <3>1 DEF LogsAfter, Closes
      <4> QED
        BY <1>2, <1>17, <2>1, <2>2, <2>4, <3>1, <4>1
    <3>2. CASE Current.op # "Close"
      <4>1. logs' = logs /\ s \in logs
        BY <2>1, <2>4, <3>2, ReadyIsOpen DEF LogsAfter
      <4>2. Renamed(s)'
        BY <2>1, <2>4 DEF Renamed
      <4> QED
        BY <4>1, <4>2 DEF Now
    <3> QED
      BY <3>1, <3>2
  <2> QED
    BY <2>3, <2>4
<1>24. CASE NewSegment
  <2>1. /\ writer = "renamed" /\ writer' = "rotated" /\ batch # <<>> /\ batch' = batch
        /\ segments'[Current.session].current
        /\ \A d \in Others(Current.session) : segments'[d] = segments[d]
        /\ UNCHANGED <<ops, state, shutdown, failures, logs>>
    BY <1>24, NewSegmentIs DEF Ready
  <2>2. Rest = batch /\ Rest' = batch
    BY <2>1 DEF Rest, Written
  <2>3. CASE Current.session # s
    BY <1>15, <2>1, <2>2, <2>3 DEF Others
  <2>4. CASE Current.session = s
    <3>1. (Fed(s)' => Fed(s)) /\ (Opens(s) => Opens(s)') /\ ~Interrupted(s)
      BY <2>1, <2>2 DEF Fed, Opens, Interrupted
    <3> QED
      BY <1>0, <2>1, <2>4, <3>1 DEF Now
  <2> QED
    BY <2>3, <2>4
<1>25. CASE Enforce
  <2>1. /\ batch' = batch /\ writer = "enforcing" /\ writer' = "applied"
        /\ \A d \in logs : segments'[d].current = segments[d].current
        /\ UNCHANGED <<ops, state, shutdown, failures, logs>>
    BY <1>25, EnforceIs
  <2>2. Rest' = Rest /\ ~Interrupted(s) /\ ~Renamed(s)
    BY <2>1 DEF Rest, Written, Interrupted, Renamed
  <2>3. (Fed(s)' => Fed(s)) /\ (Opens(s) => Opens(s)')
    BY <2>1, <2>2 DEF Fed, Opens
  <2> QED
    BY <1>0, <2>1, <2>2, <2>3 DEF Now
<1>26. CASE Applied
  <2>1. /\ batch' = Tail(batch) /\ writer = "applied" /\ writer' = "applying"
        /\ UNCHANGED <<ops, state, shutdown, failures, logs, segments>>
    BY <1>26, AppliedIs
  <2>2. Rest' = Rest /\ ~Interrupted(s) /\ ~Renamed(s)
    BY <2>1 DEF Rest, Written, Interrupted, Renamed
  <2>3. (Fed(s)' => Fed(s)) /\ (Opens(s) => Opens(s)')
    BY <2>1, <2>2 DEF Fed, Opens
  <2> QED
    BY <1>1, <2>1, <2>2, <2>3
<1>27. CASE Panic \/ PanicInMarker
  <2>1. /\ writer \in {"applying", "renamed", "rotated", "enforcing"} /\ writer' = "unwinding"
        /\ batch # <<>> /\ batch' = batch /\ Current' = Current
        /\ \A d \in Others(Current.session) : d \in logs' <=> d \in logs
        /\ logs' \subseteq logs
        /\ UNCHANGED <<ops, state, shutdown, failures, segments>>
    BY <1>27, PanicIs, PanicInMarkerIs DEF Current, Others
  <2>2. Rest' = Tail(batch) /\ (Rest = batch \/ Rest = Tail(batch))
    BY <2>1 DEF Rest, Written
  <2>3. CASE Current.session # s
    BY <1>15, <2>1, <2>2, <2>3 DEF Others
  <2>4. CASE Current.session = s
    <3>1. Interrupted(s)'
      BY <2>1, <2>4 DEF Interrupted
    <3> QED
      BY <3>1 DEF Now
  <2> QED
    BY <2>3, <2>4
<1>28. CASE BatchFails
  <2>1. /\ batch' = batch /\ writer = "unwinding" /\ writer' = "failed" /\ batch # <<>>
        /\ failures \subseteq failures' /\ \A i \in DOMAIN batch : batch[i].session \in failures'
        /\ UNCHANGED <<ops, state, shutdown, logs, segments>>
    BY <1>28, BatchFailsIs DEF WriterInv
  <2>2. Rest' = Rest /\ ~Renamed(s)
    BY <2>1 DEF Rest, Written, Renamed
  <2>3. Current.session \in failures'
    BY <2>1, TailOf
  <2>4. Interrupted(s) => s \in failures'
    BY <2>3 DEF Interrupted
  <2>5. (Fed(s)' => Fed(s)) /\ (Opens(s) => Opens(s)')
    BY <2>1, <2>2 DEF Fed, Opens
  <2> QED
    BY <1>1, <2>1, <2>2, <2>4, <2>5
<1>29. CASE BatchReleased
  <2>1. /\ batch' = <<>> /\ writer = "failed" /\ writer' \in {"looking", "given up"} /\ batch # <<>>
        /\ UNCHANGED <<ops, state, shutdown, failures, logs, segments>>
    BY <1>29, BatchReleasedIs
  <2>2. CASE s \in failures
    BY <1>3, <2>1, <2>2
  <2>3. CASE s \notin failures
    <3>1. ~Interrupted(s) /\ ~Renamed(s) /\ Rest = Tail(batch) /\ Rest' = <<>>
      BY <2>1 DEF Rest, Written, Interrupted, Renamed
    <3>2. ~HasOpen(Rest, s)
      BY <2>1, <2>3, <3>1, TailOf DEF HasOpen, WriterInv
    <3>3. ~HasOutput(Rest', s)
      BY <3>1 DEF HasOutput
    <3>4. (Fed(s)' => Fed(s)) /\ (Opens(s) => Opens(s)')
      BY <2>1, <3>2, <3>3 DEF Fed, Opens
    <3> QED
      BY <1>1, <2>1, <3>1, <3>4
  <2> QED
    BY <2>2, <2>3
<1>30. CASE HostDies
  <2>1. /\ batch' = <<>> /\ ops' = <<>> /\ writer' = "looking" /\ logs' = {}
        /\ state'[s] # "running"
    BY <1>30, HostDiesIs
  <2>2. Rest' = <<>>
    BY <2>1 DEF Rest, Written
  <2>3. ~HasOutput(Rest', s) /\ ~HasOutput(ops', s) /\ s \notin logs'
    BY <2>1, <2>2 DEF HasOutput
  <2> QED
    BY <1>2, <2>1, <2>3 DEF Fed
<1> QED
  BY Steps, <1>5, <1>7, <1>8, <1>10, <1>11, <1>12, <1>13, <1>14, <1>18, <1>19, <1>20, <1>22, <1>23,
     <1>24, <1>25, <1>26, <1>27, <1>28, <1>29, <1>30

(* ... and this of every session.                                          *)
LEMMA LogsStep ==
    ASSUME Typed, WriterInv, OrderInv, SegmentsInv, LogsInv, [Next]_vars
    PROVE  LogsInv'
<1>1. \A s \in Sessions : LogsOf(s)'
  BY LogsOfStep
<1>2. SUFFICES dirty' \subseteq logs'
  BY <1>1 DEF LogsInv
<1>3. dirty \subseteq logs
  BY DEF LogsInv
<1>4. CASE UNCHANGED vars \/ Reads \/ Shutdown
  BY <1>3, <1>4, VarsSame, ReadUnread, ShutdownIs DEF Reads
<1>5. ASSUME NEW s \in Sessions, Arm(s) \/ DropChunk(s) \/ KeepChunk(s) \/ Discard(s)
      PROVE  dirty' \subseteq logs'
  BY <1>3, <1>5, ArmIs, DropChunkIs, KeepChunkIs, DiscardIs
<1>6. ASSUME NEW s \in Sessions, NEW now, Ends(s, now) PROVE dirty' \subseteq logs'
  BY <1>3, <1>6, EndsIs, CloseIs
<1>7. CASE TakeBatch \/ Wait \/ SyncIdle \/ Stopped \/ BatchDone
  BY <1>3, <1>7, TakeBatchIs, IdleIs
<1>8. CASE ApplyOpen \/ ApplyDiscard
  BY <1>3, <1>8, ApplyOpenIs, ApplyDiscardIs
<1>9. CASE AppendSkipped \/ AppendFails
  BY <1>3, <1>9, AppendSkippedIs, AppendFailsIs DEF Closes
<1>10. ASSUME Ready, writer \in {"applying", "rotated"}, Current.op # "Close"
       PROVE  Current.session \in logs
  <2> DEFINE s == Current.session
  <2>1. /\ batch # <<>> /\ Current.op \in {"Data", "Gap"} /\ s \notin failures /\ s \in Sessions
        /\ Rest = batch /\ ~Interrupted(s)
    BY <1>10, HeadIs DEF Ready, Rest, Written, Interrupted
  <2>2. HasOutput(Rest, s)
    BY <2>1, TailOf DEF HasOutput
  <2>3. ~HasOpen(Rest, s) /\ ~HasOpen(ops, s)
    BY <2>1, HeadOrder
  <2> QED
    BY <2>1, <2>2, <2>3 DEF LogsInv, LogsOf
<1>11. ASSUME LogsAfter, Ready, writer \in {"applying", "rotated"} PROVE dirty' \subseteq logs'
  <2>1. CASE Current.op = "Close"
    BY <1>3, <1>11, <2>1 DEF LogsAfter, Closes
  <2>2. CASE Current.op # "Close"
    BY <1>3, <1>10, <1>11, <2>2 DEF LogsAfter
  <2> QED
    BY <2>1, <2>2
<1>12. CASE WriteItem \/ Rename
  BY <1>11, <1>12, WriteItemIs, RenameIs
<1>13. CASE NewSegment \/ Enforce \/ Applied \/ BatchFails \/ BatchReleased
  BY <1>3, <1>13, NewSegmentIs, EnforceIs, AppliedIs, BatchFailsIs, BatchReleasedIs
<1>14. CASE Panic
  BY <1>14, PanicIs
<1>15. CASE PanicInMarker
  BY <1>3, <1>15, PanicInMarkerIs
<1>16. CASE HostDies
  BY <1>16, HostDiesIs
<1> QED
  BY Steps, <1>4, <1>5, <1>6, <1>7, <1>8, <1>9, <1>12, <1>13, <1>14, <1>15, <1>16

-----------------------------------------------------------------------------
(* A read, while others take steps.                                        *)

\* What a step of another than the reader leaves of a read.
ReadHeld ==
    /\ read'.at = read.at /\ read'.session = read.session /\ read'.target = read.target
    /\ read'.owed = read.owed /\ read'.settled = read.settled /\ read'.live = read.live
    /\ read'.unrecorded = read.unrecorded /\ read'.error = read.error
    /\ read'.previous = read.previous /\ read'.current = read.current
    /\ read.evicted => read'.evicted

(* A read stays as it is when others take steps, but that a sweep is       *)
(* noticed.                                                                *)
LEMMA ReadStays ==
    ASSUME Typed, read.at # "none", [Next]_vars, ~Reads, ~HostDies
    PROVE  ReadHeld
<1>1. CASE read' = read
  BY <1>1 DEF ReadHeld
<1>2. CASE Enforce
  <2>1. read' = read \/ read' = [read EXCEPT !.evicted = TRUE]
    BY <1>2, EnforceIs
  <2>2. read \in ReadType
    BY ReadTyped
  <2>3. read' = [read EXCEPT !.evicted = TRUE] => ReadHeld
    BY <2>2 DEF ReadType, ReadHeld
  <2> QED
    BY <1>1, <2>1, <2>3
<1>3. CASE UNCHANGED vars \/ Shutdown \/ TakeBatch \/ Wait \/ SyncIdle \/ Stopped \/ BatchDone
  BY <1>1, <1>3, VarsSame, ShutdownIs, TakeBatchIs, IdleIs
<1>4. CASE ApplyOpen \/ ApplyDiscard \/ AppendSkipped \/ WriteItem \/ Rename \/ NewSegment
  BY <1>1, <1>4 DEF ApplyOpen, ApplyDiscard, AppendSkipped, WriteItem, Rename, NewSegment
<1>5. CASE AppendFails \/ Applied \/ Panic \/ PanicInMarker \/ BatchFails \/ BatchReleased
  BY <1>1, <1>5 DEF AppendFails, Applied, Panic, PanicInMarker, BatchFails, BatchReleased
<1>6. ASSUME NEW s \in Sessions, Arm(s) \/ DropChunk(s) \/ KeepChunk(s) \/ Discard(s)
      PROVE  read' = read
  BY <1>6 DEF Arm, DropChunk, KeepChunk, Discard
<1>7. ASSUME NEW s \in Sessions, NEW now, Ends(s, now) PROVE read' = read
  BY <1>7, EndsIs, CloseIs
<1> QED
  BY Steps, <1>1, <1>2, <1>3, <1>4, <1>5, <1>6, <1>7

(* No one else asks for a read.                                            *)
LEMMA NotAsked ==
    ASSUME Typed, [Next]_vars, read.at = "none", ~Reads, ~HostDies
    PROVE  read'.at = "none"
<1>1. CASE Enforce
  BY <1>1, EnforceIs
<1>2. CASE UNCHANGED vars \/ Shutdown \/ TakeBatch \/ Wait \/ SyncIdle \/ Stopped \/ BatchDone
  BY <1>2, VarsSame, ShutdownIs, TakeBatchIs, IdleIs
<1>3. CASE ApplyOpen \/ ApplyDiscard \/ AppendSkipped \/ WriteItem \/ Rename \/ NewSegment
  BY <1>3 DEF ApplyOpen, ApplyDiscard, AppendSkipped, WriteItem, Rename, NewSegment
<1>4. CASE AppendFails \/ Applied \/ Panic \/ PanicInMarker \/ BatchFails \/ BatchReleased
  BY <1>4 DEF AppendFails, Applied, Panic, PanicInMarker, BatchFails, BatchReleased
<1>5. ASSUME NEW s \in Sessions, Arm(s) \/ DropChunk(s) \/ KeepChunk(s) \/ Discard(s)
      PROVE  read' = read
  BY <1>5 DEF Arm, DropChunk, KeepChunk, Discard
<1>6. ASSUME NEW s \in Sessions, NEW now, Ends(s, now) PROVE read' = read
  BY <1>6, EndsIs, CloseIs
<1> QED
  BY Steps, <1>1, <1>2, <1>3, <1>4, <1>5, <1>6

\* What a step of the reader leaves of a read.
LEMMA ReadGoes ==
    ASSUME Typed, \A s \in Sessions : marking[s] \in Nat,
           \A s \in Sessions : segments[s].previous => segments[s].newest > 1,
           Read, read'.at # "none"
    PROVE  /\ read.at # "none" /\ read' \in ReadType
           /\ read'.session = read.session /\ read'.target = read.target
           /\ read'.owed = read.owed /\ read'.evicted = read.evicted
           /\ IF read.at = "settling" THEN read'.settled => done >= read.target
              ELSE read'.settled = read.settled
<1>1. CASE Settle \/ SettleTimesOut
  <2>1. PICK b \in BOOLEAN : Settled(b)
    BY <1>1 DEF Settle, SettleTimesOut
  <2> QED
    BY <2>1, SettledIs DEF GoesOn
<1>2. CASE LookAtQueue
  BY <1>2, LookAtQueueIs DEF GoesOn
<1>3. CASE LookForFailure
  BY <1>3, LookForFailureIs DEF GoesOn
<1>4. CASE OpenPrevious
  BY <1>4, OpenPreviousIs DEF GoesOn
<1>5. CASE OpenCurrent
  BY <1>5, OpenCurrentIs DEF GoesOn
<1>6. CASE ReadAgain
  BY <1>6, ReadAgainIs DEF GoesOn
<1>7. CASE ReadFound
  BY <1>7, ReadFoundIs DEF GoesOn
<1>8. CASE ReadReturns
  BY <1>8 DEF ReadReturns, NoRead
<1> QED
  BY <1>1, <1>2, <1>3, <1>4, <1>5, <1>6, <1>7, <1>8 DEF Read

(* What was queued before the read was asked is among the first `target`   *)
(* operations: all others are later.                                       *)
InTime ==
    /\ \A i \in DOMAIN batch :
           batch[i] \in Later \/ queued - Len(ops) - Len(batch) + i <= read.target
    /\ \A i \in DOMAIN ops : ops[i] \in Later \/ queued - Len(ops) + i <= read.target

(* What joins the queue after a read was asked is later than the read.     *)
LEMMA InTimeJoin ==
    ASSUME Typed, InTime, batch' = batch, Later' = Later, read'.target = read.target,
           NEW k \in {1, 2}, Joins(k),
           \A j \in DOMAIN ops' : (j \in DOMAIN ops /\ ops'[j] = ops[j]) \/ ops'[j] \in Later
    PROVE  InTime'
<1>1. /\ DOMAIN ops' = 1..Len(ops) + k /\ Len(ops) \in Nat /\ Len(ops') = Len(ops) + k
      /\ queued' = queued + k /\ queued \in Nat
  BY JoinedIs DEF Joins, Typed
<1>2. queued' - Len(ops') = queued - Len(ops)
  BY <1>1
<1> QED
  BY <1>2 DEF InTime

(* `done` only grows, and only to what is no longer queued.                *)
LEMMA DoneGrows ==
    ASSUME Typed, WriterInv, [Next]_vars, ~HostDies
    PROVE  done' = done \/ (done' = queued - Len(ops) /\ done <= queued - Len(ops))
<1>1. done <= queued - Len(ops)
  <2>1. done \in Nat /\ queued \in Nat /\ Len(ops) \in Nat /\ Len(batch) \in Nat
    BY OpsAreTyped DEF Typed
  <2>2. done + Len(batch) + Len(ops) <= queued
    BY DEF WriterInv
  <2> QED
    BY <2>1, <2>2
<1>3. CASE UNCHANGED vars \/ Shutdown \/ TakeBatch \/ Wait \/ SyncIdle \/ Stopped \/ BatchDone
  BY <1>1, <1>3, VarsSame, ShutdownIs, TakeBatchIs, IdleIs
<1>4. CASE ApplyOpen \/ ApplyDiscard \/ AppendSkipped \/ WriteItem \/ Rename \/ NewSegment
  BY <1>4 DEF ApplyOpen, ApplyDiscard, AppendSkipped, WriteItem, Rename, NewSegment
<1>5. CASE AppendFails \/ Applied \/ Panic \/ PanicInMarker \/ BatchFails \/ Enforce
  BY <1>5 DEF AppendFails, Applied, Panic, PanicInMarker, BatchFails, Enforce
<1>6. ASSUME NEW s \in Sessions, Arm(s) \/ DropChunk(s) \/ KeepChunk(s) \/ Discard(s)
      PROVE  done' = done
  BY <1>6 DEF Arm, DropChunk, KeepChunk, Discard
<1>7. ASSUME NEW s \in Sessions, NEW now, Ends(s, now) PROVE done' = done
  BY <1>7, EndsIs, CloseIs
<1>8. CASE BatchReleased
  BY <1>1, <1>8, BatchReleasedIs
<1>9. CASE Reads
  BY <1>9, ReadUnread DEF Reads
<1> QED
  BY Steps, <1>3, <1>4, <1>5, <1>6, <1>7, <1>8, <1>9

(* What a session has printed only grows.                                  *)
LEMMA SessionsGrow ==
    ASSUME Typed, [Next]_vars, NEW s \in Sessions
    PROVE  /\ printed[s] \in Nat /\ printed'[s] \in Nat /\ printed'[s] >= printed[s]
           /\ state[s] # "new" => state'[s] # "new"
<1>0. printed[s] \in Nat
  BY DEF Typed
<1>1. CASE UNCHANGED <<state, printed>>
  BY <1>0, <1>1
<1>2. ASSUME NEW c \in Sessions, Arm(c) \/ Discard(c)
      PROVE  printed' = printed /\ (state[s] # "new" => state'[s] # "new")
  BY <1>2, ArmIs, DiscardIs DEF Others
<1>3. ASSUME NEW c \in Sessions, NEW now, Ends(c, now)
      PROVE  printed' = printed /\ (state[s] # "new" => state'[s] # "new")
  BY <1>3, ClosedNow DEF Others
<1>4. ASSUME NEW c \in Sessions, DropChunk(c) \/ KeepChunk(c)
      PROVE  /\ printed'[c] = printed[c] + 1 /\ \A d \in Others(c) : printed'[d] = printed[d]
             /\ state' = state
  BY <1>4, DropChunkIs, KeepChunkIs
<1>5. CASE \E c \in Sessions : DropChunk(c) \/ KeepChunk(c)
  BY <1>0, <1>4, <1>5 DEF Others
<1>6. CASE \E c \in Sessions : Arm(c) \/ Discard(c) \/ \E now : Ends(c, now)
  BY <1>0, <1>2, <1>3, <1>6
<1>7. CASE HostDies
  <2>1. printed' = printed /\ \A d \in Sessions : state'[d] = IF state[d] = "new" THEN "new" ELSE "ended"
    BY <1>7, HostDiesIs
  <2> QED
    BY <1>0, <2>1
<1>8. CASE UNCHANGED vars \/ Reads
  BY <1>1, <1>8, VarsSame, ReadUnread DEF Reads
<1>9. CASE Shutdown \/ TakeBatch \/ Wait \/ SyncIdle \/ Stopped \/ BatchDone
  BY <1>1, <1>9, ShutdownIs, TakeBatchIs, IdleIs
<1>10. CASE ApplyOpen \/ ApplyDiscard \/ AppendSkipped \/ WriteItem \/ Rename \/ NewSegment
  BY <1>1, <1>10 DEF ApplyOpen, ApplyDiscard, AppendSkipped, WriteItem, Rename, NewSegment,
                     programs
<1>11. CASE AppendFails \/ Enforce \/ Applied \/ Panic \/ PanicInMarker \/ BatchFails \/ BatchReleased
  BY <1>1, <1>11 DEF AppendFails, Enforce, Applied, Panic, PanicInMarker, BatchFails,
                     BatchReleased, programs
<1> QED
  BY Steps, <1>5, <1>6, <1>7, <1>8, <1>9, <1>10, <1>11

(* Every step keeps what was queued before a read among the first          *)
(* operations.                                                             *)
LEMMA InTimeStep ==
    ASSUME Typed, WriterInv, read.at # "none", state[read.session] # "new",
           read.owed <= printed[read.session], InTime, [Next]_vars, ReadHeld, ~HostDies
    PROVE  InTime'
<1>1. Later' = Later /\ read'.target = read.target
  BY DEF ReadHeld, Later
<1>2. read.session \in Sessions /\ read.owed \in Nat
  <2>1. read \in ReadType
    BY ReadTyped
  <2> QED
    BY <2>1 DEF ReadType
<1>3. CASE UNCHANGED <<batch, ops, queued>>
  BY <1>1, <1>3 DEF InTime
<1>4. ASSUME NEW s \in Sessions, Arm(s) PROVE InTime'
  <2>1. Joins(1) /\ ops'[Len(ops) + 1] = Op("Open", s, 0) /\ state[s] = "new" /\ batch' = batch
    BY <1>4, ArmIs
  <2>2. Op("Open", s, 0) \in Later
    BY <2>1 DEF Later, Op, OpType
  <2>3. \A j \in DOMAIN ops' : (j \in DOMAIN ops /\ ops'[j] = ops[j]) \/ ops'[j] = Op("Open", s, 0)
    BY <2>1, JoinOneOf
  <2> QED
    BY <1>1, <2>1, <2>2, <2>3, InTimeJoin
<1>5. ASSUME NEW s \in Sessions, NEW o \in Later, Joins(MarkerLen(s) + 1), batch' = batch,
             ops'[Len(ops) + MarkerLen(s) + 1] = o,
             gaps[s] > 0 => ops'[Len(ops) + 1] = Op("Gap", s, gaps[s])
      PROVE  InTime'
  <2>1. \A j \in DOMAIN ops' : \/ j \in DOMAIN ops /\ ops'[j] = ops[j]
                               \/ ops'[j] = o
                               \/ ops'[j] = Op("Gap", s, gaps[s])
    BY <1>5, JoinMarkedOf
  <2>2. Op("Gap", s, gaps[s]) \in Later
    <3>1. gaps[s] \in Nat
      BY DEF Typed
    <3> QED
      BY <3>1 DEF Later, Op, OpType
  <2>3. PICK k \in {1, 2} : k = MarkerLen(s) + 1
    BY DEF MarkerLen
  <2>4. Joins(k)
    BY <1>5, <2>3
  <2> QED
    BY <1>1, <1>5, <2>1, <2>2, <2>4, InTimeJoin
<1>6. ASSUME NEW s \in Sessions, KeepChunk(s) PROVE InTime'
  <2>1. /\ Joins(MarkerLen(s) + 1) /\ batch' = batch
        /\ ops'[Len(ops) + MarkerLen(s) + 1] = Op("Data", s, printed[s] + 1)
        /\ gaps[s] > 0 => ops'[Len(ops) + 1] = Op("Gap", s, gaps[s])
    BY <1>6, KeepChunkIs
  <2>2. Op("Data", s, printed[s] + 1) \in Later
    <3>1. printed[s] \in Nat
      BY DEF Typed
    <3>2. read.session = s => printed[s] + 1 > read.owed
      BY <1>2, <3>1
    <3> QED
      BY <3>1, <3>2 DEF Later, Op, OpType
  <2> QED
    BY <1>5, <2>1, <2>2
<1>7. ASSUME NEW s \in Sessions, NEW now, Ends(s, now) PROVE InTime'
  <2>1. Close(s, now)
    BY <1>7, EndsIs
  <2>2. CASE shutdown
    BY <1>3, <2>1, <2>2, CloseIs
  <2>3. CASE ~shutdown
    <3>1. /\ Joins(MarkerLen(s) + 1) /\ batch' = batch
          /\ ops'[Len(ops) + MarkerLen(s) + 1] = Op("Close", s, 0)
          /\ gaps[s] > 0 => ops'[Len(ops) + 1] = Op("Gap", s, gaps[s])
      BY <2>1, <2>3, CloseIs
    <3>2. Op("Close", s, 0) \in Later
      BY DEF Later, Op, OpType
    <3> QED
      BY <1>5, <3>1, <3>2
  <2> QED
    BY <2>2, <2>3
<1>8. ASSUME NEW s \in Sessions, Discard(s) PROVE InTime'
  <2>1. CASE shutdown
    BY <1>3, <1>8, <2>1, DiscardIs
  <2>2. CASE ~shutdown
    <3>1. Joins(1) /\ ops'[Len(ops) + 1] = Op("Discard", s, 0) /\ batch' = batch
      BY <1>8, <2>2, DiscardIs
    <3>2. Op("Discard", s, 0) \in Later
      BY DEF Later, Op, OpType
    <3>3. \A j \in DOMAIN ops' : (j \in DOMAIN ops /\ ops'[j] = ops[j]) \/ ops'[j] = Op("Discard", s, 0)
      BY <3>1, JoinOneOf
    <3> QED
      BY <1>1, <3>1, <3>2, <3>3, InTimeJoin
  <2> QED
    BY <2>1, <2>2
<1>9. CASE TakeBatch
  <2>1. batch' = ops /\ ops' = <<>> /\ queued' = queued
    BY <1>9, TakeBatchIs
  <2>0. Len(<<>>) = 0 /\ DOMAIN <<>> = {}
    OBVIOUS
  <2>2. Len(ops') = 0 /\ DOMAIN ops' = {} /\ queued \in Nat /\ Len(ops) \in Nat
    BY <2>0, <2>1, OpsAreTyped DEF Typed
  <2>3. queued' - Len(ops') - Len(batch') = queued - Len(ops)
    BY <2>1, <2>2
  <2> QED
    BY <1>1, <2>1, <2>2, <2>3 DEF InTime
<1>10. CASE Applied
  <2>1. batch' = Tail(batch) /\ UNCHANGED <<ops, queued>> /\ batch # <<>>
    BY <1>10, AppliedIs
  <2>2. /\ \A j \in DOMAIN Tail(batch) : j + 1 \in DOMAIN batch /\ Tail(batch)[j] = batch[j + 1]
        /\ Len(Tail(batch)) = Len(batch) - 1
        /\ Len(batch) \in Nat /\ Len(ops) \in Nat /\ queued \in Nat
    BY <2>1, TailOf, HeadIs, OpsAreTyped DEF Typed
  <2>3. ASSUME NEW j \in DOMAIN Tail(batch), Tail(batch)[j] \notin Later
        PROVE  queued' - Len(ops') - Len(batch') + j <= read.target
    <3>1. batch[j + 1] \notin Later /\ j + 1 \in DOMAIN batch
      BY <2>2, <2>3
    <3>2. queued - Len(ops) - Len(batch) + (j + 1) <= read.target
      BY <3>1 DEF InTime
    <3>3. j \in Int
      BY <2>1, <2>2, HeadIs
    <3> QED
      BY <2>1, <2>2, <3>2, <3>3
  <2> QED
    BY <1>1, <2>1, <2>3 DEF InTime
<1>11. CASE BatchReleased
  <2>1. batch' = <<>> /\ UNCHANGED <<ops, queued>>
    BY <1>11, BatchReleasedIs
  <2>2. DOMAIN batch' = {}
    BY <2>1
  <2> QED
    BY <1>1, <2>1, <2>2 DEF InTime
<1>12. CASE UNCHANGED vars \/ Shutdown \/ Wait \/ SyncIdle \/ Stopped \/ BatchDone \/ Reads
  BY <1>3, <1>12, VarsSame, ShutdownIs, IdleIs, ReadUnread DEF Reads
<1>13. CASE ApplyOpen \/ ApplyDiscard \/ AppendSkipped \/ WriteItem \/ Rename \/ NewSegment
  BY <1>3, <1>13 DEF ApplyOpen, ApplyDiscard, AppendSkipped, WriteItem, Rename, NewSegment,
                     queueVars
<1>14. CASE AppendFails \/ Enforce \/ Panic \/ PanicInMarker \/ BatchFails
  BY <1>3, <1>14 DEF AppendFails, Enforce, Panic, PanicInMarker, BatchFails, queueVars
<1>15. ASSUME NEW s \in Sessions, DropChunk(s) PROVE InTime'
  BY <1>3, <1>15, DropChunkIs
<1> QED
  BY Steps, <1>4, <1>6, <1>7, <1>8, <1>9, <1>10, <1>11, <1>12, <1>13, <1>14, <1>15

(* Every step keeps what is known of a read from when it was asked.        *)
LEMMA AskStep ==
    ASSUME Typed, WriterInv, MarkingInv, SegmentsInv, read.at # "none" => AskInv, [Next]_vars,
           read'.at # "none"
    PROVE  AskInv'
<1>0. AskInv <=> /\ state[read.session] # "new" /\ read.owed <= printed[read.session]
                 /\ InTime
                 /\ read.at # "settling" /\ read.settled => done >= read.target
  BY DEF AskInv, InTime
<1> SUFFICES /\ state'[read'.session] # "new" /\ read'.owed <= printed'[read'.session]
             /\ InTime'
             /\ read'.at # "settling" /\ read'.settled => done' >= read'.target
  BY DEF AskInv, InTime
<1>1. CASE HostDies
  <2>1. read' = NoRead
    BY <1>1, HostDiesIs
  <2> QED
    BY <2>1 DEF NoRead
<1>2. CASE Read
  <2>1. \A s \in Sessions : marking[s] \in Nat
    BY SumsAreNat DEF MarkingInv
  <2>2. \A s \in Sessions : segments[s].previous => segments[s].newest > 1
    BY DEF SegmentsInv, SegmentsOf
  <2>3. /\ read.at # "none"
        /\ read'.session = read.session /\ read'.target = read.target
        /\ read'.owed = read.owed
        /\ IF read.at = "settling" THEN read'.settled => done >= read.target
           ELSE read'.settled = read.settled
    BY <1>2, <2>1, <2>2, ReadGoes
  <2>4. UNCHANGED <<state, printed, batch, ops, queued, done>>
    BY <1>2, ReadUnread
  <2>5. InTime'
    BY <1>0, <2>3, <2>4 DEF InTime, Later
  <2> QED
    BY <1>0, <2>3, <2>4, <2>5
<1>3. ASSUME NEW s \in Sessions, Ask(s)
      PROVE  /\ state'[read'.session] # "new" /\ read'.owed <= printed'[read'.session]
             /\ InTime' /\ read'.at = "settling"
  <2>1. /\ state[s] # "new" /\ read'.at = "settling" /\ read'.session = s
        /\ read'.target = queued /\ read'.owed = printed[s]
    BY <1>3, AskIs
  <2>2. UNCHANGED <<state, printed, batch, ops, queued>>
    BY <1>3, ReadUnread
  <2>3. printed[s] \in Nat /\ queued \in Nat
    BY DEF Typed
  <2>4. InTime'
    <3>1. /\ DOMAIN batch = 1..Len(batch) /\ DOMAIN ops = 1..Len(ops)
          /\ Len(batch) \in Nat /\ Len(ops) \in Nat
      BY OpsAreTyped
    <3>2. \A i \in DOMAIN batch : queued - Len(ops) - Len(batch) + i <= queued
      BY <2>3, <3>1
    <3>3. \A i \in DOMAIN ops : queued - Len(ops) + i <= queued
      BY <2>3, <3>1
    <3> QED
      BY <2>1, <2>2, <3>2, <3>3 DEF InTime
  <2> QED
    BY <2>1, <2>2, <2>3, <2>4
<1>4. CASE ~Reads /\ ~HostDies
  <2>1. CASE read.at = "none"
    BY <1>4, <2>1, NotAsked
  <2>2. CASE read.at # "none"
    <3>1. ReadHeld /\ read.session \in Sessions
      BY <1>4, <2>2, ReadStays, ReadTyped
    <3>2. InTime'
      BY <1>0, <1>4, <2>2, <3>1, InTimeStep
    <3>3. /\ printed[read.session] \in Nat /\ printed'[read.session] \in Nat
          /\ printed'[read.session] >= printed[read.session]
          /\ state'[read.session] # "new"
      BY <1>0, <2>2, <3>1, SessionsGrow
    <3>4. done' = done \/ (done' = queued - Len(ops) /\ done <= queued - Len(ops))
      BY <1>4, DoneGrows
    <3>5. read \in ReadType /\ done \in Nat /\ queued \in Nat /\ Len(ops) \in Nat
      BY <2>2, ReadTyped, OpsAreTyped DEF Typed
    <3>6. read.owed \in Nat /\ read.target \in Nat
      BY <3>5 DEF ReadType
    <3>7. read'.at # "settling" /\ read'.settled => done' >= read'.target
      <4>1. SUFFICES ASSUME done >= read.target PROVE done' >= read.target
        BY <1>0, <2>2, <3>1 DEF ReadHeld
      <4> QED
        BY <3>4, <3>5, <3>6, <4>1
    <3>8. read'.owed <= printed'[read'.session]
      BY <1>0, <2>2, <3>1, <3>3, <3>6 DEF ReadHeld
    <3> QED
      BY <3>1, <3>2, <3>3, <3>7, <3>8 DEF ReadHeld
  <2> QED
    BY <2>1, <2>2
<1> QED
  BY <1>1, <1>2, <1>3, <1>4 DEF Reads

-----------------------------------------------------------------------------
(* What a read sees of the queue.                                          *)

\* A queue accounts by its markers alone for what comes before its first chunk.
LEMMA FirstChunk ==
    ASSUME NEW q \in Seq(OpType), NEW s
    PROVE  \/ Weight(q, s, Len(q)) = GapsIn(q, s, Len(q))
           \/ \E i \in DOMAIN q : /\ q[i].op = "Data" /\ q[i].session = s
                                  /\ Weight(q, s, i) <= 1 + GapsIn(q, s, Len(q))
<1> DEFINE S == {k \in Nat : k <= Len(q) =>
                   \/ Weight(q, s, k) = GapsIn(q, s, k)
                   \/ \E i \in 1..k : /\ q[i].op = "Data" /\ q[i].session = s
                                      /\ Weight(q, s, i) <= 1 + GapsIn(q, s, k)}
<1>0. Len(q) \in Nat /\ DOMAIN q = 1..Len(q)
  OBVIOUS
<1>1. 0 \in S
  BY QueueNone
<1>2. ASSUME NEW k \in S PROVE k + 1 \in S
  <2> SUFFICES ASSUME k + 1 <= Len(q)
               PROVE  \/ Weight(q, s, k + 1) = GapsIn(q, s, k + 1)
                      \/ \E i \in 1..k + 1 : /\ q[i].op = "Data" /\ q[i].session = s
                                             /\ Weight(q, s, i) <= 1 + GapsIn(q, s, k + 1)
    OBVIOUS
  <2>1. /\ Weight(q, s, k + 1) = Weight(q, s, k) + WeightOf(q[k + 1], s)
        /\ GapsIn(q, s, k + 1) = GapsIn(q, s, k) + GapOf(q[k + 1], s)
    <3>1. k \in Nat /\ k < Len(q)
      BY <1>0
    <3> QED
      BY <3>1, QueueNext
  <2>2. k \in 0..Len(q)
    BY <1>0
  <2>3. Weight(q, s, k) \in Nat /\ GapsIn(q, s, k) \in Nat
    BY <2>2, QueueNat
  <2>4. q[k + 1] \in OpType
    BY <1>0
  <2>5. /\ GapOf(q[k + 1], s) \in Nat
        /\ IF q[k + 1].op = "Data" /\ q[k + 1].session = s
           THEN WeightOf(q[k + 1], s) = 1 /\ GapOf(q[k + 1], s) = 0
           ELSE WeightOf(q[k + 1], s) = GapOf(q[k + 1], s)
    BY <2>4 DEF GapOf, WeightOf, OpType
  <2>6. CASE Weight(q, s, k) = GapsIn(q, s, k)
    <3>1. CASE q[k + 1].op = "Data" /\ q[k + 1].session = s
      <4>1. Weight(q, s, k + 1) <= 1 + GapsIn(q, s, k + 1)
        BY <2>1, <2>3, <2>5, <2>6, <3>1
      <4>2. k + 1 \in 1..k + 1
        OBVIOUS
      <4> QED
        BY <3>1, <4>1, <4>2
    <3>2. CASE ~(q[k + 1].op = "Data" /\ q[k + 1].session = s)
      BY <2>1, <2>3, <2>5, <2>6, <3>2
    <3> QED
      BY <3>1, <3>2
  <2>7. CASE Weight(q, s, k) # GapsIn(q, s, k)
    <3>1. PICK i \in 1..k : /\ q[i].op = "Data" /\ q[i].session = s
                            /\ Weight(q, s, i) <= 1 + GapsIn(q, s, k)
      BY <2>7
    <3>2. i \in 1..k + 1 /\ i \in 0..Len(q)
      BY <1>0, <3>1
    <3>3. Weight(q, s, i) \in Nat
      BY <3>2, QueueNat
    <3>4. Weight(q, s, i) <= 1 + GapsIn(q, s, k + 1)
      BY <2>1, <2>3, <2>5, <3>1, <3>3
    <3> QED
      BY <3>1, <3>2, <3>4
  <2> QED
    BY <2>6, <2>7
<1>3. S \subseteq Nat
  OBVIOUS
<1> HIDE DEF S
<1>4. Len(q) \in S
  BY <1>0, <1>1, <1>2, <1>3, Induction
<1> QED
  BY <1>0, <1>4 DEF S

\* Once what was queued before a read is done, all that is left is later.
LEMMA AllLater ==
    ASSUME Typed, WriterInv, AskInv, read.at \notin {"none", "settling"}, read.settled
    PROVE  /\ \A i \in DOMAIN batch : batch[i] \in Later
           /\ \A i \in DOMAIN ops : ops[i] \in Later
           /\ \A i \in DOMAIN Rest : Rest[i] \in Later
           /\ batch # <<>> => Current \in Later
<1>1. /\ DOMAIN batch = 1..Len(batch) /\ DOMAIN ops = 1..Len(ops)
      /\ Len(batch) \in Nat /\ Len(ops) \in Nat /\ queued \in Nat /\ done \in Nat
      /\ done + Len(batch) + Len(ops) <= queued
  BY OpsAreTyped DEF Typed, WriterInv
<1>2. read.target \in Nat /\ done >= read.target
  <2>1. read \in ReadType
    BY ReadTyped
  <2> QED
    BY <2>1 DEF ReadType, AskInv
<1>3. ASSUME NEW i \in DOMAIN batch PROVE batch[i] \in Later
  <2>1. ~(queued - Len(ops) - Len(batch) + i <= read.target)
    BY <1>1, <1>2
  <2> QED
    BY <2>1 DEF AskInv
<1>4. ASSUME NEW i \in DOMAIN ops PROVE ops[i] \in Later
  <2>1. ~(queued - Len(ops) + i <= read.target)
    BY <1>1, <1>2
  <2> QED
    BY <2>1 DEF AskInv
<1>5. \A i \in DOMAIN Rest : Rest[i] \in Later
  <2>1. Rest = batch \/ (batch # <<>> /\ Rest = Tail(batch))
    BY RestIs
  <2>2. batch # <<>> => \A j \in DOMAIN Tail(batch) : j + 1 \in DOMAIN batch /\ Tail(batch)[j] = batch[j + 1]
    BY TailOf
  <2> QED
    BY <1>3, <2>1, <2>2
<1>6. batch # <<>> => Current \in Later
  BY <1>3, TailOf
<1> QED
  BY <1>3, <1>4, <1>5, <1>6

(* What the disk and the counts of one moment tell of a session recorded.  *)
LEMMA LookTells ==
    ASSUME Typed, WriterInv, MarkingInv, FreshInv, LedgerInv, AskInv,
           read.at = "settled", read.settled, ~MarkersMayPanic,
           read.session \in recording, read.session \notin failures
    PROVE  InLog(read.session) + gaps[read.session] + marking[read.session] >= read.owed
<1>0. read \in ReadType /\ read.session \in Sessions /\ read.owed \in Nat
  <2>1. read \in ReadType /\ read.session \in Sessions
    BY ReadTyped
  <2> QED
    BY <2>1 DEF ReadType
<1> DEFINE r == read.session
           owed == read.owed
<1>1. /\ \A i \in DOMAIN Rest : Rest[i] \in Later
      /\ \A i \in DOMAIN ops : ops[i] \in Later
      /\ batch # <<>> => Current \in Later
  BY AllLater
<1>2. /\ \A i \in DOMAIN Rest : Rest[i].op = "Data" /\ Rest[i].session = r => Rest[i].n > owed
      /\ \A i \in DOMAIN ops : ops[i].op = "Data" /\ ops[i].session = r => ops[i].n > owed
      /\ batch # <<>> /\ Current.op = "Data" /\ Current.session = r => Current.n > owed
  BY <1>1 DEF Later
<1>3. /\ GapsLeft(r) \in Nat /\ WeightLeft(r) \in Nat
      /\ GapsQueued(r) \in Nat /\ WeightQueued(r) \in Nat
      /\ InLog(r) \in Nat /\ InHand(r) \in Nat
      /\ marking[r] = GapsLeft(r) + GapsQueued(r) + InHand(r)
  BY <1>0, SumsAreNat DEF MarkingInv
<1>4. gaps[r] \in Nat /\ printed[r] \in Nat /\ owed <= printed[r]
  BY <1>0 DEF Typed, AskInv
<1>5. Rest \in Seq(OpType) /\ ops \in Seq(OpType)
  BY RestIs DEF Typed
<1>6. CASE Interrupted(r) /\ Current.op \in {"Data", "Gap"}
  <2>1. writer = "unwinding" /\ Current.session = r /\ batch # <<>>
    BY <1>6 DEF Interrupted, WriterInv
  <2>2. Current.op = "Data"
    BY <1>6, <2>1 DEF WriterInv
  <2>3. InLog(Current.session) >= Current.n - 1
    BY <2>1, <2>2 DEF LedgerInv
  <2>4. Current.n \in Nat /\ Current.n > owed
    BY <1>2, <2>1, <2>2, HeadIs
  <2> HIDE DEF r, owed
  <2>5. InLog(r) >= Current.n - 1
    BY <2>1, <2>3
  <2>6. owed \in Nat
    BY <1>0 DEF owed
  <2> QED
    BY <1>3, <1>4, <2>4, <2>5, <2>6 DEF r, owed
<1>7. CASE ~(Interrupted(r) /\ Current.op \in {"Data", "Gap"})
  <2>1. Sound(r) /\ Owns(r)
    BY <1>0, <1>7 DEF Sound, Owns, FreshInv
  <2>2. /\ InLog(r) + WeightLeft(r) + WeightQueued(r) + gaps[r] = printed[r]
        /\ InTurn(r)
    BY <1>0, <2>1 DEF LedgerInv, Total
  <2>3. CASE \E i \in DOMAIN Rest : /\ Rest[i].op = "Data" /\ Rest[i].session = r
                                    /\ Weight(Rest, r, i) <= 1 + GapsLeft(r)
    <3>1. PICK i \in DOMAIN Rest : /\ Rest[i].op = "Data" /\ Rest[i].session = r
                                   /\ Weight(Rest, r, i) <= 1 + GapsLeft(r)
      BY <2>3
    <3>2. Rest[i].n = InLog(r) + Weight(Rest, r, i) /\ Rest[i].n > owed
      BY <1>2, <2>2, <3>1 DEF InTurn
    <3>3. PICK w \in Nat : w = Weight(Rest, r, i)
      <4>1. i \in 0..Len(Rest)
        BY <1>5, <3>1
      <4> QED
        BY <1>5, <4>1, QueueNat
    <3>4. InLog(r) + w > owed /\ w <= 1 + GapsLeft(r)
      BY <3>1, <3>2, <3>3
    <3> HIDE DEF r, owed
    <3>5. owed \in Nat
      BY <1>0 DEF owed
    <3> QED
      BY <1>3, <1>4, <3>4, <3>5 DEF r, owed
  <2>4. CASE /\ WeightLeft(r) = GapsLeft(r)
             /\ \E i \in DOMAIN ops : /\ ops[i].op = "Data" /\ ops[i].session = r
                                      /\ Weight(ops, r, i) <= 1 + GapsQueued(r)
    <3>1. PICK i \in DOMAIN ops : /\ ops[i].op = "Data" /\ ops[i].session = r
                                  /\ Weight(ops, r, i) <= 1 + GapsQueued(r)
      BY <2>4
    <3>2. ops[i].n = InLog(r) + WeightLeft(r) + Weight(ops, r, i) /\ ops[i].n > owed
      BY <1>2, <2>2, <3>1 DEF InTurn
    <3>3. PICK w \in Nat : w = Weight(ops, r, i)
      <4>1. i \in 0..Len(ops)
        BY <1>5, <3>1
      <4> QED
        BY <1>5, <4>1, QueueNat
    <3>4. InLog(r) + GapsLeft(r) + w > owed /\ w <= 1 + GapsQueued(r)
      BY <2>4, <3>1, <3>2, <3>3
    <3> HIDE DEF r, owed
    <3>5. owed \in Nat
      BY <1>0 DEF owed
    <3> QED
      BY <1>3, <1>4, <3>4, <3>5 DEF r, owed
  <2>5. CASE WeightLeft(r) = GapsLeft(r) /\ WeightQueued(r) = GapsQueued(r)
    <3> HIDE DEF r, owed
    <3>5. owed \in Nat
      BY <1>0 DEF owed
    <3> QED
      BY <1>3, <1>4, <2>2, <2>5, <3>5 DEF r, owed
  <2>6. \/ WeightLeft(r) = GapsLeft(r)
        \/ \E i \in DOMAIN Rest : /\ Rest[i].op = "Data" /\ Rest[i].session = r
                                  /\ Weight(Rest, r, i) <= 1 + GapsLeft(r)
    BY <1>5, FirstChunk DEF WeightLeft, GapsLeft
  <2>7. \/ WeightQueued(r) = GapsQueued(r)
        \/ \E i \in DOMAIN ops : /\ ops[i].op = "Data" /\ ops[i].session = r
                                 /\ Weight(ops, r, i) <= 1 + GapsQueued(r)
    BY <1>5, FirstChunk DEF WeightQueued, GapsQueued
  <2> QED
    BY <2>3, <2>4, <2>5, <2>6, <2>7
<1> QED
  BY <1>6, <1>7

-----------------------------------------------------------------------------
(* What a step does to a log and to its segments.                          *)

(* A log only grows, and what its beginning accounts for stays.            *)
LEMMA LogGrows ==
    ASSUME Typed, [Next]_vars, NEW s \in Sessions
    PROVE  /\ saved[s] \in Seq(Int) /\ Len(saved[s]) \in Nat /\ Len(saved'[s]) \in Nat
           /\ Len(saved[s]) <= Len(saved'[s])
           /\ \A n \in 0..Len(saved[s]) : /\ Covered(saved[s], n) \in Nat
                                          /\ Covered(saved'[s], n) = Covered(saved[s], n)
           /\ Covered(saved[s], Len(saved[s])) \in Nat
           /\ Covered(saved'[s], Len(saved'[s])) \in Nat
           /\ Covered(saved[s], Len(saved[s])) <= Covered(saved'[s], Len(saved'[s]))
<1>0. /\ saved[s] \in Seq(Int) /\ Len(saved[s]) \in Nat
      /\ \A n \in 0..Len(saved[s]) : Covered(saved[s], n) \in Nat
      /\ Covered(saved[s], Len(saved[s])) \in Nat
  <2>1. saved[s] \in Seq(Int)
    BY DEF Typed
  <2>2. Len(saved[s]) \in Nat /\ Len(saved[s]) \in 0..Len(saved[s])
    BY <2>1
  <2> QED
    BY <2>1, <2>2, LogNat
<1>1. CASE saved'[s] = saved[s]
  BY <1>0, <1>1
<1>2. CASE \E x \in Int : saved'[s] = Append(saved[s], x)
  <2>1. PICK x \in Int : saved'[s] = Append(saved[s], x)
    BY <1>2
  <2>2. PICK q \in Seq(Int) : q = saved[s]
    BY <1>0
  <2>3. /\ Len(Append(q, x)) = Len(q) + 1
        /\ \A n \in 0..Len(q) : Covered(Append(q, x), n) = Covered(q, n)
        /\ Covered(Append(q, x), Len(q) + 1) = Covered(q, Len(q)) + Accounts(x)
    BY LogAppend
  <2>4. Accounts(x) \in Nat
    BY DEF Accounts
  <2>5. /\ Len(saved'[s]) = Len(saved[s]) + 1
        /\ \A n \in 0..Len(saved[s]) : Covered(saved'[s], n) = Covered(saved[s], n)
        /\ Covered(saved'[s], Len(saved'[s])) = Covered(saved[s], Len(saved[s])) + Accounts(x)
    BY <2>1, <2>2, <2>3
  <2>6. /\ Len(saved'[s]) \in Nat /\ Len(saved[s]) <= Len(saved'[s])
        /\ Covered(saved'[s], Len(saved'[s])) \in Nat
        /\ Covered(saved[s], Len(saved[s])) <= Covered(saved'[s], Len(saved'[s]))
    BY <1>0, <2>4, <2>5
  <2> QED
    BY <1>0, <2>5, <2>6
<1>3. CASE WriteItem
  <2>1. /\ Item \in Int /\ saved'[Current.session] = Append(saved[Current.session], Item)
        /\ \A d \in Others(Current.session) : saved'[d] = saved[d]
    BY <1>3, WriteItemIs
  <2> QED
    BY <1>1, <1>2, <2>1 DEF Others
<1>4. CASE UNCHANGED vars \/ Shutdown \/ TakeBatch \/ Wait \/ SyncIdle \/ Stopped \/ BatchDone \/ Reads
  BY <1>1, <1>4, VarsSame, ShutdownIs, TakeBatchIs, IdleIs, ReadUnread DEF Reads
<1>5. CASE ApplyOpen \/ ApplyDiscard \/ AppendSkipped \/ Rename \/ NewSegment
  BY <1>1, <1>5 DEF ApplyOpen, ApplyDiscard, AppendSkipped, Rename, NewSegment, disk
<1>6. CASE AppendFails \/ Applied \/ Panic \/ PanicInMarker \/ BatchFails \/ BatchReleased \/ Enforce
  BY <1>1, <1>6 DEF AppendFails, Applied, Panic, PanicInMarker, BatchFails, BatchReleased, Enforce, disk
<1>7. ASSUME NEW c \in Sessions, Arm(c) \/ DropChunk(c) \/ KeepChunk(c) \/ Discard(c)
      PROVE  saved' = saved
  BY <1>7 DEF Arm, DropChunk, KeepChunk, Discard, disk
<1>8. ASSUME NEW c \in Sessions, NEW now, Ends(c, now) PROVE saved' = saved
  BY <1>8, EndsIs, CloseIs
<1>9. CASE HostDies
  BY <1>1, <1>9, HostDiesIs
<1> QED
  BY Steps, <1>1, <1>3, <1>4, <1>5, <1>6, <1>7, <1>8, <1>9

\* Where a session's segments go: a rotation goes on, or a log begins or is
\* discarded, or a sweep takes some of them, and a read in progress knows.
Evicts(s) == Kept(segments[s], segments'[s]) /\ (read.at # "none" /\ read.session = s => read'.evicted)
Renames(s) ==
    /\ segments[s].current /\ saved' = saved
    /\ segments'[s].newest = segments[s].newest + 1
    /\ segments'[s].previous /\ ~segments'[s].current
    /\ segments'[s].currentFrom = Len(saved[s])
Begins(s) ==
    /\ segments[s].previous /\ ~segments[s].current /\ segments'[s].current
    /\ segments'[s].newest = segments[s].newest
    /\ segments'[s].previous
    /\ segments'[s].currentFrom = segments[s].currentFrom
Created(s) ==
    /\ segments[s] = NoSegments /\ segments'[s].newest = 1 /\ ~segments'[s].previous
    /\ batch # <<>> /\ Current.op = "Open" /\ Current.session = s
Discarded(s) == segments'[s] = NoSegments /\ printed[s] = 0 /\ segments[s].newest <= 1

(* Those are all the ways the segments of a session change.                *)
LEMMA SegmentsMove ==
    ASSUME Typed, WriterInv, OrderInv, FreshInv, SegmentsInv, LogsInv, [Next]_vars, ~HostDies,
           NEW s \in Sessions
    PROVE  segments'[s] = segments[s] \/ Evicts(s) \/ Renames(s) \/ Begins(s) \/ Created(s) \/ Discarded(s)
<1>1. CASE segments' = segments
  BY <1>1
<1>2. CASE Enforce
  <2>1. /\ Kept(segments[s], segments'[s])
        /\ \/ /\ read' = read
              /\ read.at # "none" => segments'[read.session] = segments[read.session]
           \/ read.at # "none" /\ read' = [read EXCEPT !.evicted = TRUE]
    BY <1>2, EnforceIs
  <2>2. CASE read.at # "none" /\ read' = [read EXCEPT !.evicted = TRUE]
    <3>1. read \in ReadType
      BY <2>2, ReadTyped
    <3>2. read'.evicted
      BY <2>2, <3>1 DEF ReadType
    <3> QED
      BY <2>1, <3>2 DEF Evicts
  <2>3. CASE /\ read' = read
             /\ read.at # "none" => segments'[read.session] = segments[read.session]
    BY <2>1, <2>3 DEF Evicts
  <2> QED
    BY <2>1, <2>2, <2>3
<1>3. CASE Rename
  <2>1. /\ writer = "applying" /\ Ready
        /\ segments'[Current.session] =
               [newest |-> segments[Current.session].newest + 1,
                previous |-> TRUE, current |-> FALSE,
                previousFrom |-> segments[Current.session].currentFrom,
                currentFrom |-> Len(saved[Current.session])]
        /\ \A d \in Others(Current.session) : segments'[d] = segments[d]
        /\ saved' = saved
    BY <1>3, RenameIs
  <2>2. segments[Current.session].current
    BY <2>1, ReadyIsOpen
  <2>3. CASE s = Current.session
    BY <2>1, <2>2, <2>3 DEF Renames
  <2>4. CASE s # Current.session
    BY <2>1, <2>4 DEF Others
  <2> QED
    BY <2>3, <2>4
<1>4. CASE NewSegment
  <2>1. /\ writer = "renamed"
        /\ segments'[Current.session].current
        /\ segments'[Current.session].newest = segments[Current.session].newest
        /\ segments'[Current.session].previous = segments[Current.session].previous
        /\ segments'[Current.session].currentFrom = segments[Current.session].currentFrom
        /\ \A d \in Others(Current.session) : segments'[d] = segments[d]
    BY <1>4, NewSegmentIs
  <2>2. CASE s = Current.session
    <3>1. segments[s].previous /\ ~segments[s].current
      BY <2>1, <2>2 DEF SegmentsInv, SegmentsOf
    <3> QED
      BY <2>1, <2>2, <3>1 DEF Begins
  <2>3. CASE s # Current.session
    BY <2>1, <2>3 DEF Others
  <2> QED
    BY <2>2, <2>3
<1>5. CASE ApplyOpen
  <2>1. /\ writer = "applying" /\ batch # <<>> /\ Current.op = "Open"
        /\ \/ /\ Begun(segments'[Current.session])
              /\ \A d \in Others(Current.session) : segments'[d] = segments[d]
           \/ segments' = segments
    BY <1>5, ApplyOpenIs
  <2>2. CASE s = Current.session /\ Begun(segments'[s])
    <3>1. Rest = batch
      BY <2>1 DEF Rest, Written
    <3>2. HasOpen(Rest, s)
      BY <2>1, <2>2, <3>1, TailOf DEF HasOpen
    <3>3. segments[s] = NoSegments
      BY <3>2 DEF FreshInv, Fresh
    <3> QED
      BY <2>1, <2>2, <3>3 DEF Created, Begun
  <2>3. CASE s # Current.session \/ segments' = segments
    BY <2>1, <2>3 DEF Others
  <2> QED
    BY <2>1, <2>2, <2>3
<1>6. CASE ApplyDiscard
  <2>1. /\ batch # <<>> /\ Current.op = "Discard"
        /\ \A d \in Others(Current.session) : segments'[d] = segments[d]
        /\ IF Current.session \in logs
           THEN segments' = segments
           ELSE segments'[Current.session] = NoSegments
    BY <1>6, ApplyDiscardIs
  <2>2. CASE s = Current.session /\ segments'[s] = NoSegments
    <3>1. printed[s] = 0
      BY <2>1, <2>2, HeadOrder DEF Going
    <3>2. segments[s] \in SegmentType /\ (segments[s].newest > 1 => printed[s] > 0)
      BY DEF Typed, SegmentsInv, SegmentsOf
    <3>3. segments[s].newest \in Nat
      BY <3>2 DEF SegmentType
    <3>4. segments[s].newest <= 1
      BY <3>1, <3>2, <3>3
    <3> QED
      BY <2>2, <3>1, <3>4 DEF Discarded
  <2>3. CASE s # Current.session \/ segments' = segments
    BY <2>1, <2>3 DEF Others
  <2> QED
    BY <2>1, <2>2, <2>3
<1>7. CASE UNCHANGED vars \/ Shutdown \/ TakeBatch \/ Wait \/ SyncIdle \/ Stopped \/ BatchDone \/ Reads
  BY <1>1, <1>7, VarsSame, ShutdownIs, TakeBatchIs, IdleIs, ReadUnread DEF Reads
<1>8. CASE AppendSkipped \/ WriteItem \/ AppendFails \/ Applied
  BY <1>1, <1>8 DEF AppendSkipped, WriteItem, AppendFails, Applied, disk
<1>9. CASE Panic \/ PanicInMarker \/ BatchFails \/ BatchReleased
  BY <1>1, <1>9 DEF Panic, PanicInMarker, BatchFails, BatchReleased, disk
<1>10. ASSUME NEW c \in Sessions, Arm(c) \/ DropChunk(c) \/ KeepChunk(c) \/ Discard(c)
       PROVE  segments' = segments
  BY <1>10 DEF Arm, DropChunk, KeepChunk, Discard, disk
<1>11. ASSUME NEW c \in Sessions, NEW now, Ends(c, now) PROVE segments' = segments
  BY <1>11, EndsIs, CloseIs
<1> QED
  BY Steps, <1>1, <1>2, <1>3, <1>4, <1>5, <1>6, <1>7, <1>8, <1>9, <1>10, <1>11

\* A failure is remembered until a log begins, or is discarded, in its place.
LEMMA FailuresStay ==
    ASSUME Typed, OrderInv, [Next]_vars, ~HostDies, NEW s \in failures
    PROVE  \/ s \in failures'
           \/ batch # <<>> /\ Current.op = "Open" /\ Current.session = s
           \/ printed[s] = 0
<1>1. CASE failures' = failures
  BY <1>1
<1>2. CASE ApplyOpen
  BY <1>2, ApplyOpenIs
<1>3. CASE ApplyDiscard
  <2>1. /\ batch # <<>> /\ Current.op = "Discard"
        /\ failures' = failures \/ failures' = failures \ {Current.session}
    BY <1>3, ApplyDiscardIs
  <2>2. printed[Current.session] = 0
    BY <2>1, HeadOrder DEF Going
  <2> QED
    BY <2>1, <2>2
<1>4. CASE AppendFails \/ BatchFails
  BY <1>4, AppendFailsIs, BatchFailsIs
<1>5. CASE UNCHANGED vars \/ Shutdown \/ TakeBatch \/ Wait \/ SyncIdle \/ Stopped \/ BatchDone \/ Reads
  BY <1>1, <1>5, VarsSame, ShutdownIs, TakeBatchIs, IdleIs, ReadUnread DEF Reads
<1>6. CASE AppendSkipped \/ WriteItem \/ Rename \/ NewSegment \/ Applied
  BY <1>1, <1>6 DEF AppendSkipped, WriteItem, Rename, NewSegment, Applied
<1>7. CASE Panic \/ PanicInMarker \/ Enforce \/ BatchReleased
  BY <1>1, <1>7 DEF Panic, PanicInMarker, Enforce, BatchReleased
<1>8. ASSUME NEW c \in Sessions, Arm(c) \/ DropChunk(c) \/ KeepChunk(c) \/ Discard(c)
       PROVE  failures' = failures
  BY <1>8 DEF Arm, DropChunk, KeepChunk, Discard
<1>9. ASSUME NEW c \in Sessions, NEW now, Ends(c, now) PROVE failures' = failures
  BY <1>9, EndsIs, CloseIs
<1> QED
  BY Steps, <1>1, <1>2, <1>3, <1>4, <1>5, <1>6, <1>7, <1>8, <1>9

-----------------------------------------------------------------------------
(* What a read has found lasts while others take steps.                    *)

(* What a read was told by the counts and the log lasts.                   *)
LEMMA ToldLasts ==
    ASSUME Typed, [Next]_vars, read.at # "none", ReadHeld
    PROVE  /\ Told(Len(saved[read.session])) => Told(Len(saved[read.session]))'
           /\ \A n \in 0..Len(saved[read.session]) :
                  Told(n) => Covered(saved'[read'.session], n) + read'.unrecorded >= read'.owed
<1> DEFINE r == read.session
<1>0. read \in ReadType /\ r \in Sessions
  BY ReadTyped
<1>1. read.owed \in Nat /\ read.unrecorded \in Nat
  BY <1>0 DEF ReadType
<1>2. /\ Covered(saved[r], Len(saved[r])) \in Nat
      /\ Covered(saved'[r], Len(saved'[r])) \in Nat
      /\ Covered(saved[r], Len(saved[r])) <= Covered(saved'[r], Len(saved'[r]))
      /\ \A n \in 0..Len(saved[r]) : Covered(saved'[r], n) = Covered(saved[r], n)
  BY <1>0, LogGrows
<1>3. read'.session = r /\ read'.owed = read.owed /\ read'.unrecorded = read.unrecorded
  BY DEF ReadHeld
<1> HIDE DEF r
<1>4. \A n \in 0..Len(saved[r]) :
          Covered(saved[r], n) + read.unrecorded >= read.owed =>
              Covered(saved'[read'.session], n) + read'.unrecorded >= read'.owed
  BY <1>2, <1>3
<1>5. Covered(saved[r], Len(saved[r])) + read.unrecorded >= read.owed =>
          Covered(saved'[read'.session], Len(saved'[read'.session])) + read'.unrecorded >= read'.owed
  <2>1. PICK a \in Nat, b \in Nat : /\ a = Covered(saved[r], Len(saved[r]))
                                    /\ b = Covered(saved'[r], Len(saved'[r])) /\ a <= b
    BY <1>2
  <2>2. a + read.unrecorded >= read.owed => b + read.unrecorded >= read.owed
    BY <1>1, <2>1
  <2> QED
    BY <1>3, <2>1, <2>2
<1> QED
  BY <1>4, <1>5 DEF Told, r

(* The steps of others keep what is known of a read.                       *)
LEMMA HeldStep ==
    ASSUME Typed, WriterInv, MarkingInv, OrderInv, FreshInv, SegmentsInv, LogsInv, ReadInv,
           [Next]_vars, read.at # "none", ~Reads, ~HostDies
    PROVE  LookInv' /\ PreviousInv' /\ CurrentInv' /\ FoundInv'
<1> DEFINE r == read.session
           g == segments[r]
           h == segments'[r]
<1>0. /\ read \in ReadType /\ r \in Sessions /\ ReadHeld
      /\ AskInv /\ LookInv /\ PreviousInv /\ CurrentInv /\ FoundInv
  BY ReadTyped, ReadStays DEF ReadInv
<1>1. /\ read.previous \in FileType /\ read.current \in FileType
      /\ read.owed \in Nat /\ read.unrecorded \in Nat
      /\ read.evicted \in BOOLEAN
  BY <1>0 DEF ReadType
<1>2. /\ read.previous.file \in Nat /\ read.previous.to \in Nat
      /\ read.current.file \in Nat /\ read.current.to \in Nat
  BY <1>1 DEF FileType
<1>3. /\ g.newest \in Nat /\ h.newest \in Nat
      /\ g.previous => g.newest > 1
      /\ g.current => g.newest > 0
  <2>1. Typed'
    BY TypedStep
  <2>2. g \in SegmentType /\ h \in SegmentType /\ SegmentsOf(r)
    BY <1>0, <2>1 DEF Typed, SegmentsInv
  <2> QED
    BY <2>2 DEF SegmentType, SegmentsOf
<1>4. h = g \/ Evicts(r) \/ Renames(r) \/ Begins(r) \/ Created(r) \/ Discarded(r)
  BY <1>0, SegmentsMove
<1>5. /\ Len(saved[r]) \in Nat /\ Len(saved'[r]) \in Nat /\ Len(saved[r]) <= Len(saved'[r])
  BY <1>0, LogGrows
<1>6. /\ Told(Len(saved[r])) => Told(Len(saved[r]))'
      /\ \A n \in 0..Len(saved[r]) :
             Told(n) => Covered(saved'[read'.session], n) + read'.unrecorded >= read'.owed
  BY <1>0, ToldLasts
<1>7. Trusted' = Trusted /\ read'.session = r /\ (read.evicted => read'.evicted)
  BY <1>0 DEF ReadHeld, Trusted
<1>8. Created(r) => read.at = "settling" \/ ~read.settled
  <2>1. SUFFICES ASSUME Created(r), read.at # "settling", read.settled PROVE FALSE
    BY <1>1
  <2>2. batch # <<>> /\ Current.op = "Open" /\ Current.session = r
    BY <2>1 DEF Created
  <2>3. Current \in Later
    BY <1>0, <2>1, <2>2, AllLater
  <2> QED
    BY <2>2, <2>3 DEF Later
<1>9. Told(Len(saved[r]))' <=>
          Covered(saved'[r], Len(saved'[r])) + read'.unrecorded >= read'.owed
  BY <1>7 DEF Told
<1>10. LookInv'
  <2> SUFFICES ASSUME Trusted
               PROVE  /\ read.at = "looked" => r \in failures' \/ Told(Len(saved[r]))'
                      /\ read.at \in {"opening", "half open", "open"} /\ ~read.error =>
                             Told(Len(saved[r]))'
    BY <1>0, <1>7 DEF LookInv, ReadHeld
  <2>1. read.at \in {"opening", "half open", "open"} /\ ~read.error => Told(Len(saved[r]))'
    BY <1>0, <1>6 DEF LookInv
  <2>2. ASSUME read.at = "looked", r \in failures PROVE r \in failures' \/ Told(Len(saved[r]))'
    <3>1. \/ r \in failures'
          \/ batch # <<>> /\ Current.op = "Open" /\ Current.session = r
          \/ printed[r] = 0
      BY <2>2, FailuresStay
    <3>2. CASE batch # <<>> /\ Current.op = "Open" /\ Current.session = r
      <4>1. Current \in Later
        BY <1>0, <2>2, <3>2, AllLater DEF Trusted
      <4> QED
        BY <3>2, <4>1 DEF Later
    <3>3. CASE printed[r] = 0
      <4>1. read.owed <= 0
        BY <1>0, <3>3 DEF AskInv
      <4>2. /\ Covered(saved'[r], Len(saved'[r])) \in Nat
            /\ read'.unrecorded = read.unrecorded /\ read'.owed = read.owed
        BY <1>0, LogGrows DEF ReadHeld
      <4>3. Covered(saved'[r], Len(saved'[r])) + read'.unrecorded >= read'.owed
        BY <1>1, <4>1, <4>2
      <4> QED
        BY <1>9, <4>3
    <3> QED
      BY <3>1, <3>2, <3>3
  <2>3. read.at = "looked" /\ r \notin failures => Told(Len(saved[r]))'
    BY <1>0, <1>6 DEF LookInv
  <2> QED
    BY <2>1, <2>2, <2>3
<1>11. PreviousInv'
  <2> DEFINE p == read.previous
             Opening == read.at \in {"half open", "open"}
  <2> SUFFICES ASSUME Opening, p.file # 0
               PROVE  /\ p.file < h.newest
                      /\ p.to <= Len(saved'[r])
                      /\ ~read'.evicted => h.previous
                      /\ p.file + 1 = h.newest => p.to = h.currentFrom
    BY <1>0 DEF PreviousInv, ReadHeld
  <2>1. /\ p.file < g.newest
        /\ p.to <= Len(saved[r])
        /\ ~read.evicted => g.previous
        /\ p.file + 1 = g.newest => p.to = g.currentFrom
    BY <1>0 DEF PreviousInv
  <2> HIDE DEF Opening
  <2>0. /\ p.file \in Nat /\ p.to \in Nat /\ p.file # 0
        /\ g.newest \in Nat /\ h.newest \in Nat
        /\ Len(saved[r]) \in Nat /\ Len(saved'[r]) \in Nat /\ Len(saved[r]) <= Len(saved'[r])
    BY <1>2, <1>3, <1>5
  <2>01. h = g \/ Evicts(r) \/ Renames(r) \/ Begins(r) \/ g.newest <= 1
    <3>1. Created(r) => g.newest = 0
      BY DEF Created, NoSegments
    <3>2. Discarded(r) => g.newest <= 1
      BY DEF Discarded
    <3>3. g.newest = 0 => g.newest <= 1
      OBVIOUS
    <3> QED
      BY <1>4, <3>1, <3>2, <3>3
  <2>02. /\ Evicts(r) => /\ h.newest = g.newest /\ h.currentFrom = g.currentFrom /\ read'.evicted
         /\ Renames(r) => h.newest = g.newest + 1 /\ h.previous
         /\ Begins(r) => h.newest = g.newest /\ h.currentFrom = g.currentFrom /\ h.previous
    BY DEF Evicts, Kept, Renames, Begins
  <2> HIDE DEF p, g, h, r
  <2>2. p.to <= Len(saved'[r])
    BY <2>0, <2>1
  <2>3. CASE h = g
    BY <1>7, <2>1, <2>2, <2>3
  <2>4. CASE Evicts(r)
    BY <2>1, <2>2, <2>4, <2>02
  <2>5. CASE Renames(r)
    <3>1. h.newest = g.newest + 1 /\ h.previous
      BY <2>5, <2>02
    <3>2. p.file < h.newest /\ p.file + 1 # h.newest
      BY <2>0, <2>1, <3>1
    <3> QED
      BY <2>2, <3>1, <3>2
  <2>6. CASE Begins(r)
    BY <2>1, <2>2, <2>6, <2>02
  <2>7. CASE g.newest <= 1
    <3>1. ~(p.file < g.newest)
      BY <2>0, <2>7
    <3> QED
      BY <2>1, <3>1
  <2> QED
    BY <2>01, <2>3, <2>4, <2>5, <2>6, <2>7
<1>12. CurrentInv'
  <2> DEFINE p == read.previous
             c == read.current
  <2> SUFFICES ASSUME read.at = "open", c.file # 0
               PROVE  /\ c.to <= Len(saved'[r])
                      /\ Trusted /\ ~read.error =>
                             Covered(saved'[read'.session], c.to) + read'.unrecorded >= read'.owed
                      /\ p.file # 0 => /\ p.file < c.file /\ c.file <= h.newest
                                       /\ c.file = h.newest => c.from = h.currentFrom
    BY <1>0, <1>7 DEF CurrentInv, ReadHeld, Told
  <2>1. /\ c.to <= Len(saved[r])
        /\ Trusted /\ ~read.error => Told(c.to)
        /\ p.file # 0 => /\ p.file < c.file /\ c.file <= g.newest
                         /\ c.file = g.newest => c.from = g.currentFrom
    BY <1>0 DEF CurrentInv
  <2>2. c.to <= Len(saved'[r]) /\ c.to \in 0..Len(saved[r])
    BY <1>2, <1>5, <2>1
  <2>3. Trusted /\ ~read.error =>
            Covered(saved'[read'.session], c.to) + read'.unrecorded >= read'.owed
    BY <1>6, <2>1, <2>2
  <2>4. ASSUME p.file # 0
        PROVE  c.file <= h.newest /\ (c.file = h.newest => c.from = h.currentFrom)
    <3>1. p.file < c.file /\ c.file <= g.newest /\ (c.file = g.newest => c.from = g.currentFrom)
      BY <2>1, <2>4
    <3>2. CASE h = g
      BY <3>1, <3>2
    <3>3. CASE Evicts(r)
      BY <3>1, <3>3 DEF Evicts, Kept
    <3>4. CASE Renames(r)
      <4>1. h.newest = g.newest + 1
        BY <3>4 DEF Renames
      <4> QED
        BY <1>2, <1>3, <3>1, <4>1
    <3>5. CASE Begins(r)
      BY <3>1, <3>5 DEF Begins
    <3>6. CASE Created(r) \/ Discarded(r)
      <4>1. g.newest <= 1
        <5>1. Created(r) => g.newest = 0
          BY DEF Created, NoSegments
        <5>2. Discarded(r) => g.newest <= 1
          BY DEF Discarded
        <5> QED
          BY <3>6, <5>1, <5>2
      <4> QED
        BY <1>2, <1>3, <2>4, <3>1, <4>1
    <3> QED
      BY <1>4, <3>2, <3>3, <3>4, <3>5, <3>6
  <2> QED
    BY <2>1, <2>2, <2>3, <2>4
<1>13. FoundInv'
  <2>1. ReadHasNoHole'
    BY <1>0, <1>7 DEF FoundInv, ReadHasNoHole, HasHole, ReadHeld
  <2>2. MissingMeansGone'
    <3> SUFFICES ASSUME read.at = "missing", ~read.evicted, read.settled
                 PROVE  ~h.previous /\ ~h.current
      BY <1>0, <1>7 DEF MissingMeansGone, ReadHeld, OnDisk
    <3>1. ~g.previous /\ ~g.current
      BY <1>0 DEF FoundInv, MissingMeansGone, OnDisk
    <3>2. Discarded(r) => ~h.previous /\ ~h.current
      BY DEF Discarded, NoSegments
    <3> QED
      BY <1>4, <1>8, <3>1, <3>2 DEF Evicts, Kept, Renames, Begins
  <2>3. ASSUME read.at = "found"
        PROVE  /\ Newest'.to <= Len(saved'[r])
               /\ ~read'.evicted /\ Trusted' /\ ~read'.error =>
                      Covered(saved'[read'.session], Newest'.to) + read'.unrecorded >= read'.owed
    <3>1. Newest' = Newest /\ Newest.to \in Nat
      BY <1>0, <1>2 DEF Newest, ReadHeld
    <3>2. /\ Newest.to <= Len(saved[r])
          /\ ~read.evicted /\ Trusted /\ ~read.error => Told(Newest.to)
      BY <1>0, <2>3 DEF FoundInv
    <3>3. Newest'.to <= Len(saved'[r]) /\ Newest.to \in 0..Len(saved[r])
      <4>1. PICK n \in Nat : n = Newest.to
        BY <3>1
      <4> QED
        BY <1>5, <3>1, <3>2, <4>1
    <3>4. read'.error = read.error
      BY <1>0 DEF ReadHeld
    <3>5. ~read'.evicted /\ Trusted' /\ ~read'.error => Told(Newest.to)
      BY <1>7, <3>2, <3>4
    <3> QED
      BY <1>6, <3>1, <3>3, <3>5
  <2> QED
    BY <1>0, <1>7, <2>1, <2>2, <2>3 DEF FoundInv, ReadHeld, Told
<1> QED
  BY <1>10, <1>11, <1>12, <1>13

-----------------------------------------------------------------------------
(* The reader's own steps.                                                 *)

(* A look at the queue keeps it: recorded and counted under one lock,      *)
LEMMA LookStep ==
    ASSUME Typed, WriterInv, MarkingInv, FreshInv, LedgerInv, ReadInv, LookAtQueue
    PROVE  LookInv' /\ PreviousInv' /\ CurrentInv' /\ FoundInv'
<1> DEFINE r == read.session
<1>1. \A s \in Sessions : marking[s] \in Nat
  BY SumsAreNat DEF MarkingInv
<1>2. /\ read.at = "settled" /\ read'.at = "looked"
      /\ (read'.live <=> r \in recording)
      /\ read'.unrecorded = gaps[r] + marking[r]
      /\ GoesOn({"live"})
  BY <1>1, LookAtQueueIs
<1>3. /\ read'.session = r /\ read'.owed = read.owed /\ read'.settled = read.settled
  BY <1>2 DEF GoesOn
<1>4. UNCHANGED <<failures, saved>>
  BY ReadUnread DEF Read
<1>5. AskInv
  BY <1>2 DEF ReadInv
<1>6. r \in Sessions /\ InLog(r) \in Nat /\ gaps[r] \in Nat /\ marking[r] \in Nat
  <2>1. r \in Sessions
    BY <1>2, ReadTyped
  <2> QED
    BY <1>1, <2>1, SumsAreNat DEF Typed
<1>7. ASSUME Trusted', r \notin failures
      PROVE  Covered(saved[r], Len(saved[r])) + (gaps[r] + marking[r]) >= read.owed
  <2>1. ~MarkersMayPanic /\ read.settled /\ r \in recording
    BY <1>2, <1>3, <1>7 DEF Trusted
  <2>2. InLog(r) + gaps[r] + marking[r] >= read.owed
    BY <1>2, <1>5, <1>7, <2>1, LookTells
  <2> HIDE DEF r
  <2>3. InLog(r) + (gaps[r] + marking[r]) = InLog(r) + gaps[r] + marking[r]
    BY <1>6
  <2> QED
    BY <2>2, <2>3 DEF InLog
<1>8. LookInv'
  BY <1>2, <1>3, <1>4, <1>7 DEF LookInv, Told
<1> QED
  BY <1>2, <1>8 DEF PreviousInv, CurrentInv, FoundInv, ReadHasNoHole, MissingMeansGone

(* ... and so does the look for a failure,                                 *)
LEMMA FailureStep ==
    ASSUME Typed, ReadInv, LookForFailure
    PROVE  LookInv' /\ PreviousInv' /\ CurrentInv' /\ FoundInv'
<1> DEFINE r == read.session
<1>1. /\ read.at = "looked" /\ read'.at = "opening"
      /\ r \in failures => read'.error
      /\ GoesOn({"error"})
  BY LookForFailureIs
<1>2. /\ read'.session = r /\ read'.owed = read.owed /\ read'.settled = read.settled
      /\ read'.live = read.live /\ read'.unrecorded = read.unrecorded
  BY <1>1 DEF GoesOn
<1>3. UNCHANGED <<failures, saved>>
  BY ReadUnread DEF Read
<1>4. Trusted => r \in failures \/ Told(Len(saved[r]))
  BY <1>1 DEF ReadInv, LookInv
<1>5. Trusted' = Trusted
  BY <1>2 DEF Trusted
<1>6. LookInv'
  BY <1>1, <1>2, <1>3, <1>4, <1>5 DEF LookInv, Told
<1> QED
  BY <1>1, <1>6 DEF PreviousInv, CurrentInv, FoundInv, ReadHasNoHole, MissingMeansGone

(* ... opening the previous segment,                                       *)
LEMMA PreviousStep ==
    ASSUME Typed, SegmentsInv, ReadInv, OpenPrevious
    PROVE  LookInv' /\ PreviousInv' /\ CurrentInv' /\ FoundInv'
<1> DEFINE r == read.session
           g == segments[r]
<1>1. \A s \in Sessions : segments[s].previous => segments[s].newest > 1
  BY DEF SegmentsInv, SegmentsOf
<1>2. /\ read.at = "opening" /\ read'.at = "half open"
      /\ read'.previous = Opened(g.previous, g.newest - 1, g.previousFrom, g.currentFrom)
      /\ GoesOn({"previous"})
  BY <1>1, OpenPreviousIs
<1>3. /\ read'.session = r /\ read'.owed = read.owed /\ read'.settled = read.settled
      /\ read'.live = read.live /\ read'.unrecorded = read.unrecorded
      /\ read'.error = read.error
  BY <1>2 DEF GoesOn
<1>4. UNCHANGED <<segments, saved>>
  BY ReadUnread DEF Read
<1>5. Trusted /\ ~read.error => Told(Len(saved[r]))
  BY <1>2 DEF ReadInv, LookInv
<1>6. Trusted' = Trusted
  BY <1>3 DEF Trusted
<1>7. LookInv'
  <2>1. read'.at # "looked"
    BY <1>2
  <2> QED
    BY <1>3, <1>4, <1>5, <1>6, <2>1 DEF LookInv, Told
<1>8. PreviousInv'
  <2>1. r \in Sessions
    BY <1>2, ReadTyped
  <2>2. g \in SegmentType /\ SegmentsOf(r)
    BY <2>1 DEF Typed, SegmentsInv
  <2>3. g.newest \in Nat /\ g.currentFrom \in Nat /\ g.currentFrom <= Len(saved[r])
    BY <2>2 DEF SegmentType, SegmentsOf
  <2>4. read'.previous.file # 0 => /\ g.previous
                                   /\ read'.previous.file = g.newest - 1
                                   /\ read'.previous.to = g.currentFrom
    <3>1. read'.previous = Opened(g.previous, g.newest - 1, g.previousFrom, g.currentFrom)
      BY <1>2
    <3> QED
      BY <3>1 DEF Opened, NoFile
  <2>5. g.newest - 1 < g.newest
    BY <2>3
  <2>6. read'.previous.file # 0 => /\ read'.previous.file < g.newest
                                   /\ read'.previous.to <= Len(saved[r])
                                   /\ g.previous
                                   /\ read'.previous.to = g.currentFrom
    BY <2>3, <2>4, <2>5
  <2> QED
    BY <1>3, <1>4, <2>6 DEF PreviousInv
<1>9. CurrentInv' /\ FoundInv'
  <2>1. read'.at \notin {"open", "found", "missing"}
    BY <1>2
  <2> QED
    BY <2>1 DEF CurrentInv, FoundInv, ReadHasNoHole, MissingMeansGone
<1> QED
  BY <1>7, <1>8, <1>9

(* ... opening the current one,                                            *)
LEMMA CurrentStep ==
    ASSUME Typed, SegmentsInv, ReadInv, OpenCurrent
    PROVE  LookInv' /\ PreviousInv' /\ CurrentInv' /\ FoundInv'
<1> DEFINE r == read.session
           g == segments[r]
<1>2. /\ read.at = "half open" /\ read'.at = "open"
      /\ read'.current = Opened(g.current, g.newest, g.currentFrom, Len(saved[r]))
      /\ GoesOn({"current"})
  BY OpenCurrentIs
<1>3. /\ read'.session = r /\ read'.owed = read.owed /\ read'.settled = read.settled
      /\ read'.live = read.live /\ read'.unrecorded = read.unrecorded
      /\ read'.error = read.error /\ read'.previous = read.previous
      /\ read'.evicted = read.evicted
  BY <1>2 DEF GoesOn
<1>4. UNCHANGED <<segments, saved>>
  BY ReadUnread DEF Read
<1>5. Trusted /\ ~read.error => Told(Len(saved[r]))
  BY <1>2 DEF ReadInv, LookInv
<1>6. Trusted' = Trusted
  BY <1>3 DEF Trusted
<1>7. LookInv'
  <2>1. read'.at # "looked"
    BY <1>2
  <2> QED
    BY <1>3, <1>4, <1>5, <1>6, <2>1 DEF LookInv, Told
<1>8. /\ r \in Sessions /\ PreviousInv
      /\ read.previous.file # 0 => read.previous.file < g.newest
  BY <1>2, ReadTyped DEF ReadInv, PreviousInv
<1>9. PreviousInv'
  <2>1. PreviousInv /\ (read.at \in {"half open", "open"})
    BY <1>2, <1>8
  <2> QED
    BY <1>3, <1>4, <2>1 DEF PreviousInv
<1>10. CurrentInv'
  <2>1. Len(saved[r]) \in Nat /\ g.newest \in Nat
    <3>1. saved[r] \in Seq(Int) /\ g \in SegmentType
      BY <1>8 DEF Typed
    <3> QED
      BY <3>1 DEF SegmentType
  <2>2. read'.current.file # 0 => /\ read'.current.file = g.newest
                                  /\ read'.current.from = g.currentFrom
                                  /\ read'.current.to = Len(saved[r])
    <3>1. read'.current = Opened(g.current, g.newest, g.currentFrom, Len(saved[r]))
      BY <1>2
    <3> QED
      BY <3>1 DEF Opened, NoFile
  <2>3. Len(saved[r]) <= Len(saved[r]) /\ g.newest <= g.newest
    BY <2>1
  <2> QED
    BY <1>3, <1>4, <1>5, <1>6, <1>8, <2>2, <2>3 DEF CurrentInv, Told
<1>11. FoundInv'
  BY <1>2 DEF FoundInv, ReadHasNoHole, MissingMeansGone
<1> QED
  BY <1>7, <1>9, <1>10, <1>11

(* ... and beginning again after a rotation.                               *)
LEMMA AgainStep ==
    ASSUME Typed, ReadInv, ReadAgain
    PROVE  LookInv' /\ PreviousInv' /\ CurrentInv' /\ FoundInv'
<1> DEFINE r == read.session
<1>1. /\ read.at = "open" /\ read'.at \in {"opening", "unreadable"}
      /\ GoesOn({"previous", "current"})
  BY ReadAgainIs
<1>2. /\ read'.session = r /\ read'.owed = read.owed /\ read'.settled = read.settled
      /\ read'.live = read.live /\ read'.unrecorded = read.unrecorded
      /\ read'.error = read.error
  BY <1>1 DEF GoesOn
<1>3. saved' = saved
  BY ReadUnread DEF Read
<1>4. Trusted /\ ~read.error => Told(Len(saved[r]))
  BY <1>1 DEF ReadInv, LookInv
<1>5. Trusted' = Trusted
  BY <1>2 DEF Trusted
<1>6. LookInv'
  BY <1>1, <1>2, <1>3, <1>4, <1>5 DEF LookInv, Told
<1> QED
  BY <1>1, <1>6 DEF PreviousInv, CurrentInv, FoundInv, ReadHasNoHole, MissingMeansGone

(* Both segments, as they were when they were opened, were of one moment.  *)
LEMMA FoundStep ==
    ASSUME Typed, SegmentsInv, ReadInv, ReadFound
    PROVE  LookInv' /\ PreviousInv' /\ CurrentInv' /\ FoundInv'
<1> DEFINE r == read.session
           g == segments[r]
           p == read.previous
           c == read.current
<1>1. /\ read.at = "open" /\ BothCurrent
      /\ read'.at = (IF p.file # 0 \/ c.file # 0 THEN "found"
                     ELSE IF read.error THEN "unreadable" ELSE "missing")
      /\ GoesOn({})
  BY ReadFoundIs
<1>2. /\ read'.session = r /\ read'.owed = read.owed /\ read'.settled = read.settled
      /\ read'.live = read.live /\ read'.unrecorded = read.unrecorded
      /\ read'.error = read.error /\ read'.previous = p /\ read'.current = c
      /\ read'.evicted = read.evicted
  BY <1>1 DEF GoesOn
<1>3. UNCHANGED <<segments, saved>>
  BY ReadUnread DEF Read
<1>4. Trusted' = Trusted
  BY <1>2 DEF Trusted
<1>5. read \in ReadType /\ r \in Sessions
  BY <1>1, ReadTyped
<1>6. p.file \in Nat /\ p.to \in Nat /\ c.file \in Nat /\ c.to \in Nat
  BY <1>5 DEF ReadType, FileType
<1>7. /\ g.newest \in Nat /\ g.currentFrom \in Nat /\ Len(saved[r]) \in Nat
      /\ g.previous => g.newest > 1
      /\ g.current => g.newest > 0
      /\ g.previous /\ ~g.current => g.currentFrom = Len(saved[r])
  <2>1. g \in SegmentType /\ SegmentsOf(r) /\ saved[r] \in Seq(Int)
    BY <1>5 DEF Typed, SegmentsInv
  <2> QED
    BY <2>1 DEF SegmentType, SegmentsOf
<1>8. /\ g.previous => p.file = g.newest - 1
      /\ g.current => c.file = g.newest
  BY <1>1 DEF BothCurrent, IsCurrent
<1>9. p.file # 0 => /\ p.file < g.newest
                    /\ p.to <= Len(saved[r])
                    /\ ~read.evicted => g.previous
                    /\ p.file + 1 = g.newest => p.to = g.currentFrom
  <2>1. PreviousInv /\ read.at \in {"half open", "open"}
    BY <1>1 DEF ReadInv
  <2> QED
    BY <2>1 DEF PreviousInv
<1>10. c.file # 0 => /\ c.to <= Len(saved[r])
                     /\ Trusted /\ ~read.error => Told(c.to)
                     /\ p.file # 0 => /\ p.file < c.file /\ c.file <= g.newest
                                      /\ c.file = g.newest => c.from = g.currentFrom
  BY <1>1 DEF ReadInv, CurrentInv
<1>11. Trusted /\ ~read.error => Told(Len(saved[r]))
  BY <1>1 DEF ReadInv, LookInv
<1>12. p.file # 0 /\ ~read.evicted => p.to = g.currentFrom
  <2> SUFFICES ASSUME p.file # 0, ~read.evicted PROVE p.to = g.currentFrom
    OBVIOUS
  <2>1. p.file = g.newest - 1
    BY <1>8, <1>9
  <2>2. p.file + 1 = g.newest
    BY <1>6, <1>7, <2>1
  <2> QED
    BY <1>9, <2>2
<1>13. p.file # 0 /\ c.file # 0 /\ ~read.evicted => p.to = c.from
  <2> SUFFICES ASSUME p.file # 0, c.file # 0, ~read.evicted PROVE p.to = c.from
    OBVIOUS
  <2>1. p.file = g.newest - 1 /\ p.file < c.file /\ c.file <= g.newest
    BY <1>8, <1>9, <1>10
  <2>2. c.file = g.newest
    BY <1>6, <1>7, <2>1
  <2> QED
    BY <1>10, <1>12, <2>2
<1>14. c.file = 0 /\ p.file # 0 /\ ~read.evicted => p.to = Len(saved[r])
  <2> SUFFICES ASSUME c.file = 0, p.file # 0, ~read.evicted PROVE p.to = Len(saved[r])
    OBVIOUS
  <2>1. g.previous
    BY <1>9
  <2>2. ~g.current
    BY <1>7, <1>8
  <2> QED
    BY <1>7, <1>12, <2>1, <2>2
<1>15. p.file = 0 /\ c.file = 0 => ~g.previous /\ ~g.current
  <2>1. p.file = 0 => ~g.previous
    BY <1>7, <1>8
  <2>2. c.file = 0 => ~g.current
    BY <1>7, <1>8
  <2> QED
    BY <2>1, <2>2
<1>16. ReadHasNoHole'
  BY <1>2, <1>13 DEF ReadHasNoHole, HasHole
<1>17. MissingMeansGone'
  <2>1. read'.at = "missing" => p.file = 0 /\ c.file = 0
    BY <1>1
  <2> QED
    BY <1>2, <1>3, <1>15, <2>1 DEF MissingMeansGone, OnDisk
<1>18. ASSUME read'.at = "found"
       PROVE  /\ Newest'.to <= Len(saved[r])
              /\ ~read.evicted /\ Trusted /\ ~read.error => Told(Newest'.to)
  <2>1. p.file # 0 \/ c.file # 0
    BY <1>1, <1>18
  <2>2. CASE c.file # 0
    <3>1. Newest' = c
      BY <1>2, <2>2 DEF Newest
    <3> QED
      BY <1>10, <2>2, <3>1
  <2>3. CASE c.file = 0
    <3>1. Newest' = p /\ p.file # 0
      BY <1>2, <2>1, <2>3 DEF Newest
    <3> QED
      BY <1>9, <1>11, <1>14, <2>3, <3>1
  <2> QED
    BY <2>2, <2>3
<1>19. FoundInv'
  BY <1>2, <1>3, <1>4, <1>16, <1>17, <1>18 DEF FoundInv, Told
<1>20. LookInv' /\ PreviousInv' /\ CurrentInv'
  <2>1. read'.at \in {"found", "missing", "unreadable"}
    BY <1>1
  <2> QED
    BY <2>1 DEF LookInv, PreviousInv, CurrentInv
<1> QED
  BY <1>19, <1>20

(* Every step keeps what is known of a read.                               *)
LEMMA ReadStep ==
    ASSUME Typed, WriterInv, MarkingInv, OrderInv, FreshInv, LedgerInv, SegmentsInv, LogsInv,
           ReadInv, [Next]_vars
    PROVE  ReadInv'
<1> SUFFICES ASSUME read'.at # "none"
             PROVE  AskInv' /\ LookInv' /\ PreviousInv' /\ CurrentInv' /\ FoundInv'
  BY DEF ReadInv
<1>1. AskInv'
  BY AskStep DEF ReadInv
<1>2. CASE LookAtQueue
  BY <1>1, <1>2, LookStep
<1>3. CASE LookForFailure
  BY <1>1, <1>3, FailureStep
<1>4. CASE OpenPrevious
  BY <1>1, <1>4, PreviousStep
<1>5. CASE OpenCurrent
  BY <1>1, <1>5, CurrentStep
<1>6. CASE ReadAgain
  BY <1>1, <1>6, AgainStep
<1>7. CASE ReadFound
  BY <1>1, <1>7, FoundStep
<1>8. ASSUME read'.at \in {"settling", "settled"}
      PROVE  LookInv' /\ PreviousInv' /\ CurrentInv' /\ FoundInv'
  BY <1>8 DEF LookInv, PreviousInv, CurrentInv, FoundInv, ReadHasNoHole, MissingMeansGone
<1>9. CASE Settle \/ SettleTimesOut
  <2>1. PICK b \in BOOLEAN : Settled(b)
    BY <1>9 DEF Settle, SettleTimesOut
  <2>2. read'.at = "settled"
    BY <2>1, SettledIs
  <2> QED
    BY <1>1, <1>8, <2>2
<1>10. CASE \E s \in Sessions : Ask(s)
  <2>1. read'.at = "settling"
    BY <1>10, AskIs
  <2> QED
    BY <1>1, <1>8, <2>1
<1>11. ~ReadReturns
  BY DEF ReadReturns, NoRead
<1>12. CASE ~Reads
  <2>1. ~HostDies
    <3>1. HostDies => read' = NoRead
      BY HostDiesIs
    <3> QED
      BY <3>1 DEF NoRead
  <2>2. read.at # "none"
    BY <1>12, <2>1, NotAsked
  <2> QED
    BY <1>1, <1>12, <2>1, <2>2, HeldStep
<1> QED
  BY <1>2, <1>3, <1>4, <1>5, <1>6, <1>7, <1>9, <1>10, <1>11, <1>12 DEF Reads, Read

-----------------------------------------------------------------------------
(* The invariant, and what follows from it.                                *)

(* The invariant holds at the start: no session, nothing queued, no file.  *)
LEMMA InitImpliesIInv == Init => IInv
<1> SUFFICES ASSUME Init PROVE IInv
  OBVIOUS
<1>1. /\ state = [s \in Sessions |-> "new"] /\ printed = [s \in Sessions |-> 0]
      /\ ops = <<>> /\ cost = 0 /\ recording = {} /\ shutdown = FALSE
      /\ gaps = [s \in Sessions |-> 0] /\ marking = [s \in Sessions |-> 0]
      /\ queued = 0 /\ done = 0
      /\ writer = "looking" /\ batch = <<>> /\ logs = {} /\ dirty = {}
      /\ failures = {} /\ notes = {}
      /\ saved = [s \in Sessions |-> <<>>]
      /\ segments = [s \in Sessions |-> NoSegments]
      /\ read = NoRead /\ host = 1
  BY DEF Init
<1>2. /\ <<>> \in Seq(OpType) /\ <<>> \in Seq(Int) /\ Len(<<>>) = 0 /\ DOMAIN <<>> = {}
      /\ NoSegments \in SegmentType
  BY DEF NoSegments, SegmentType
<1>3. /\ Rest = <<>> /\ DOMAIN batch = {} /\ DOMAIN ops = {} /\ DOMAIN Rest = {}
      /\ Len(batch) = 0 /\ Len(ops) = 0 /\ Len(Rest) = 0
      /\ \A s \in Sessions : saved[s] = <<>> /\ DOMAIN saved[s] = {} /\ Len(saved[s]) = 0
  BY <1>1, <1>2 DEF Rest
<1>4. Typed
  <2>1. state \in [Sessions -> {"new", "running", "ended", "failed to start"}]
    BY <1>1, Zenon
  <2>2. /\ printed \in [Sessions -> Nat] /\ gaps \in [Sessions -> Nat]
        /\ marking \in [Sessions -> Int]
    BY <1>1
  <2>3. /\ saved \in [Sessions -> Seq(Int)] /\ segments \in [Sessions -> SegmentType]
        /\ ops \in Seq(OpType) /\ batch \in Seq(OpType)
    BY <1>1, <1>2
  <2>4. writer \in {"looking", "waiting", "stopped", "applying", "applied", "renamed",
                    "rotated", "enforcing", "unwinding", "failed", "given up"}
    BY <1>1, Zenon
  <2>5. /\ cost \in Nat /\ queued \in Nat /\ done \in Nat /\ shutdown \in BOOLEAN
        /\ recording \subseteq Sessions /\ dirty \subseteq Sessions /\ logs \subseteq Sessions
        /\ failures \subseteq Sessions /\ notes \subseteq Sessions
        /\ read \in ReadType \cup {NoRead}
    BY <1>1
  <2> QED
    BY <2>1, <2>2, <2>3, <2>4, <2>5, Zenon DEF Typed
<1>5. WriterInv
  BY <1>1, <1>3 DEF WriterInv
<1>6. \A s \in Sessions : /\ GapsLeft(s) = 0 /\ GapsQueued(s) = 0 /\ InHand(s) = 0
                          /\ WeightLeft(s) = 0 /\ WeightQueued(s) = 0
                          /\ InLog(s) = 0
  <2>1. \A s : GapsLeft(s) = 0 /\ GapsQueued(s) = 0 /\ WeightLeft(s) = 0 /\ WeightQueued(s) = 0
    BY <1>1, <1>3, NothingLeft
  <2>2. \A s \in Sessions : InHand(s) = 0
    BY <1>1 DEF InHand
  <2>3. \A s \in Sessions : InLog(s) = 0
    BY <1>3, LogNone DEF InLog
  <2> QED
    BY <2>1, <2>2, <2>3
<1>7. MarkingInv
  BY <1>1, <1>6 DEF MarkingInv
<1>8. OrderInv
  BY <1>3 DEF OrderInv, Ordered
<1>9. FreshInv
  BY <1>1, <1>3 DEF FreshInv, Fresh, HasOpen
<1>10. LedgerInv
  <2>1. \A s \in Sessions : Total(s) = printed[s] /\ printed[s] = 0
    BY <1>1, <1>6 DEF Total
  <2>2. \A s \in Sessions : InTurn(s)
    BY <1>3 DEF InTurn
  <2> QED
    BY <1>1, <2>1, <2>2 DEF LedgerInv
<1>11. EndInv
  BY <1>3 DEF EndInv, GapsInPlace, EndMeansWhole
<1>12. SegmentsInv
  <2>1. \A s \in Sessions : /\ segments[s].newest = 0 /\ segments[s].currentFrom = 0
                            /\ ~segments[s].previous /\ ~segments[s].current
    BY <1>1 DEF NoSegments
  <2> QED
    BY <1>1, <1>3, <2>1 DEF SegmentsInv, SegmentsOf
<1>13. LogsInv
  BY <1>1, <1>3 DEF LogsInv, LogsOf, HasOutput
<1>14. BoundInv
  BY <1>1, SizesAssumption DEF BoundInv
<1>15. ReadInv
  BY <1>1 DEF ReadInv, NoRead
<1> QED
  BY <1>4, <1>5, <1>7, <1>8, <1>9, <1>10, <1>11, <1>12, <1>13, <1>14, <1>15 DEF IInv

(* Every step keeps it.                                                    *)
LEMMA NextKeepsIInv == IInv /\ [Next]_vars => IInv'
<1> SUFFICES ASSUME IInv, [Next]_vars PROVE IInv'
  OBVIOUS
<1> USE DEF IInv
<1>1. Typed'
  BY TypedStep
<1>2. WriterInv'
  BY WriterStep
<1>3. MarkingInv'
  BY MarkingStep
<1>4. OrderInv'
  BY OrderStep
<1>5. FreshInv'
  BY FreshStep
<1>6. LedgerInv'
  BY LedgerStep
<1>7. EndInv'
  BY EndStep
<1>8. SegmentsInv'
  BY SegmentsStep
<1>9. LogsInv'
  BY LogsStep
<1>10. BoundInv'
  BY BoundStep
<1>11. ReadInv'
  BY ReadStep
<1> QED
  BY <1>1, <1>2, <1>3, <1>4, <1>5, <1>6, <1>7, <1>8, <1>9, <1>10, <1>11

(* The inductive invariant of the saved transcripts.                       *)
THEOREM Invariance == Spec => []IInv
BY InitImpliesIInv, NextKeepsIInv, PTL DEF Spec

(* Type correctness: among the rest, that no count goes below zero, that   *)
(* no more operations are done than were queued, and that what is unsynced *)
(* belongs to a log that is open.                                          *)
THEOREM TypeCorrect == Spec => []TypeOK
<1>1. IInv => TypeOK
  <2> SUFFICES ASSUME IInv PROVE TypeOK
    OBVIOUS
  <2>1. Typed /\ WriterInv /\ MarkingInv /\ LogsInv
    BY DEF IInv
  <2>2. done \in 0..queued
    <3>1. /\ done \in Nat /\ queued \in Nat /\ Len(batch) \in Nat /\ Len(ops) \in Nat
          /\ done + Len(batch) + Len(ops) <= queued
      BY <2>1, OpsAreTyped DEF Typed, WriterInv
    <3> QED
      BY <3>1
  <2>3. marking \in [Sessions -> Nat]
    <3>1. marking \in [Sessions -> Int]
      BY <2>1 DEF Typed
    <3>2. \A s \in Sessions : marking[s] \in Nat
      BY <2>1, SumsAreNat DEF MarkingInv
    <3> QED
      BY <3>1, <3>2
  <2> QED
    BY <2>1, <2>2, <2>3 DEF Typed, LogsInv, TypeOK, SegmentType
<1> QED
  BY <1>1, Invariance, PTL

(* What is dropped is in the text where it was dropped, as push_data,      *)
(* mark_gap and the order of the queue promise.                            *)
THEOREM GapsAreInPlace == Spec => []GapsInPlace
<1>1. IInv => GapsInPlace
  BY DEF IInv, EndInv
<1> QED
  BY <1>1, Invariance, PTL

(* A log ends with its end marker only if it is whole, so that a later     *)
(* host may trust the marker that write_ended left.                        *)
THEOREM EndIsWhole == Spec => []EndMeansWhole
<1>1. IInv => EndMeansWhole
  BY DEF IInv, EndInv
<1> QED
  BY <1>1, Invariance, PTL

(* No byte is lost between the tap, the queue, the writer's batch, the log *)
(* and the two counts: see push_data, Batch and Marked.                    *)
THEOREM BytesAreCounted == Spec => []EveryByteCounted
<1>1. IInv => EveryByteCounted
  <2> SUFFICES ASSUME IInv, NEW s \in Sessions \ failures, host = 1,
                      writer \notin {"unwinding", "failed"}
               PROVE  Covered(saved[s], Len(saved[s])) + Pending(s) + gaps[s] + marking[s]
                        - Twice(s) = printed[s]
    BY DEF EveryByteCounted
  <2>1. Typed /\ WriterInv /\ MarkingInv /\ LedgerInv
    BY DEF IInv
  <2>2. InLog(s) + WeightLeft(s) + WeightQueued(s) + gaps[s] = printed[s]
    <3>1. Owns(s) /\ Sound(s)
      BY DEF Owns, Sound, Interrupted
    <3> QED
      BY <2>1, <3>1 DEF LedgerInv, Total
  <2>3. /\ marking[s] = GapsLeft(s) + GapsQueued(s) + InHand(s)
        /\ GapsLeft(s) \in Nat /\ WeightLeft(s) \in Nat
        /\ GapsQueued(s) \in Nat /\ WeightQueued(s) \in Nat
        /\ InLog(s) \in Nat /\ InHand(s) \in Nat /\ gaps[s] \in Nat
    BY <2>1, SumsAreNat DEF MarkingInv, Typed
  <2>4. /\ ChunksIn(ops, s, Len(ops)) \in Nat
        /\ WeightQueued(s) = ChunksIn(ops, s, Len(ops)) + GapsQueued(s)
    <3>1. ops \in Seq(OpType) /\ Len(ops) \in 0..Len(ops)
      <4>1. ops \in Seq(OpType)
        BY <2>1 DEF Typed
      <4> QED
        BY <4>1
    <3>2. ChunksIn(ops, s, Len(ops)) \in Nat
      BY <3>1, QueueNat
    <3> QED
      BY <3>2 DEF WeightQueued, GapsQueued, Weight
  <2>5. /\ ChunksIn(batch, s, Len(batch)) \in Nat
        /\ Twice(s) \in Nat
        /\ WeightLeft(s) + Twice(s) = ChunksIn(batch, s, Len(batch)) + GapsLeft(s) + InHand(s)
    <3>1. batch \in Seq(OpType) /\ Len(batch) \in 0..Len(batch)
      <4>1. batch \in Seq(OpType)
        BY <2>1 DEF Typed
      <4> QED
        BY <4>1
    <3>2. /\ ChunksIn(batch, s, Len(batch)) \in Nat /\ GapsIn(batch, s, Len(batch)) \in Nat
          /\ Weight(batch, s, Len(batch))
               = ChunksIn(batch, s, Len(batch)) + GapsIn(batch, s, Len(batch))
      BY <3>1, QueueNat DEF Weight
    <3>3. CASE ~Written
      <4>1. /\ WeightLeft(s) = Weight(batch, s, Len(batch))
            /\ GapsLeft(s) = GapsIn(batch, s, Len(batch))
        BY <2>1, <3>3, RestIs DEF WeightLeft, GapsLeft
      <4>2. InHand(s) = 0 /\ Twice(s) = 0
        BY <3>3 DEF InHand, Twice, Written
      <4> QED
        BY <2>3, <3>2, <4>1, <4>2
    <3>4. CASE Written
      <4>1. batch # <<>> /\ Rest = Tail(batch) /\ writer \in {"enforcing", "applied"}
        BY <2>1, <3>4, RestIs DEF Written
      <4>2. PICK n \in 0..Len(batch) - 1 : n + 1 = Len(batch) /\ n = Len(Tail(batch))
        <5>1. Len(batch) \in Nat /\ Len(batch) > 0 /\ Len(Tail(batch)) = Len(batch) - 1
          BY <2>1, <4>1, HeadIs
        <5>2. /\ Len(batch) - 1 \in 0..Len(batch) - 1
              /\ (Len(batch) - 1) + 1 = Len(batch)
          BY <5>1
        <5> QED
          BY <5>1, <5>2
      <4>3. /\ Weight(batch, s, Len(batch)) = WeightOf(Current, s) + WeightLeft(s)
            /\ GapsIn(batch, s, Len(batch)) = GapOf(Current, s) + GapsLeft(s)
        <5>1. /\ Weight(batch, s, n + 1) = WeightOf(batch[1], s) + Weight(Tail(batch), s, n)
              /\ GapsIn(batch, s, n + 1) = GapOf(batch[1], s) + GapsIn(Tail(batch), s, n)
          BY <3>1, <4>1, QueueTail
        <5>2. Current = batch[1]
          BY <2>1, <4>1, HeadIs
        <5> QED
          BY <4>1, <4>2, <5>1, <5>2 DEF WeightLeft, GapsLeft
      <4>4. Current.n \in Nat /\ Current.op \in {"Open", "Data", "Gap", "Close", "Discard"}
        BY <2>1, <4>1, HeadIs
      <4>5. /\ InHand(s) = GapOf(Current, s) /\ Twice(s) = WeightOf(Current, s)
            /\ GapOf(Current, s) \in Nat /\ WeightOf(Current, s) \in Nat
        BY <4>1, <4>4 DEF InHand, GapOf, Twice, WeightOf
      <4>6. /\ WeightLeft(s) + Twice(s) = Weight(batch, s, Len(batch))
            /\ GapsLeft(s) + InHand(s) = GapsIn(batch, s, Len(batch))
        <5>1. WeightLeft(s) \in Nat /\ GapsLeft(s) \in Nat
          BY <2>3
        <5> QED
          BY <4>3, <4>5, <5>1
      <4>7. GapsLeft(s) \in Nat /\ InHand(s) \in Nat
        BY <2>3
      <4>8. Twice(s) \in Nat
        BY <4>5
      <4> QED
        BY <3>2, <4>6, <4>7, <4>8
    <3> QED
      BY <3>3, <3>4
  <2>6. Pending(s) = ChunksIn(batch, s, Len(batch)) + ChunksIn(ops, s, Len(ops))
    BY DEF Pending
  <2>7. PICK m \in Nat : m = gaps[s]
    BY <2>3
  <2>8. PICK p \in Int : p = printed[s]
    BY <2>2, <2>3
  <2> DEFINE log == InLog(s)
             left == WeightLeft(s)
             waiting == WeightQueued(s)
             twice == Twice(s)
             chunks == ChunksIn(batch, s, Len(batch))
             later == ChunksIn(ops, s, Len(ops))
             gapsLeft == GapsLeft(s)
             gapsLater == GapsQueued(s)
             inHand == InHand(s)
  <2>9. /\ log \in Nat /\ left \in Nat /\ waiting \in Nat /\ twice \in Nat /\ chunks \in Nat
        /\ later \in Nat /\ gapsLeft \in Nat /\ gapsLater \in Nat /\ inHand \in Nat
    BY <2>3, <2>4, <2>5
  <2>10. /\ log + left + waiting + m = p /\ waiting = later + gapsLater
         /\ left + twice = chunks + gapsLeft + inHand
    BY <2>2, <2>4, <2>5, <2>7, <2>8
  <2>11. /\ Covered(saved[s], Len(saved[s])) = log /\ Pending(s) = chunks + later
         /\ marking[s] = gapsLeft + gapsLater + inHand
    BY <2>3, <2>6 DEF InLog
  <2> HIDE DEF log, left, waiting, twice, chunks, later, gapsLeft, gapsLater, inHand
  <2>12. log + (chunks + later) + m + (gapsLeft + gapsLater + inHand) - twice = p
    BY <2>9, <2>10
  <2> QED
    BY <2>7, <2>8, <2>11, <2>12 DEF twice
<1> QED
  BY <1>1, Invariance, PTL

(* The queue is over its bound by one marker's cost at most, and a segment *)
(* that is written to is never longer than it may be, whatever fails.      *)
THEOREM BoundsHold == Spec => []StaysBounded
<1>1. IInv => StaysBounded
  BY DEF IInv, BoundInv, SegmentsInv, SegmentsOf, StaysBounded
<1> QED
  BY <1>1, Invariance, PTL

(* A read whose two segments were opened on either side of a rotation      *)
(* notices it: is_current, asked of both once both are open, is enough.    *)
THEOREM ReadIsWhole == Spec => []ReadHasNoHole
<1>1. IInv => ReadHasNoHole
  BY DEF IInv, ReadInv, FoundInv, ReadHasNoHole
<1> QED
  BY <1>1, Invariance, PTL

(* A read that answers that nothing is saved is right at that moment.      *)
THEOREM MissingIsGone == Spec => []MissingMeansGone
<1>1. IInv => MissingMeansGone
  BY DEF IInv, ReadInv, FoundInv, MissingMeansGone
<1> QED
  BY <1>1, Invariance, PTL

(* What a settled read that complains of nothing leaves out is in its      *)
(* count, so long as no append of a marker panics: liveness and the count  *)
(* are taken at one moment, before the text.                               *)
THEOREM NothingIsLeftOut ==
    ASSUME ~MarkersMayPanic
    PROVE  Spec => []ReadLeavesNothingOut
<1>1. IInv => ReadLeavesNothingOut
  <2> SUFFICES ASSUME IInv, read.at = "found", ~read.evicted, read.settled, ~Complains
               PROVE  AccountsForAll
    BY DEF ReadLeavesNothingOut
  <2> DEFINE r == read.session
  <2>1. Typed /\ EndInv /\ AskInv /\ FoundInv /\ ~read.error
    BY DEF IInv, ReadInv, Complains
  <2>2. read \in ReadType /\ r \in Sessions
    BY <2>1, ReadTyped
  <2>3. CASE read.live
    <3>1. Trusted
      BY <2>3 DEF Trusted
    <3> QED
      BY <2>1, <3>1 DEF FoundInv, Told, AccountsForAll
  <2>4. CASE SawEnd
    <3>1. /\ Newest.to > 0 /\ saved[r][Newest.to] = End /\ Newest.to <= Len(saved[r])
      BY <2>1, <2>4 DEF SawEnd, FoundInv
    <3>2. Newest.to \in Nat
      BY <2>2 DEF Newest, ReadType, FileType
    <3>3. saved[r] \in Seq(Int)
      BY <2>1, <2>2 DEF Typed
    <3>4. Newest.to \in DOMAIN saved[r]
      <4>1. PICK n \in Nat : n = Newest.to
        BY <3>2
      <4> QED
        BY <3>1, <3>3, <4>1
    <3>5. Covered(saved[r], Newest.to) = printed[r]
      BY <2>1, <2>2, <3>1, <3>4 DEF EndInv, EndMeansWhole
    <3>6. printed[r] \in Nat /\ read.owed \in Nat /\ read.unrecorded \in Nat
          /\ read.owed <= printed[r]
      BY <2>1, <2>2 DEF Typed, ReadType, AskInv
    <3>7. PICK c \in Nat : c = Covered(saved[r], Newest.to) /\ c = printed[r]
      BY <3>5, <3>6
    <3>8. c + read.unrecorded >= read.owed
      BY <3>6, <3>7
    <3> QED
      BY <3>7, <3>8 DEF AccountsForAll
  <2> QED
    BY <2>3, <2>4 DEF Complains
<1> QED
  BY <1>1, Invariance, PTL

=============================================================================
