------------------------------ MODULE RefCache ------------------------------
(***************************************************************************)
(* Answers kept against a stamp of the files they are a function of, and   *)
(* one run of a slow question for all who ask it at once                   *)
(* (src-tauri/src/engine/ref_cache.rs, src-tauri/src/singleflight.rs):     *)
(* one question, of one repository, in one admission class.                *)
(*                                                                         *)
(* Of the stamped files the model keeps two: `base`, which is always there *)
(* (HEAD, config), and `opt`, which comes and goes (refs/stash, shallow).  *)
(* What a file holds is a version number; its identity is the tick of its  *)
(* last write, so that two writes within one tick are told apart by nobody *)
(* (in-place appends, an inode used again).  Git and the walk read one     *)
(* file after the other.                                                   *)
(*                                                                         *)
(* An entry may be gone or have expired at any look, since other questions *)
(* evict it and TTL passes: a miss is always possible.  Clocks do not step *)
(* back, and no file is given a false time.                                *)
(***************************************************************************)
EXTENDS Naturals

CONSTANTS
    Calls,          \* calls of `through`, `through_stamped[_coalesced]`
    Window,         \* RACY_WINDOW, in ticks of the file system's clock
    MaxWrites,      \* bound: changes of the two files
    MaxClock        \* bound: ticks

ASSUME RacyAssumption == Window \in Nat \ {0}
ASSUME CallsAssumption == "nobody" \notin Calls

VARIABLES
    clock,
    base, opt,      \* the files: what they hold and when it was written
    writes,         \* changes so far, and the name of the next version
    kept,           \* the entry of the table, NoAnswer if there is none
    leads,          \* calls whose flight is in the map, under their stamp
    step, stamp,    \* where each call is, and what its walk found
    sure,           \* its stamp had settled when it looked
    got,            \* what git has read for it, then its answer
    joined,         \* the call whose flight it waits for
    seen            \* history: what was current at some moment of the call

files == <<clock, base, opt, writes>>
vars == <<files, kept, leads, step, stamp, sure, got, joined, seen>>

Absent == [version |-> 0, time |-> 0]      \* stamped as "absent", holds nothing
NoStamp == [base |-> 0, opt |-> 0]         \* the walk could not describe it
Nobody == "nobody"
NoAnswer == [base |-> 0, opt |-> 0, stamp |-> NoStamp, sure |-> FALSE]

Init ==
    /\ clock = 1 + Window /\ writes = 1
    /\ base = [version |-> 1, time |-> 1] /\ opt = Absent
    /\ kept = NoAnswer /\ leads = {}
    /\ step = [c \in Calls |-> "new"]
    /\ stamp = [c \in Calls |-> NoStamp]
    /\ sure = [c \in Calls |-> FALSE]
    /\ got = [c \in Calls |-> NoAnswer]
    /\ joined = [c \in Calls |-> Nobody]
    /\ seen = [c \in Calls |-> [base |-> {}, opt |-> {}]]

-----------------------------------------------------------------------------
(* The world: git, an editor, an agent write the files; time passes.       *)

InProgress(c) == step[c] \notin {"new", "done", "panicked"}

\* Every call in progress lives through what is current now.
Lived(b, o) ==
    [c \in Calls |-> IF InProgress(c)
                     THEN [base |-> seen[c].base \cup {b}, opt |-> seen[c].opt \cup {o}]
                     ELSE seen[c]]

Change ==
    /\ writes < MaxWrites
    /\ writes' = writes + 1
    /\ seen' = Lived(base'.version, opt'.version)
    /\ UNCHANGED <<clock, kept, leads, step, stamp, sure, got, joined>>

Written == [version |-> writes + 1, time |-> clock]

WriteBase == base' = Written /\ UNCHANGED opt /\ Change
WriteOpt == opt' = Written /\ UNCHANGED base /\ Change
RemoveOpt == opt # Absent /\ opt' = Absent /\ UNCHANGED base /\ Change

Tick ==
    /\ clock < MaxClock
    /\ clock' = clock + 1
    /\ UNCHANGED <<base, opt, writes, kept, leads, step, stamp, sure, got, joined, seen>>

-----------------------------------------------------------------------------
(* A call reads its stamp, and looks the answer up or joins a run for it.  *)

Goes(c, to) == step' = [step EXCEPT ![c] = to]

\* With what it has got: a leader first leaves that for its followers.
Ends(c) == Goes(c, IF c \in leads THEN "retiring" ELSE "done")

\* RefStamp::read, the files that are leaves first.
Begin(c) ==
    /\ step[c] = "new"
    /\ stamp' = [stamp EXCEPT ![c].base = base.time]
    /\ seen' = [seen EXCEPT ![c] = [base |-> {base.version}, opt |-> {opt.version}]]
    /\ Goes(c, "walking")
    /\ UNCHANGED <<files, kept, leads, sure, got, joined>>

\* The rest of the walk: through and through_stamped look it up at once.
Stamped(c) ==
    /\ step[c] = "walking"
    /\ stamp' = [stamp EXCEPT ![c].opt = opt.time]
    /\ Goes(c, "looking") \/ Goes(c, "asking")
    /\ UNCHANGED <<files, kept, leads, sure, got, joined, seen>>

\* A link, too many entries, a write in flight.
NotStamped(c) ==
    /\ step[c] = "walking"
    /\ stamp' = [stamp EXCEPT ![c] = NoStamp]
    /\ Goes(c, "looking")
    /\ UNCHANGED <<files, kept, leads, sure, got, joined, seen>>

Flying(s) == {l \in leads : stamp[l] = s}

\* SingleFlight::run: the map's lock decides who leads.
Lead(c) ==
    /\ step[c] = "asking" /\ Flying(stamp[c]) = {}
    /\ leads' = leads \cup {c}
    /\ Goes(c, "looking")
    /\ UNCHANGED <<files, kept, stamp, sure, got, joined, seen>>

Join(c) ==
    /\ step[c] = "asking"
    /\ \E l \in Flying(stamp[c]) : joined' = [joined EXCEPT ![c] = l]
    /\ Goes(c, "waiting")
    /\ UNCHANGED <<files, kept, leads, stamp, sure, got, seen>>

FaultySettled(s) == s # NoStamp   \* two writes of one tick look alike

Settled(s) ==
    /\ s # NoStamp
    /\ clock >= s.base + Window /\ clock >= s.opt + Window

Hit(c) ==
    /\ step[c] = "looking"
    /\ Settled(stamp[c]) /\ kept # NoAnswer /\ kept.stamp = stamp[c]
    /\ got' = [got EXCEPT ![c] = kept]
    /\ Ends(c)
    /\ UNCHANGED <<files, kept, leads, stamp, sure, joined, seen>>

Miss(c) ==
    /\ step[c] = "looking"
    /\ sure' = [sure EXCEPT ![c] = Settled(stamp[c])]
    /\ Goes(c, "running")
    /\ UNCHANGED <<files, kept, leads, stamp, got, joined, seen>>

\* The git child.
ReadsBase(c) ==
    /\ step[c] = "running"
    /\ got' = [got EXCEPT ![c] = [base |-> base.version, opt |-> 0,
                                  stamp |-> stamp[c], sure |-> sure[c]]]
    /\ Goes(c, "reading")
    /\ UNCHANGED <<files, kept, leads, stamp, sure, joined, seen>>

ReadsOpt(c) ==
    /\ step[c] = "reading"
    /\ got' = [got EXCEPT ![c].opt = opt.version]
    /\ Goes(c, "ran")
    /\ UNCHANGED <<files, kept, leads, stamp, sure, joined, seen>>

\* It fails, or the repository is not trusted: nothing is kept.
Fails(c) ==
    /\ step[c] \in {"looking", "running", "reading"}
    /\ got' = [got EXCEPT ![c] = NoAnswer]
    /\ Ends(c)
    /\ UNCHANGED <<files, kept, leads, stamp, sure, joined, seen>>

\* Kept under the stamp read before it ran, in the place of an older answer.
Keep(c) ==
    /\ step[c] = "ran" /\ sure[c]
    /\ kept' = got[c]
    /\ Ends(c)
    /\ UNCHANGED <<files, leads, stamp, sure, got, joined, seen>>

\* Not settled, cut short, or too large.
DoNotKeep(c) ==
    /\ step[c] = "ran"
    /\ Ends(c)
    /\ UNCHANGED <<files, kept, leads, stamp, sure, got, joined, seen>>

\* Another question's answer takes its place.
Evict ==
    /\ kept # NoAnswer
    /\ kept' = NoAnswer
    /\ UNCHANGED <<files, leads, step, stamp, sure, got, joined, seen>>

-----------------------------------------------------------------------------
(* The end of a flight, and its followers.                                 *)

\* The run panics, and what unwinds retires the flight.
Panics(c) ==
    /\ step[c] \in {"looking", "running", "reading", "ran"}
    /\ got' = [got EXCEPT ![c] = NoAnswer]
    /\ Goes(c, IF c \in leads THEN "unwinding" ELSE "panicked")
    /\ UNCHANGED <<files, kept, leads, stamp, sure, joined, seen>>

Over(c) == Goes(c, IF step[c] = "retiring" THEN "done" ELSE "panicked")

FaultyRetire(c) ==             \* not run by a panic
    /\ step[c] = "retiring"
    /\ leads' = leads \ {c}
    /\ Over(c)
    /\ UNCHANGED <<files, kept, stamp, sure, got, joined, seen>>

\* Leader::drop.
Retire(c) ==
    /\ step[c] \in {"retiring", "unwinding"}
    /\ leads' = leads \ {c}
    /\ Over(c)
    /\ UNCHANGED <<files, kept, stamp, sure, got, joined, seen>>

HasAnswered(l) == step[l] \in {"retiring", "done"}

\* Woken, or looking again after 50 ms.
Follow(c) ==
    /\ step[c] = "waiting" /\ HasAnswered(joined[c])
    /\ got' = [got EXCEPT ![c] = got[joined[c]]]
    /\ Goes(c, "done")
    /\ UNCHANGED <<files, kept, leads, stamp, sure, joined, seen>>

\* No answer, and no flight under the key, its leader's or a later one.
AskAgain(c) ==
    /\ step[c] = "waiting" /\ ~HasAnswered(joined[c]) /\ Flying(stamp[c]) = {}
    /\ joined' = [joined EXCEPT ![c] = Nobody]
    /\ Goes(c, "asking")
    /\ UNCHANGED <<files, kept, leads, stamp, sure, got, seen>>

-----------------------------------------------------------------------------
World == WriteBase \/ WriteOpt \/ RemoveOpt \/ Tick

Proceeds(c) ==
    \/ Stamped(c) \/ NotStamped(c) \/ Lead(c) \/ Join(c) \/ Hit(c) \/ Miss(c)
    \/ ReadsBase(c) \/ ReadsOpt(c) \/ Fails(c) \/ Keep(c) \/ DoNotKeep(c)
    \/ Panics(c) \/ Retire(c) \/ Follow(c) \/ AskAgain(c)

Next == World \/ Evict \/ \E c \in Calls : Begin(c) \/ Proceeds(c)

Spec == Init /\ [][Next]_vars

(* A call that has begun goes on: its walk and its child end (each child   *)
(* has a deadline), and a follower looks every 50 ms.                      *)
FairSpec == Spec /\ \A c \in Calls : WF_vars(Proceeds(c))

-----------------------------------------------------------------------------
(* Properties.                                                             *)

Steps == {"new", "walking", "asking", "waiting", "looking", "running", "reading",
          "ran", "retiring", "unwinding", "done", "panicked"}
File == [version : Nat, time : Nat]
Stamps == [base : Nat, opt : Nat]
Answers == [base : Nat, opt : Nat, stamp : Stamps, sure : BOOLEAN]

TypeOK ==
    /\ clock \in Nat /\ writes \in Nat /\ base \in File /\ opt \in File
    /\ kept \in Answers /\ leads \subseteq Calls
    /\ step \in [Calls -> Steps] /\ stamp \in [Calls -> Stamps]
    /\ sure \in [Calls -> BOOLEAN] /\ got \in [Calls -> Answers]
    /\ joined \in [Calls -> Calls \cup {Nobody}]
    /\ seen \in [Calls -> [base : SUBSET Nat, opt : SUBSET Nat]]

IsAnswered(c) == step[c] = "done" /\ got[c] # NoAnswer

\* A run that its caller joined though its stamp had not settled.
JoinedTooEarly(c) == joined[c] # Nobody /\ ~got[c].sure

\* The stamp saw no file where git then found one, and there was none again.
IsPhantom(a) == a.stamp.opt = 0 /\ a.opt # 0

(* The rules that keep a stale answer from ever being served               *)
(* (ref_cache.rs:10): whatever writes race the walk, the child and the     *)
(* lookup, a caller is answered with what each file held at some moment of *)
(* its own call, also when the answer was kept or another's.  Two cases    *)
(* are excepted: see FilesTellAll and JoinersAreCurrent.                   *)
AnswersAreCurrent ==
    \A c \in Calls : IsAnswered(c) /\ ~JoinedTooEarly(c) =>
        /\ got[c].base \in seen[c].base
        /\ got[c].opt \in seen[c].opt \/ IsPhantom(got[c])

(* What a leader does, and whether it panics, leaves nobody waiting: each  *)
(* call that began ends (singleflight.rs, Leader).                         *)
EveryCallEnds ==
    \A c \in Calls : step[c] # "new" ~> step[c] \in {"done", "panicked"}

(* The claim of ref_cache.rs:12-14: a write that races the child leaves    *)
(* the files different from the stamp, so the next caller misses.          *)
FilesTellAll ==
    \A c \in Calls : IsAnswered(c) /\ joined[c] = Nobody => got[c].opt \in seen[c].opt

(* The claim of through_stamped_coalesced: a caller that wrote to the      *)
(* repository after the run began never inherits its answer.               *)
JoinersAreCurrent ==
    \A c \in Calls : IsAnswered(c) => got[c].base \in seen[c].base

=============================================================================
