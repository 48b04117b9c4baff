-------------------------- MODULE ArchiveTheorems ---------------------------
(* The pin and retire protocol of Archive, proved for every instance.      *)
EXTENDS Archive, FiniteSetTheorems, TLAPS

Lives == [pins : SUBSET Readers, retired : BOOLEAN, closing : BOOLEAN, reaped : BOOLEAN]
Ops == {"idle", "rotate", "truncate", "merge", "rewrite", "intern", "upgrade"}
Ats == {"rest", "reap", "pick", "staged", "marking", "marked", "renamed", "next", "built"}
Passes == [op : Ops, at : Ats, todo : SUBSET Files, src : 0 .. MaxFiles,
           run : SUBSET Files, out : 0 .. MaxFiles, reap : SUBSET Files, changed : BOOLEAN]
Disks == [seg : SUBSET Files, tmp : SUBSET Files,
          marker : SUBSET [out : 0 .. MaxFiles, srcs : SUBSET Files]]

\* what the protocol's variables range over
LifeType ==
  /\ life \in [Files -> Lives]
  /\ rd = [r \in Readers |-> rd[r]]
  /\ counter \in 0 .. MaxFiles
  /\ segs \in Seq(0 .. MaxFiles)
  /\ m \in Passes
  /\ disk \in Disks

Sound(l) == ~l.retired /\ ~l.closing /\ ~l.reaped

Staging == {"staged", "marking", "marked", "renamed"}

\* a window's file is pinned, and a pinned file was handed out and is mapped
PinInv ==
  /\ \A r \in Readers : \A win \in rd[r].wins : win.f \in Files /\ r \in life[win.f].pins
  /\ \A f \in Files : life[f].reaped => life[f].pins = {}
  /\ \A f \in Files : life[f].pins # {} => f <= counter

\* what is in a slot, about to be replaced or about to replace is not retired
SlotInv ==
  /\ \A i \in 1 .. Len(segs) : segs[i] <= counter
  /\ proc = "up" => \A i \in 1 .. Len(segs) : segs[i] # None => Sound(life[segs[i]])
  /\ \A f \in m.todo \cup m.run : f <= counter
  /\ \A f \in m.todo : Sound(life[f])
  /\ m.at \in Staging => \A f \in m.run : Sound(life[f])
  /\ m.at \in Staging => \A i \in 1 .. Len(segs) : segs[i] # m.out
  /\ m.at \in Staging \cup {"built"} =>
       m.out # None /\ m.out <= counter /\ Sound(life[m.out]) /\ m.out \notin m.run
  /\ m.at = "built" => m.src # None /\ m.src # m.out /\ Sound(life[m.src]) /\ m.src \notin m.todo

\* the phases of a pass, of the process and of the directory
PhaseInv ==
  /\ m.op = "idle" => m = Idle
  /\ m.at \in Staging \cup {"pick"} => m.op = "merge" /\ m.reap = {}
  /\ m.op = "merge" => m.todo = {} /\ m.at # "built"
  /\ m.at \in {"staged", "marking", "marked"} => m.out \notin disk.seg
  /\ proc # "down" => \A f \in disk.seg : f <= counter
  /\ proc # "up" => m = Idle
  /\ proc = "down" => /\ life = [f \in Files |-> Mapped]
                      /\ \A r \in Readers : rd[r].wins = {}

LifeInv == LifeType /\ PinInv /\ SlotInv /\ PhaseInv /\ RetiredUnlinked

\* Consequences of the types that the steps below use.
LEMMA TypeFacts ==
  ASSUME LifeType
  PROVE  /\ MaxFiles \in Nat /\ counter \in Nat
         /\ \A f \in Files : f \in Nat /\ f # None /\ life[f] \in Lives
         /\ \A i \in 1 .. Len(segs) : segs[i] \in 0 .. MaxFiles
  BY FilesAssumption DEF LifeType, Files, None

\* The resting states of the pass and of a mapping have their types.
LEMMA RestFacts == Idle \in Passes /\ Mapped \in Lives
  BY FilesAssumption DEF Idle, Passes, Ops, Ats, Mapped, Lives, None

\* The initial state satisfies the invariant.
LEMMA InitLife == Init => LifeInv
  <1> SUFFICES ASSUME Init PROVE LifeInv
    OBVIOUS
  <1> USE FilesAssumption DEF Init
  <1>1. LifeType
    BY RestFacts DEF LifeType, Disks
  <1>2. PinInv
    BY Zenon DEF PinInv, NotReading, Mapped
  <1>3. SlotInv
    BY DEF SlotInv, Idle, Staging, None
  <1>4. PhaseInv
    BY Zenon DEF PhaseInv, Idle, Staging
  <1>5. RetiredUnlinked
    BY Zenon DEF RetiredUnlinked
  <1>6. QED
    BY Zenon, <1>1, <1>2, <1>3, <1>4, <1>5 DEF LifeInv

\* Steps that leave the slots, the mappings, the readers and the pass alone.
LEMMA OutsideLife ==
  ASSUME LifeInv,
         UNCHANGED <<life, rd, counter, segs, m, disk, proc>>
  PROVE  LifeInv'
  BY DEF LifeInv, LifeType, PinInv, SlotInv, PhaseInv, RetiredUnlinked, Sound, Disks, Passes, Lives, Files

\* Put: a commit into the active segment or into a fresh one.
LEMMA CommitLife ==
  ASSUME LifeInv, Commit
  PROVE  LifeInv'
  <1>0. /\ MaxFiles \in Nat /\ counter \in Nat
        /\ \A f \in Files : f \in Nat /\ f # None /\ life[f] \in Lives
        /\ \A i \in 1 .. Len(segs) : segs[i] \in 0 .. MaxFiles
    BY Zenon, TypeFacts DEF LifeInv
  <1>1. CASE ~Rolls
    <2>1. UNCHANGED <<life, rd, counter, segs, m, disk, proc>>
      BY Zenon, <1>1 DEF Commit
    <2>2. QED
      BY Zenon, <2>1, OutsideLife
  <1>2. CASE Rolls
    <2>1. PICK new \in Files :
          /\ new = counter + 1 /\ counter' = new /\ proc = "up" /\ proc' = proc
          /\ life' = [life EXCEPT ![new] = Mapped]
          /\ segs' = Append(segs, new)
          /\ disk' = [disk EXCEPT !.seg = @ \cup {new}]
          /\ m' = m /\ rd' = rd
      BY SMTT(30), <1>0, <1>2 DEF Commit, Files, LifeType, LifeInv
    <2>2. LifeType'
      <3>1. life' \in [Files -> Lives]
        BY Zenon, <2>1, RestFacts DEF LifeInv, LifeType
      <3>2. segs' \in Seq(0 .. MaxFiles)
        BY SMTT(30), <1>0, <2>1 DEF LifeInv, LifeType, Files
      <3>3. disk' \in Disks
        BY Zenon, <2>1 DEF LifeInv, LifeType, Disks
      <3>4. QED
        BY SMTT(30), <1>0, <2>1, <3>1, <3>2, <3>3 DEF LifeInv, LifeType, Files
    <2>3. life'[new] = Mapped /\ \A f \in Files : f # new => life'[f] = life[f]
      BY Zenon, <2>1 DEF LifeInv, LifeType
    <2>4. PinInv'
      BY SMTT(30), <1>0, <2>1, <2>3 DEF LifeInv, PinInv, Mapped
    <2>5. \A f \in Files : Sound(life[f]) => Sound(life'[f])
      BY SMTT(30), <2>3 DEF Sound, Mapped
    <2>6. Sound(life'[new])
      BY SMTT(30), <2>3 DEF Sound, Mapped
    <2>7. SlotInv'
      <3>1. \A i \in 1 .. Len(segs') : segs'[i] = new \/ (i \in 1 .. Len(segs) /\ segs'[i] = segs[i])
        BY SMTT(30), <2>1 DEF LifeInv, LifeType
      <3>2. \A i \in 1 .. Len(segs') : segs'[i] <= counter'
        BY SMTT(30), <1>0, <3>1, <2>1 DEF LifeInv, SlotInv
      <3>3. \A i \in 1 .. Len(segs') : segs'[i] # None => Sound(life'[segs'[i]])
        BY SMTT(30), <1>0, <3>1, <2>1, <2>5, <2>6 DEF LifeInv, SlotInv, Files, None
      <3>4. m.at \in Staging => \A i \in 1 .. Len(segs') : segs'[i] # m.out
        BY SMTT(30), <1>0, <3>1, <2>1 DEF LifeInv, SlotInv
      <3>5. QED
        BY SMTT(30), <1>0, <2>1, <2>5, <3>2, <3>3, <3>4 DEF LifeInv, LifeType, SlotInv, Passes, Files, None
    <2>8. PhaseInv'
      BY SMTT(30), <1>0, <2>1 DEF LifeInv, LifeType, PhaseInv, Disks, SlotInv, Staging
    <2>9. RetiredUnlinked'
      BY Zenon, <2>1, <2>3 DEF LifeInv, LifeType, RetiredUnlinked, Mapped, Disks
    <2>10. QED
      BY Zenon, <2>2, <2>4, <2>7, <2>8, <2>9 DEF LifeInv
  <1>3. QED
    BY Zenon, <1>1, <1>2

\* What a file number handed out by a pass does to the mappings.
LEMMA FreshFile ==
  ASSUME LifeInv, NEW new \in Files, new = counter + 1, counter' = new,
         life' = [life EXCEPT ![new] = Mapped], rd' = rd
  PROVE  /\ life' \in [Files -> Lives] /\ PinInv'
         /\ life'[new] = Mapped /\ Sound(life'[new])
         /\ \A f \in Files : f # new => life'[f] = life[f]
         /\ \A f \in Files : Sound(life[f]) => Sound(life'[f])
  <1>0. /\ MaxFiles \in Nat /\ counter \in Nat
        /\ \A f \in Files : f \in Nat /\ f # None /\ life[f] \in Lives
    BY Zenon, TypeFacts DEF LifeInv
  <1>1. life' \in [Files -> Lives]
    BY Zenon, RestFacts DEF LifeInv, LifeType
  <1>2. life'[new] = Mapped /\ \A f \in Files : f # new => life'[f] = life[f]
    BY Zenon DEF LifeInv, LifeType
  <1>3. \A r \in Readers : \A win \in rd[r].wins : win.f \in Files /\ r \in life'[win.f].pins
    <2> SUFFICES ASSUME NEW r \in Readers, NEW win \in rd[r].wins
                 PROVE  win.f \in Files /\ r \in life'[win.f].pins
      OBVIOUS
    <2>1. win.f \in Files /\ r \in life[win.f].pins /\ win.f <= counter
      BY Zenon DEF LifeInv, PinInv
    <2>2. QED
      BY SMTT(30), <1>0, <1>2, <2>1
  <1>4. \A f \in Files : (life'[f].reaped => life'[f].pins = {}) /\ (life'[f].pins # {} => f <= new)
    <2> SUFFICES ASSUME NEW f \in Files
                 PROVE  (life'[f].reaped => life'[f].pins = {}) /\ (life'[f].pins # {} => f <= new)
      OBVIOUS
    <2>1. CASE f = new
      BY SMTT(30), <1>2, <2>1 DEF Mapped
    <2>2. CASE f # new
      <3>1. (life[f].reaped => life[f].pins = {}) /\ (life[f].pins # {} => f <= counter)
        BY Zenon DEF LifeInv, PinInv
      <3>2. life'[f] = life[f]
        BY Zenon, <1>2, <2>2
      <3>3. f <= counter => f <= new
        BY <1>0
      <3>4. life'[f].reaped => life'[f].pins = {}
        BY Zenon, <3>1, <3>2, Zenon
      <3>5. QED
        BY Zenon, <3>1, <3>2, <3>3, <3>4, Zenon
    <2>3. QED
      BY Zenon, <2>1, <2>2
  <1>5. PinInv'
    BY Zenon, <1>3, <1>4 DEF PinInv, Files
  <1>6. QED
    BY Zenon, <1>1, <1>2, <1>5 DEF Sound, Mapped

\* Steps of a pass that change only the pass and the names on disk: what
\* remains to be shown is about those two.
LEMMA PassLife ==
  ASSUME LifeInv, proc = "up",
         UNCHANGED <<life, rd, counter, segs, proc>>,
         m' \in Passes, disk' \in Disks,
         (m.op = "idle" => m = Idle)',
         \A f \in m'.todo \cup m'.run : f <= counter,
         \A f \in m'.todo : Sound(life[f]),
         m'.at \in Staging => \A f \in m'.run : Sound(life[f]),
         m'.at \in Staging => \A i \in 1 .. Len(segs) : segs[i] # m'.out,
         m'.at \in Staging \cup {"built"} =>
           m'.out # None /\ m'.out <= counter /\ Sound(life[m'.out]) /\ m'.out \notin m'.run,
         m'.at = "built" => m'.src # None /\ m'.src # m'.out /\ Sound(life[m'.src]) /\ m'.src \notin m'.todo,
         m'.at \in Staging \cup {"pick"} => m'.op = "merge" /\ m'.reap = {},
         m'.op = "merge" => m'.todo = {} /\ m'.at # "built",
         m'.at \in {"staged", "marking", "marked"} => m'.out \notin disk'.seg,
         \A f \in disk'.seg : f <= counter /\ (life[f].retired => life[f].pins # {} \/ f \in m'.reap)
  PROVE  LifeInv'
  <1>1. LifeType'
    BY Zenon DEF LifeInv, LifeType, Files
  <1>2. PinInv'
    BY Zenon DEF LifeInv, PinInv, Files
  <1>3. SlotInv'
    BY Zenon DEF LifeInv, SlotInv
  <1>4. PhaseInv'
    BY Zenon DEF LifeInv, PhaseInv
  <1>5. RetiredUnlinked'
    BY Zenon DEF LifeInv, RetiredUnlinked
  <1>6. QED
    BY Zenon, <1>1, <1>2, <1>3, <1>4, <1>5 DEF LifeInv

\* Reap: an unlinked file leaves the directory and the list together.
LEMMA ReapLife ==
  ASSUME LifeInv, Reap
  PROVE  LifeInv'
  <1>1. PICK f \in m.reap : /\ disk' = [disk EXCEPT !.seg = @ \ {f}]
                            /\ m' = [m EXCEPT !.reap = @ \ {f}]
    BY Zenon DEF Reap
  <1>2. m' \in Passes /\ disk' \in Disks
    BY Zenon, <1>1 DEF LifeInv, LifeType, Passes, Disks
  <1>3. /\ m'.op = m.op /\ m'.at = m.at /\ m'.todo = m.todo /\ m'.run = m.run /\ m'.out = m.out
        /\ m'.src = m.src /\ m'.reap = m.reap \ {f} /\ disk'.seg = disk.seg \ {f}
    BY Zenon, <1>1 DEF LifeInv, LifeType, Passes, Disks
  <1>4. m.op # "idle"
    BY DEF Reap, LifeInv, PhaseInv, Idle
  <1>5. QED
    BY Zenon, <1>2, <1>3, <1>4, PassLife DEF Reap, store, mem, LifeInv, SlotInv, PhaseInv, RetiredUnlinked, Staging

\* The steps of a merge that only name files.
LEMMA MergeNamesLife ==
  ASSUME LifeInv,
         MergePass \/ MergeDone \/ CreateMarker \/ WriteMarker \/ RenameOut \/ RemoveMarker
  PROVE  LifeInv'
  <1> USE DEF store, mem
  <1>1. CASE MergePass
    <2>1. m' = [Idle EXCEPT !.op = "merge", !.at = "pick"] /\ disk' = disk
      BY Zenon, <1>1 DEF MergePass, names
    <2>2. m' \in Passes
      BY Zenon, <2>1, RestFacts DEF Passes, Ops, Ats
    <2>3. QED
      BY Zenon, <1>1, <2>1, <2>2, PassLife DEF MergePass, names, Idle, LifeInv, LifeType, SlotInv, PhaseInv, RetiredUnlinked, Staging, Disks
  <1>2. CASE MergeDone
    BY Zenon, <1>2, PassLife, RestFacts DEF MergeDone, names, Idle, LifeInv, LifeType, PhaseInv, RetiredUnlinked, Staging, Disks
  <1>3. CASE CreateMarker
    <2>1. /\ m' = [m EXCEPT !.at = "marking"]
          /\ disk' = [disk EXCEPT !.marker = @ \cup {[out |-> m.out, srcs |-> {}]}]
      BY Zenon, <1>3 DEF CreateMarker
    <2>2. m' \in Passes /\ disk' \in Disks
      BY SMTT(30), <2>1 DEF LifeInv, LifeType, Passes, Ats, Disks
    <2>3. /\ m'.op = m.op /\ m'.todo = m.todo /\ m'.run = m.run /\ m'.out = m.out /\ m'.src = m.src
          /\ m'.reap = m.reap /\ disk'.seg = disk.seg /\ m'.at = "marking"
      BY Zenon, <2>1 DEF LifeInv, LifeType, Passes, Disks
    <2>4. m.op # "idle"
      BY <1>3 DEF CreateMarker, LifeInv, PhaseInv, Idle
    <2>5. QED
      BY Zenon, <1>3, <2>2, <2>3, <2>4, PassLife DEF CreateMarker, LifeInv, SlotInv, PhaseInv, RetiredUnlinked, Staging
  <1>4. CASE WriteMarker
    <2>1. /\ m' = [m EXCEPT !.at = "marked"]
          /\ disk' = [disk EXCEPT !.marker = {k \in @ : k.out # m.out} \cup {[out |-> m.out, srcs |-> m.run]}]
      BY Zenon, <1>4 DEF WriteMarker
    <2>2. m' \in Passes /\ disk' \in Disks
      <3>1. [out |-> m.out, srcs |-> m.run] \in [out : 0 .. MaxFiles, srcs : SUBSET Files]
        BY Zenon DEF LifeInv, LifeType, Passes
      <3>2. disk.marker \subseteq [out : 0 .. MaxFiles, srcs : SUBSET Files]
        BY Zenon DEF LifeInv, LifeType, Disks
      <3>3. disk' \in Disks
        BY Zenon, <2>1, <3>1, <3>2 DEF LifeInv, LifeType, Disks
      <3>4. m' \in Passes
        BY Zenon, <2>1 DEF LifeInv, LifeType, Passes, Ats
      <3>5. QED
        BY Zenon, <3>3, <3>4
    <2>3. /\ m'.op = m.op /\ m'.todo = m.todo /\ m'.run = m.run /\ m'.out = m.out /\ m'.src = m.src
          /\ m'.reap = m.reap /\ disk'.seg = disk.seg /\ m'.at = "marked"
      BY Zenon, <2>1 DEF LifeInv, LifeType, Passes, Disks
    <2>4. m.op # "idle"
      BY SMTT(30), <1>4 DEF WriteMarker, LifeInv, PhaseInv, Idle
    <2>5. QED
      BY Zenon, <1>4, <2>2, <2>3, <2>4, PassLife DEF WriteMarker, LifeInv, SlotInv, PhaseInv, RetiredUnlinked, Staging
  <1>5. CASE RenameOut
    <2>1. /\ m' = [m EXCEPT !.at = "renamed"]
          /\ disk' = [disk EXCEPT !.tmp = @ \ {m.out}, !.seg = @ \cup {m.out}]
      BY Zenon, <1>5 DEF RenameOut
    <2>2. m.out \in Files /\ m.op # "idle"
      BY SMTT(30), <1>5, FilesAssumption DEF RenameOut, LifeInv, LifeType, SlotInv, PhaseInv, Idle, Staging, Passes, Files, None
    <2>3. m' \in Passes
      BY Zenon, <2>1 DEF LifeInv, LifeType, Passes, Ats
    <2>4. disk' \in Disks
      BY Zenon, <2>1, <2>2 DEF LifeInv, LifeType, Disks
    <2>5. /\ m'.op = m.op /\ m'.todo = m.todo /\ m'.run = m.run /\ m'.out = m.out /\ m'.src = m.src
          /\ m'.reap = m.reap /\ disk'.seg = disk.seg \cup {m.out} /\ m'.at = "renamed"
      BY Zenon, <2>1 DEF LifeInv, LifeType, Passes, Disks
    <2>6. QED
      BY Zenon, <1>5, <2>2, <2>3, <2>4, <2>5, PassLife DEF RenameOut, LifeInv, SlotInv, PhaseInv, RetiredUnlinked, Staging, Sound
  <1>6. CASE RemoveMarker
    <2>1. /\ m' = [m EXCEPT !.at = "pick", !.run = {}, !.out = None]
          /\ disk' = [disk EXCEPT !.marker = {k \in @ : k.out # m.out}]
      BY Zenon, <1>6 DEF RemoveMarker
    <2>2. m' \in Passes
      <3>1. None \in 0 .. MaxFiles /\ {} \in SUBSET Files /\ "pick" \in Ats
        BY FilesAssumption DEF None, Ats
      <3>2. QED
        BY Zenon, <2>1, <3>1 DEF LifeInv, LifeType, Passes
    <2>3. disk' \in Disks
      BY Zenon, <2>1 DEF LifeInv, LifeType, Disks
    <2>4. /\ m'.op = m.op /\ m'.todo = m.todo /\ m'.run = {} /\ m'.at = "pick"
          /\ m'.reap = m.reap /\ disk'.seg = disk.seg
      BY Zenon, <2>1 DEF LifeInv, LifeType, Passes, Disks
    <2>5. m.todo = {}
      BY Zenon, <1>6 DEF RemoveMarker, LifeInv, PhaseInv
    <2>6. QED
      BY Zenon, <1>6, <2>2, <2>3, <2>4, <2>5, PassLife DEF RemoveMarker, LifeInv, SlotInv, PhaseInv, RetiredUnlinked, Staging
  <1>7. QED
    BY Zenon, <1>1, <1>2, <1>3, <1>4, <1>5, <1>6

\* A pass of the reseal family begins with a list of slotted segments.
LEMMA StartLife ==
  ASSUME LifeInv, Rewrite \/ InternSealed \/ RetrainDict \/ UpgradeCodecPass
  PROVE  LifeInv'
  <1>1. PICK op \in {"rewrite", "intern", "upgrade"}, todo \in SUBSET InSlot : Pass(op, todo)
    <2>1. Rewrite => Pass("rewrite", InSlot)
      BY Zenon DEF Rewrite
    <2>2. InternSealed \/ RetrainDict => Pass("intern", Inline) /\ Inline \subseteq InSlot
      BY Zenon DEF InternSealed, RetrainDict, Inline, SealedSet
    <2>3. UpgradeCodecPass => \E todo \in SUBSET InSlot : Pass("upgrade", todo)
      BY Zenon DEF UpgradeCodecPass, SealedSet
    <2>4. QED
      BY Zenon, <2>1, <2>2, <2>3
  <1>2. /\ proc = "up" /\ UNCHANGED <<life, rd, counter, segs, proc, disk>>
        /\ m' = [Idle EXCEPT !.op = op, !.at = "next", !.todo = todo]
    BY Zenon, <1>1 DEF Pass
  <1>3. \A f \in todo : f \in Files /\ f <= counter /\ Sound(life[f])
    BY Zenon, <1>2, TypeFacts DEF InSlot, LifeInv, SlotInv, None
  <1>4. m' \in Passes
    BY Zenon, <1>2, <1>3, RestFacts DEF Passes, Ops, Ats
  <1>5. m'.op = op /\ m'.at = "next" /\ m'.todo = todo /\ m'.run = {} /\ m'.reap = {}
    BY Zenon, <1>2 DEF Idle
  <1>6. m.reap = {} /\ disk \in Disks
    BY <1>1 DEF Pass, LifeInv, LifeType, PhaseInv, Idle
  <1>7. QED
    BY Zenon, <1>2, <1>3, <1>4, <1>5, <1>6, PassLife DEF LifeInv, PhaseInv, RetiredUnlinked, Staging

\* The steps of a reseal between one source and the next.
LEMMA BetweenLife ==
  ASSUME LifeInv, SkipSource \/ BuildFails \/ EndReap \/ EndPass
  PROVE  LifeInv'
  <1>0. m \in Passes /\ disk \in Disks /\ proc = "up" /\ UNCHANGED <<life, rd, counter, segs, proc, disk>>
    BY Zenon DEF LifeInv, LifeType, SkipSource, BuildFails, EndReap, EndPass, store, mem, names
  <1>1. m.op # "idle" /\ m.at \in {"next", "built", "reap"}
    BY SMTT(30) DEF LifeInv, PhaseInv, Idle, SkipSource, BuildFails, EndReap, EndPass
  <1>2. CASE SkipSource
    <2>1. PICK g : m' = [m EXCEPT !.todo = @ \ {g}]
      BY Zenon, <1>2 DEF SkipSource
    <2>2. /\ m' \in Passes /\ m'.op = m.op /\ m'.at = m.at /\ m'.todo = m.todo \ {g} /\ m'.run = m.run
          /\ m'.out = m.out /\ m'.src = m.src /\ m'.reap = m.reap
      BY Zenon, <1>0, <2>1 DEF Passes
    <2>3. QED
      BY Zenon, <1>0, <1>1, <2>2, PassLife DEF LifeInv, SlotInv, PhaseInv, RetiredUnlinked, Staging
  <1>3. CASE BuildFails
    <2>1. m' = [m EXCEPT !.at = "next", !.out = None, !.src = None]
      BY Zenon, <1>3 DEF BuildFails
    <2>2. None \in 0 .. MaxFiles /\ "next" \in Ats
      BY FilesAssumption DEF None, Ats
    <2>3. /\ m' \in Passes /\ m'.op = m.op /\ m'.at = "next" /\ m'.todo = m.todo /\ m'.run = m.run
          /\ m'.reap = m.reap
      BY Zenon, <1>0, <2>1, <2>2 DEF Passes
    <2>4. QED
      BY Zenon, <1>0, <1>1, <2>3, PassLife DEF LifeInv, SlotInv, PhaseInv, RetiredUnlinked, Staging
  <1>4. ASSUME NEW at \in {"reap", "next"}, m' = [m EXCEPT !.at = at]
        PROVE  LifeInv'
    <2>1. /\ m' \in Passes /\ m'.op = m.op /\ m'.at = at /\ m'.todo = m.todo /\ m'.run = m.run
          /\ m'.reap = m.reap
      BY Zenon, <1>0, <1>4 DEF Passes, Ats
    <2>2. QED
      BY Zenon, <1>0, <1>1, <2>1, PassLife DEF LifeInv, SlotInv, PhaseInv, RetiredUnlinked, Staging
  <1>5. CASE EndReap
    BY Zenon, <1>4, <1>5 DEF EndReap
  <1>6. CASE EndPass
    <2>1. m.reap = {} /\ (m' = Idle \/ m' = [m EXCEPT !.at = "next"])
      BY Zenon, <1>6 DEF EndPass
    <2>2. CASE m' = Idle
      <3>1. m' \in Passes /\ m'.at = "rest" /\ m'.todo = {} /\ m'.run = {} /\ m'.reap = {} /\ m'.op = "idle"
        BY Zenon, <2>2, RestFacts DEF Idle
      <3>2. QED
        BY Zenon, <1>0, <2>1, <2>2, <3>1, PassLife DEF LifeInv, PhaseInv, RetiredUnlinked, Staging
    <2>3. QED
      BY Zenon, <2>1, <2>2, <1>4
  <1>7. QED
    BY Zenon, <1>2, <1>3, <1>5, <1>6

-----------------------------------------------------------------------------
(* Every step of Archive keeps the invariant of the pin protocol. *)

\* A retired mapping: gone at once when nobody pins it.
LEMMA RetireFacts ==
  ASSUME NEW l \in Lives
  PROVE  /\ Retire(l) \in Lives /\ Retire(l).pins = l.pins /\ Retire(l).retired
         /\ (l.reaped => l.pins = {}) => (Retire(l).reaped => Retire(l).pins = {})
  BY Zenon DEF Retire, Lives

\* Retiring a set of segments that are not yet reaped, and the list of those
\* to reap at once.
LEMMA RetireSet ==
  ASSUME LifeInv, NEW gone \in SUBSET Files,
         life' = [f \in Files |-> IF f \in gone THEN Retire(life[f]) ELSE life[f]],
         rd' = rd, counter' = counter
  PROVE  /\ life' \in [Files -> Lives] /\ PinInv'
         /\ \A f \in Files : f \notin gone => life'[f] = life[f]
         /\ \A f \in Files : life'[f].pins = life[f].pins
         /\ \A f \in gone : Sound(life[f]) => (life'[f].pins # {} \/ ReapNow(life[f]))
  <1>0. \A f \in Files : life[f] \in Lives
    BY Zenon, TypeFacts DEF LifeInv
  <1>1. \A f \in Files : life'[f] \in Lives /\ life'[f].pins = life[f].pins
    BY Zenon, <1>0, RetireFacts
  <1>2. life' \in [Files -> Lives]
    BY Zenon, <1>1
  <1>3. \A f \in Files : life'[f].reaped => life'[f].pins = {}
    BY Zenon, <1>0, RetireFacts DEF LifeInv, PinInv
  <1>4. PinInv'
    BY Zenon, <1>1, <1>3 DEF LifeInv, PinInv, Files
  <1>5. \A f \in gone : Sound(life[f]) => (life'[f].pins # {} \/ ReapNow(life[f]))
    BY Zenon, <1>1 DEF Sound, ReapNow
  <1>6. QED
    BY Zenon, <1>1, <1>2, <1>4, <1>5

\* Files in the slots are handed out and, while the process is up, sound.
LEMMA InSlotFacts ==
  ASSUME LifeInv
  PROVE  /\ InSlot \subseteq Files
         /\ \A f \in InSlot : f <= counter
         /\ proc = "up" => \A f \in InSlot : Sound(life[f])
  BY Zenon, TypeFacts DEF LifeInv, SlotInv, InSlot, None

\* A step that retires a set of slotted segments and empties their slots.
LEMMA DropLife ==
  ASSUME LifeInv, proc = "up", m.op = "idle", NEW gone \in SUBSET InSlot, NEW op \in {"rotate", "truncate"},
         life' = [f \in Files |-> IF f \in gone THEN Retire(life[f]) ELSE life[f]],
         m' = [Idle EXCEPT !.op = op, !.at = "reap", !.reap = {f \in gone : ReapNow(life[f])}],
         UNCHANGED <<rd, counter, disk, proc>>,
         segs' \in Seq(0 .. MaxFiles),
         \A i \in 1 .. Len(segs') : segs'[i] = None \/ segs'[i] \in InSlot \ gone
  PROVE  LifeInv'
  <1>0. /\ MaxFiles \in Nat /\ counter \in Nat /\ gone \subseteq Files
        /\ \A f \in Files : f \in Nat /\ f # None /\ life[f] \in Lives
        /\ \A f \in InSlot : f \in Files /\ f <= counter /\ Sound(life[f])
    BY Zenon, TypeFacts, InSlotFacts DEF LifeInv
  <1>1. /\ life' \in [Files -> Lives] /\ PinInv'
        /\ \A f \in Files : f \notin gone => life'[f] = life[f]
        /\ \A f \in Files : life'[f].pins = life[f].pins
        /\ \A f \in gone : Sound(life[f]) => (life'[f].pins # {} \/ ReapNow(life[f]))
    BY Zenon, <1>0, RetireSet
  <1>2. /\ m'.op = op /\ m'.at = "reap" /\ m'.todo = {} /\ m'.run = {}
        /\ m'.reap = {f \in gone : ReapNow(life[f])}
    BY Zenon DEF Idle
  <1>3. m' \in Passes
    <2>1. {f \in gone : ReapNow(life[f])} \in SUBSET Files
      BY Zenon, <1>0
    <2>2. op \in Ops /\ "reap" \in Ats
      BY Zenon DEF Ops, Ats
    <2>3. QED
      BY Zenon, <2>1, <2>2, RestFacts DEF Passes
  <1>4. LifeType'
    BY Zenon, <1>1, <1>3 DEF LifeInv, LifeType, Files
  <1>5. SlotInv'
    <2>1. \A i \in 1 .. Len(segs') : segs'[i] <= counter
      BY SMTT(30), <1>0 DEF None
    <2>2. \A i \in 1 .. Len(segs') : segs'[i] # None => Sound(life'[segs'[i]])
      BY Zenon, <1>0, <1>1
    <2>3. QED
      BY Zenon, <2>1, <2>2, <1>2 DEF SlotInv, Staging
  <1>6. PhaseInv'
    BY Zenon, <1>2 DEF LifeInv, PhaseInv, Staging
  <1>7. RetiredUnlinked'
    <2> SUFFICES ASSUME NEW f \in disk.seg, life'[f].retired PROVE life'[f].pins # {} \/ f \in m'.reap
      BY Zenon DEF RetiredUnlinked
    <2>1. f \in Files /\ m.reap = {}
      BY DEF LifeInv, LifeType, Disks, PhaseInv, Idle
    <2>2. CASE f \in gone
      BY Zenon, <2>2, <1>0, <1>1, <1>2
    <2>3. CASE f \notin gone
      BY Zenon, <2>1, <2>3, <1>1 DEF LifeInv, RetiredUnlinked
    <2>4. QED
      BY Zenon, <2>2, <2>3
  <1>8. QED
    BY Zenon, <1>1, <1>4, <1>5, <1>6, <1>7 DEF LifeInv

\* Rotate and Truncate.
LEMMA DroppingLife ==
  ASSUME LifeInv, Truncate \/ \E n \in Nows : Rotate(n)
  PROVE  LifeInv'
  <1>1. CASE Truncate
    <2>1. segs' = <<>> /\ segs' \in Seq(0 .. MaxFiles)
      BY SMTT(30), <1>1 DEF Truncate
    <2>2. PICK gone \in SUBSET InSlot : gone = InSlot
      BY Zenon
    <2>3. /\ life' = [f \in Files |-> IF f \in gone THEN Retire(life[f]) ELSE life[f]]
          /\ m' = [Idle EXCEPT !.op = "truncate", !.at = "reap", !.reap = {f \in gone : ReapNow(life[f])}]
          /\ proc = "up" /\ m.op = "idle" /\ UNCHANGED <<rd, counter, disk, proc>>
      BY Zenon, <1>1, <2>2 DEF Truncate, names
    <2>4. \A i \in 1 .. Len(segs') : segs'[i] = None \/ segs'[i] \in InSlot \ gone
      BY SMTT(30), <2>1
    <2>5. QED
      BY Zenon, <2>1, <2>3, <2>4, DropLife
  <1>2. ASSUME NEW n \in Nows, Rotate(n)
        PROVE  LifeInv'
    <2> DEFINE gone == Gone(n)
    <2> HIDE DEF gone
    <2>0. gone \in SUBSET InSlot
      BY Zenon DEF gone, Gone
    <2>1. /\ segs' = [i \in 1 .. Len(segs) |-> IF segs[i] \in gone THEN None ELSE segs[i]]
          /\ life' = [f \in Files |-> IF f \in gone THEN Retire(life[f]) ELSE life[f]]
          /\ m' = [Idle EXCEPT !.op = "rotate", !.at = "reap", !.reap = {f \in gone : ReapNow(life[f])}]
          /\ proc = "up" /\ m.op = "idle" /\ UNCHANGED <<rd, counter, disk, proc>>
      BY Zenon, <1>2 DEF Rotate, names, gone
    <2>2. \A i \in 1 .. Len(segs) : segs[i] \in 0 .. MaxFiles
      BY Zenon, TypeFacts DEF LifeInv
    <2>3. segs' \in Seq(0 .. MaxFiles) /\ Len(segs') = Len(segs)
      BY SMTT(30), <2>1, <2>2, FilesAssumption DEF LifeInv, LifeType, None
    <2>4. \A i \in 1 .. Len(segs') : segs'[i] = None \/ segs'[i] \in InSlot \ gone
      BY SMTT(30), <2>1, <2>2, <2>3, FilesAssumption DEF InSlot, Files, None
    <2>5. QED
      BY Zenon, <2>0, <2>1, <2>3, <2>4, DropLife
  <1>3. QED
    BY Zenon, <1>1, <1>2

\* The slots and the pass stay as they are and no mapping they use is lost.
LEMMA SlotKept ==
  ASSUME LifeInv, UNCHANGED <<segs, counter, m, proc>>,
         \A f \in Files : Sound(life[f]) => Sound(life'[f])
  PROVE  SlotInv'
  <1>0. /\ MaxFiles \in Nat /\ \A i \in 1 .. Len(segs) : segs[i] \in 0 .. MaxFiles
    BY Zenon, TypeFacts DEF LifeInv
  <1>1. m.todo \subseteq Files /\ m.run \subseteq Files /\ m.out \in 0 .. MaxFiles /\ m.src \in 0 .. MaxFiles
    BY Zenon DEF LifeInv, LifeType, Passes
  <1>2. \A f \in 0 .. MaxFiles : f # None /\ Sound(life[f]) => Sound(life'[f])
    BY SMTT(30), <1>0 DEF Files, None
  <1>3. QED
    BY Zenon, <1>0, <1>1, <1>2 DEF LifeInv, SlotInv

\* Begin: the windows are of sound segments, and each is pinned.
LEMMA BeginLife ==
  ASSUME LifeInv, NEW r \in Readers, NEW ask \in Asks, Begin(r, ask)
  PROVE  LifeInv'
  <1>0. /\ MaxFiles \in Nat /\ counter \in Nat
        /\ \A f \in Files : f \in Nat /\ f # None /\ life[f] \in Lives
        /\ \A i \in 1 .. Len(segs) : segs[i] \in 0 .. MaxFiles
    BY Zenon, TypeFacts DEF LifeInv
  <1> DEFINE walked == {i \in 1 .. Len(segs) : segs[i] # None /\ Used(segs[i]) > 0}
             hit(f) == \E i \in walked : segs[i] = f
  <1>1. /\ proc = "up" /\ proc' = proc /\ UNCHANGED <<segs, counter, m, disk>>
        /\ life' = [f \in Files |-> IF hit(f) THEN Pin(life[f], r) ELSE life[f]]
        /\ \A q \in Readers : q # r => rd'[q] = rd[q]
        /\ rd' = [q \in Readers |-> rd'[q]]
        /\ rd'[r].wins = {[slot |-> i, f |-> segs[i], used |-> Used(segs[i]),
                           zone |-> file[segs[i]].zone] : i \in walked}
    BY Zenon DEF Begin, mem, names, LifeInv, LifeType
  <1>2. \A i \in walked : segs[i] \in Files /\ segs[i] <= counter /\ Sound(life[segs[i]])
    BY <1>0, <1>1 DEF LifeInv, SlotInv, None, Files
  <1> HIDE DEF walked
  <1>3. \A f \in Files : /\ life'[f] \in Lives /\ life'[f].retired = life[f].retired
                         /\ life'[f].closing = life[f].closing /\ life'[f].reaped = life[f].reaped
                         /\ life[f].pins \subseteq life'[f].pins
                         /\ hit(f) => r \in life'[f].pins
                         /\ ~hit(f) => life'[f] = life[f]
    BY Zenon, <1>0, <1>1 DEF Pin, Lives
  <1>4. LifeType'
    <2>1. life' \in [Files -> Lives]
      BY Zenon, <1>1, <1>3
    <2>2. QED
      BY Zenon, <2>1, <1>1 DEF LifeInv, LifeType, Files
  <1>5. PinInv'
    <2>1. \A q \in Readers : \A win \in rd'[q].wins : win.f \in Files /\ q \in life'[win.f].pins
      <3> SUFFICES ASSUME NEW q \in Readers, NEW win \in rd'[q].wins
                   PROVE  win.f \in Files /\ q \in life'[win.f].pins
        OBVIOUS
      <3>1. CASE q = r
        BY SMTT(30), <3>1, <1>1, <1>2, <1>3
      <3>2. CASE q # r
        BY Zenon, <3>2, <1>1, <1>3 DEF LifeInv, PinInv
      <3>3. QED
        BY Zenon, <3>1, <3>2
    <2>2. \A f \in Files : life'[f].reaped => life'[f].pins = {}
      BY SMTT(30), <1>2, <1>3 DEF LifeInv, PinInv, Sound
    <2>3. \A f \in Files : life'[f].pins # {} => f <= counter
      BY SMTT(30), <1>2, <1>3 DEF LifeInv, PinInv
    <2>4. QED
      BY Zenon, <2>1, <2>2, <2>3, <1>1 DEF PinInv, Files
  <1>6. \A f \in Files : Sound(life[f]) => Sound(life'[f])
    BY Zenon, <1>3 DEF Sound
  <1>7. SlotInv'
    BY Zenon, <1>1, <1>6, SlotKept
  <1>8. PhaseInv'
    BY Zenon, <1>1 DEF LifeInv, PhaseInv
  <1>9. RetiredUnlinked'
    BY Zenon, <1>1, <1>3 DEF LifeInv, LifeType, Disks, RetiredUnlinked
  <1>10. QED
    BY Zenon, <1>4, <1>5, <1>7, <1>8, <1>9 DEF LifeInv

\* Visit: one window fewer.
LEMMA VisitLife ==
  ASSUME LifeInv, NEW r \in Readers, Visit(r)
  PROVE  LifeInv'
  <1>a. PICK win \in rd[r].wins : \E at, got :
          rd' = [rd EXCEPT ![r] = [at |-> at, ask |-> rd[r].ask, wins |-> rd[r].wins \ {win},
                                   got |-> got, due |-> rd[r].due]]
    BY Zenon DEF Visit
  <1>1. /\ rd'[r].wins = rd[r].wins \ {win}
        /\ \A q \in Readers : q # r => rd'[q] = rd[q]
        /\ rd' = [q \in Readers |-> rd'[q]]
    <2>1. PICK at, got :
            rd' = [rd EXCEPT ![r] = [at |-> at, ask |-> rd[r].ask, wins |-> rd[r].wins \ {win},
                                     got |-> got, due |-> rd[r].due]]
      BY Zenon, <1>a
    <2>2. QED
      BY Zenon, <2>1 DEF LifeInv, LifeType
  <1>2. UNCHANGED <<life, counter, segs, m, disk, proc>>
    BY Zenon DEF Visit, store, mem, names
  <1>3. LifeType' /\ PinInv'
    BY Zenon, <1>1, <1>2 DEF LifeInv, LifeType, PinInv, Files, Lives, Passes, Disks
  <1>4. SlotInv' /\ RetiredUnlinked'
    BY Zenon, <1>2 DEF LifeInv, SlotInv, RetiredUnlinked
  <1>5. PhaseInv'
    BY Zenon, <1>1, <1>2 DEF LifeInv, PhaseInv
  <1>6. QED
    BY Zenon, <1>3, <1>4, <1>5 DEF LifeInv

\* Release: the last unpin tears a retired mapping down and unlinks its file.
LEMMA ReleaseLife ==
  ASSUME LifeInv, NEW r \in Readers, Release(r)
  PROVE  LifeInv'
  <1>0. \A f \in Files : f \in Nat /\ life[f] \in Lives
    BY Zenon, TypeFacts DEF LifeInv
  <1>1. /\ UNCHANGED <<segs, counter, m, proc>>
        /\ \A q \in Readers : q # r => rd'[q] = rd[q]
        /\ rd' = [q \in Readers |-> rd'[q]]
        /\ rd'[r].wins = {}
        /\ life' = [f \in Files |-> IF f \in Held(r) THEN Unpin(life[f], r) ELSE life[f]]
        /\ disk' = [disk EXCEPT !.seg = @ \ {f \in Held(r) : UnlinkedBy(life[f], r)}]
    BY Zenon DEF Release, mem, NotReading, LifeInv, LifeType
  <1>2. \A f \in Files : /\ life'[f] \in Lives /\ life'[f].retired = life[f].retired
                         /\ life'[f].closing = life[f].closing
                         /\ life'[f].pins = life[f].pins \ {r}
                         /\ life'[f].reaped => life[f].reaped \/ (f \in Held(r) /\ life'[f].pins = {}
                                                  /\ (life[f].retired \/ life[f].closing))
    BY Zenon, <1>0, <1>1 DEF Unpin, Lives, Held
  <1>3. /\ disk' \in Disks
        /\ disk'.seg = disk.seg \ {f \in Held(r) : UnlinkedBy(life[f], r)}
    BY Zenon, <1>1 DEF LifeInv, LifeType, Disks
  <1>4. LifeType'
    <2>1. life' \in [Files -> Lives]
      BY Zenon, <1>1, <1>2
    <2>2. QED
      BY Zenon, <2>1, <1>1, <1>3 DEF LifeInv, LifeType, Files
  <1>5. PinInv'
    <2>1. \A q \in Readers : \A win \in rd'[q].wins : win.f \in Files /\ q \in life'[win.f].pins
      <3> SUFFICES ASSUME NEW q \in Readers, NEW win \in rd'[q].wins
                   PROVE  win.f \in Files /\ q \in life'[win.f].pins
        OBVIOUS
      <3>1. q # r /\ win \in rd[q].wins
        BY Zenon, <1>1
      <3>2. win.f \in Files /\ q \in life[win.f].pins
        BY Zenon, <3>1 DEF LifeInv, PinInv
      <3>3. QED
        BY SMTT(30), <1>2, <3>1, <3>2
    <2>2. \A f \in Files : /\ life'[f].reaped => life'[f].pins = {}
                           /\ life'[f].pins # {} => f <= counter
      BY Zenon, <1>2 DEF LifeInv, PinInv
    <2>3. QED
      BY Zenon, <2>1, <2>2, <1>1 DEF PinInv, Files
  <1>6. SlotInv'
    <2>1. \A f \in Files : Sound(life[f]) => Sound(life'[f])
      BY Zenon, <1>2 DEF Sound
    <2>2. QED
      BY Zenon, <1>1, <2>1, SlotKept
  <1>7. PhaseInv'
    <2>1. proc = "down" => life' = life
      <3>1. proc = "down" => Held(r) = {}
        BY SMTT(30) DEF LifeInv, PhaseInv, Held, Mapped
      <3>2. QED
        BY Zenon, <1>1, <3>1 DEF LifeInv, LifeType
    <2>2. QED
      BY Zenon, <1>1, <1>3, <2>1 DEF LifeInv, PhaseInv, Files
  <1>8. RetiredUnlinked'
    <2> SUFFICES ASSUME NEW f \in disk'.seg, life'[f].retired
                 PROVE  life'[f].pins # {} \/ f \in m.reap
      BY Zenon, <1>1 DEF RetiredUnlinked
    <2>1. f \in disk.seg /\ f \in Files /\ life[f].retired /\ ~(f \in Held(r) /\ UnlinkedBy(life[f], r))
      BY Zenon, <1>2, <1>3 DEF LifeInv, LifeType, Disks
    <2>2. life[f].pins # {} \/ f \in m.reap
      BY Zenon, <2>1 DEF LifeInv, RetiredUnlinked
    <2>3. QED
      BY SMTT(30), <1>2, <2>1, <2>2 DEF UnlinkedBy, Held, LifeInv, PinInv
  <1>9. QED
    BY Zenon, <1>4, <1>5, <1>6, <1>7, <1>8 DEF LifeInv

\* Close and the death of the process.
LEMMA StopLife ==
  ASSUME LifeInv, Close \/ Crash
  PROVE  LifeInv'
  <1>0. /\ MaxFiles \in Nat /\ \A f \in Files : f \in Nat /\ life[f] \in Lives
    BY Zenon, TypeFacts DEF LifeInv
  <1>1. CASE Close
    <2>1. /\ UNCHANGED <<rd, segs, counter, m, disk>> /\ proc' = "closed" /\ m = Idle
          /\ life' = [f \in Files |-> IF f \in InSlot THEN CloseUnmap(life[f]) ELSE life[f]]
      BY Zenon, <1>1 DEF Close, mem, names, LifeInv, PhaseInv
    <2>2. \A f \in Files : /\ life'[f] \in Lives /\ life'[f].retired = life[f].retired
                           /\ life'[f].pins = life[f].pins
                           /\ life'[f].reaped => life[f].reaped \/ life[f].pins = {}
      BY Zenon, <1>0, <2>1 DEF CloseUnmap, Lives
    <2>3. LifeType'
      <3>1. life' \in [Files -> Lives]
        BY Zenon, <2>1, <2>2
      <3>2. QED
        BY Zenon, <3>1, <2>1 DEF LifeInv, LifeType, Files
    <2>4. PinInv'
      BY Zenon, <2>1, <2>2 DEF LifeInv, PinInv, Files
    <2>5. SlotInv'
      BY Zenon, <2>1 DEF LifeInv, SlotInv, Idle, Staging
    <2>6. PhaseInv'
      BY Zenon, <1>1, <2>1 DEF LifeInv, PhaseInv, Close
    <2>7. RetiredUnlinked'
      BY Zenon, <2>1, <2>2 DEF LifeInv, LifeType, Disks, RetiredUnlinked
    <2>8. QED
      BY Zenon, <2>3, <2>4, <2>5, <2>6, <2>7 DEF LifeInv
  <1>2. CASE Crash
    <2>1. /\ disk' = disk /\ proc' = "down" /\ m' = Idle /\ segs' = <<>> /\ counter' = 0
          /\ life' = [f \in Files |-> Mapped] /\ rd' = [q \in Readers |-> NotReading]
      BY Zenon, <1>2 DEF Crash, Lost
    <2>2. LifeType'
      BY SMTT(30), <1>0, <2>1, RestFacts DEF LifeInv, LifeType, Files
    <2>3. PinInv' /\ SlotInv' /\ PhaseInv'
      BY SMTT(30), <2>1 DEF PinInv, SlotInv, PhaseInv, Mapped, NotReading, Idle, Staging
    <2>4. RetiredUnlinked'
      BY Zenon, <2>1 DEF RetiredUnlinked, Mapped, LifeInv, LifeType, Disks
    <2>5. QED
      BY Zenon, <2>2, <2>3, <2>4 DEF LifeInv
  <1>3. QED
    BY Zenon, <1>1, <1>2

\* Recovery: the directory is put in order, then its files take the slots.
LEMMA RecoverLife ==
  ASSUME LifeInv, FinishMerge \/ DropStaged \/ Open
  PROVE  LifeInv'
  <1>0. /\ proc = "down" /\ MaxFiles \in Nat /\ m = Idle /\ life = [f \in Files |-> Mapped]
        /\ \A q \in Readers : rd[q].wins = {}
    BY Zenon, FilesAssumption DEF LifeInv, PhaseInv, FinishMerge, DropStaged, Open
  <1>1. CASE FinishMerge \/ DropStaged
    <2>1. UNCHANGED <<life, rd, segs, counter, m, proc>>
      BY Zenon, <1>1 DEF FinishMerge, DropStaged, store, mem
    <2>2. disk' \in Disks
      <3>1. CASE DropStaged
        BY Zenon, <3>1 DEF DropStaged, LifeInv, LifeType, Disks
      <3>2. CASE FinishMerge
        <4>1. PICK k \in disk.marker :
                \/ disk' = [disk EXCEPT !.tmp = @ \ {k.out}, !.seg = @ \cup {k.out}] /\ k.out \in disk.tmp
                \/ \E gone : disk' = [disk EXCEPT !.seg = @ \ {gone}]
                \/ disk' = [disk EXCEPT !.marker = @ \ {k}]
          BY Zenon, <3>2 DEF FinishMerge
        <4>2. disk.tmp \subseteq Files /\ disk \in Disks
          BY Zenon DEF LifeInv, LifeType, Disks
        <4>3. CASE disk' = [disk EXCEPT !.tmp = @ \ {k.out}, !.seg = @ \cup {k.out}] /\ k.out \in disk.tmp
          BY Zenon, <4>2, <4>3 DEF Disks
        <4>4. CASE \E gone : disk' = [disk EXCEPT !.seg = @ \ {gone}]
          BY Zenon, <4>2, <4>4 DEF Disks
        <4>5. CASE disk' = [disk EXCEPT !.marker = @ \ {k}]
          BY Zenon, <4>2, <4>5 DEF Disks
        <4>6. QED
          BY Zenon, <4>1, <4>3, <4>4, <4>5
      <3>3. QED
        BY Zenon, <1>1, <3>1, <3>2
    <2>3. LifeType'
      BY Zenon, <2>1, <2>2 DEF LifeInv, LifeType, Files
    <2>4. PinInv' /\ SlotInv'
      BY Zenon, <2>1 DEF LifeInv, PinInv, SlotInv, Files
    <2>5. PhaseInv'
      BY Zenon, <1>0, <2>1 DEF PhaseInv, Idle, Staging, Files
    <2>6. RetiredUnlinked'
      BY Zenon, <1>0, <2>1, <2>2 DEF RetiredUnlinked, Mapped, Disks
    <2>7. QED
      BY Zenon, <2>3, <2>4, <2>5, <2>6 DEF LifeInv
  <1>2. CASE Open
    <2>1. PICK n \in disk.seg \cup {0} : (\A f \in disk.seg : f <= n) /\ counter' = n
      BY Zenon, <1>2 DEF Open
    <2>2. segs' \in [1 .. Cardinality(disk.seg) -> disk.seg]
      BY Zenon, <1>2 DEF Open
    <2>3. UNCHANGED <<life, rd, m, disk>> /\ proc' = "up"
      BY Zenon, <1>2 DEF Open
    <2>4. disk.seg \subseteq Files /\ Cardinality(disk.seg) \in Nat
      <3>1. disk.seg \subseteq Files
        BY Zenon DEF LifeInv, LifeType, Disks
      <3>2. IsFiniteSet(Files)
        BY SMTT(30), <1>0, FS_Interval DEF Files
      <3>3. QED
        BY Zenon, <3>1, <3>2, FS_Subset, FS_CardinalityType
    <2>5. segs' \in Seq(0 .. MaxFiles) /\ \A i \in 1 .. Len(segs') : segs'[i] \in disk.seg
      BY SMTT(30), <1>0, <2>2, <2>4 DEF Files
    <2>6. LifeType'
      BY SMTT(30), <1>0, <2>1, <2>3, <2>4, <2>5 DEF LifeInv, LifeType, Files
    <2>7. \A f \in Files : Sound(life[f])
      BY Zenon, <1>0 DEF Sound, Mapped
    <2>8. PinInv'
      BY Zenon, <1>0, <2>1, <2>3 DEF PinInv, Mapped, Files
    <2>9. SlotInv'
      BY Zenon, <1>0, <2>1, <2>3, <2>4, <2>5, <2>7 DEF SlotInv, Idle, Staging
    <2>10. PhaseInv'
      BY Zenon, <1>0, <2>1, <2>3 DEF PhaseInv, Idle, Staging
    <2>11. RetiredUnlinked'
      BY Zenon, <1>0, <2>3, <2>4 DEF RetiredUnlinked, Mapped
    <2>12. QED
      BY Zenon, <2>6, <2>8, <2>9, <2>10, <2>11 DEF LifeInv
  <1>3. QED
    BY Zenon, <1>1, <1>2

\* Stage and Build: the output of a merge or of a reseal gets a fresh file.
LEMMA OutputLife ==
  ASSUME LifeInv, Stage \/ Build
  PROVE  LifeInv'
  <1>0. /\ MaxFiles \in Nat /\ counter \in Nat /\ counter \in 0 .. MaxFiles
        /\ \A f \in Files : f \in Nat /\ f # None /\ life[f] \in Lives
        /\ \A i \in 1 .. Len(segs) : segs[i] \in 0 .. MaxFiles
        /\ m \in Passes /\ disk \in Disks /\ m.todo \subseteq Files /\ m.run \subseteq Files
    BY Zenon, TypeFacts DEF LifeInv, LifeType, Passes
  <1>1. /\ proc = "up" /\ counter < MaxFiles /\ counter' = counter + 1
        /\ life' = [life EXCEPT ![counter + 1] = Mapped] /\ UNCHANGED <<rd, segs, proc>>
    BY Zenon DEF Stage, Build
  <1>2. PICK new \in Files : new = counter + 1
    BY SMTT(30), <1>0, <1>1 DEF Files
  <1>3. /\ life' \in [Files -> Lives] /\ PinInv' /\ life'[new] = Mapped /\ Sound(life'[new])
        /\ \A f \in Files : f # new => life'[f] = life[f]
        /\ \A f \in Files : Sound(life[f]) => Sound(life'[f])
    BY Zenon, <1>1, <1>2, FreshFile
  <1>4. /\ \A i \in 1 .. Len(segs) : segs[i] <= new
        /\ \A i \in 1 .. Len(segs) : segs[i] # None => Sound(life'[segs[i]])
    BY SMTT(30), <1>0, <1>1, <1>2, <1>3 DEF LifeInv, SlotInv, Files, None
  <1>5. \A f \in disk.seg : f \in Files /\ f <= counter /\ f # new
    BY SMTT(30), <1>0, <1>1, <1>2 DEF LifeInv, PhaseInv, Disks
  <1>9. /\ counter' = new /\ new <= new /\ new \in Nat
        /\ \A f \in Nat : f <= counter => f <= new /\ f # new
    BY SMTT(30), <1>0, <1>1, <1>2
  <1>10. \A f \in disk.seg \cup {new} : f <= counter'
    BY Zenon, <1>0, <1>5, <1>9
  <1>6. CASE Stage
    <2>1. PICK run \in SUBSET InSlot : /\ m' = [m EXCEPT !.at = "staged", !.run = run, !.out = new]
                                       /\ disk' = [disk EXCEPT !.tmp = @ \cup {new}]
                                       /\ m.op = "merge" /\ m.at = "pick"
      BY Zenon, <1>2, <1>6 DEF Stage, NextMergeRun, SealedSet
    <2>2. \A f \in run : f \in Files /\ f <= counter /\ f # new /\ Sound(life'[f])
      BY SMTT(30), <1>0, <1>1, <1>2, <1>3, <2>1, InSlotFacts
    <2>3. m' \in Passes
      <3>1. run \in SUBSET Files /\ new \in 0 .. MaxFiles /\ "staged" \in Ats
        BY <1>0, <1>2, <2>2 DEF Files, Ats
      <3>2. QED
        BY Zenon, <1>0, <2>1, <3>1 DEF Passes
    <2>4. disk' \in Disks /\ disk'.seg = disk.seg
      BY Zenon, <1>0, <1>2, <2>1 DEF Disks
    <2>5. /\ m'.op = "merge" /\ m'.at = "staged" /\ m'.run = run /\ m'.out = new /\ m'.todo = {} /\ m'.reap = {}
          /\ m.reap = {}
      BY Zenon, <1>0, <2>1 DEF Passes, LifeInv, PhaseInv
    <2>6. LifeType'
      BY SMTT(30), <1>0, <1>1, <1>2, <1>3, <2>3, <2>4 DEF LifeInv, LifeType, Files
    <2>7. SlotInv'
      <3>1. \A f \in m'.todo \cup m'.run : f <= counter'
        BY Zenon, <1>0, <1>9, <2>2, <2>5
      <3>2. m'.out # None /\ m'.out <= counter' /\ Sound(life'[m'.out]) /\ m'.out \notin m'.run
        BY Zenon, <1>0, <1>3, <1>9, <2>2, <2>5
      <3>3. segs' = segs /\ \A i \in 1 .. Len(segs) : segs[i] <= counter' /\ segs[i] # new
        <4>1. \A i \in 1 .. Len(segs) : segs[i] <= counter /\ segs[i] \in Nat
          BY SMTT(30), <1>0 DEF LifeInv, SlotInv
        <4>2. QED
          BY Zenon, <1>1, <1>9, <4>1
      <3>4. QED
        BY Zenon, <1>1, <1>4, <2>2, <2>5, <3>1, <3>2, <3>3 DEF SlotInv, Staging
    <2>8. PhaseInv'
      <3>1. \A f \in disk'.seg : f <= counter'
        BY Zenon, <1>10, <2>4
      <3>2. proc' = "up" /\ new \notin disk'.seg
        BY Zenon, <1>1, <1>5, <2>4
      <3>3. QED
        BY Zenon, <2>5, <3>1, <3>2 DEF PhaseInv, Staging
    <2>9. RetiredUnlinked'
      BY Zenon, <1>3, <1>5, <2>4, <2>5 DEF RetiredUnlinked, LifeInv, PhaseInv
    <2>10. QED
      BY Zenon, <1>3, <2>6, <2>7, <2>8, <2>9 DEF LifeInv
  <1>7. CASE Build
    <2>1. PICK src \in m.todo : /\ m' = [m EXCEPT !.at = "built", !.out = new, !.src = src, !.todo = @ \ {src}]
                               /\ disk' = [disk EXCEPT !.seg = @ \cup {new}]
                               /\ m.at = "next"
      BY Zenon, <1>2, <1>7 DEF Build
    <2>2. \A f \in m.todo : f \in Files /\ f <= counter /\ f # new /\ Sound(life'[f])
      BY SMTT(30), <1>0, <1>1, <1>2, <1>3 DEF LifeInv, SlotInv
    <2>3. m' \in Passes
      <3>1. src \in 0 .. MaxFiles /\ new \in 0 .. MaxFiles /\ "built" \in Ats
        BY <1>0, <1>2, <2>2 DEF Files, Ats
      <3>2. QED
        BY Zenon, <1>0, <2>1, <3>1 DEF Passes
    <2>4. disk' \in Disks /\ disk'.seg = disk.seg \cup {new}
      BY Zenon, <1>0, <1>2, <2>1 DEF Disks
    <2>5. /\ m'.op = m.op /\ m'.at = "built" /\ m'.run = m.run /\ m'.out = new /\ m'.src = src
          /\ m'.todo = m.todo \ {src} /\ m'.reap = m.reap /\ m.op # "idle" /\ m.op # "merge"
      BY SMTT(30), <1>0, <2>1 DEF Passes, LifeInv, PhaseInv, Idle
    <2>6. LifeType'
      BY SMTT(30), <1>0, <1>1, <1>2, <1>3, <2>3, <2>4 DEF LifeInv, LifeType, Files
    <2>7. SlotInv'
      <3>1. \A f \in m.run \cup m.todo : f <= new /\ f # new
        <4>1. \A f \in m.run \cup m.todo : f <= counter /\ f \in Files
          BY Zenon, <1>0 DEF LifeInv, SlotInv
        <4>2. QED
          BY Zenon, <1>0, <1>9, <4>1
      <3>2. \A f \in m'.todo \cup m'.run : f <= counter'
        BY Zenon, <3>1, <1>9, <2>5
      <3>3. m'.out # None /\ m'.out <= counter' /\ Sound(life'[m'.out]) /\ m'.out \notin m'.run
        BY Zenon, <3>1, <1>0, <1>9, <1>3, <2>5
      <3>4. m'.src # None /\ m'.src # m'.out /\ Sound(life'[m'.src]) /\ m'.src \notin m'.todo
        BY Zenon, <1>0, <2>2, <2>5
      <3>5. segs' = segs /\ \A i \in 1 .. Len(segs) : segs[i] <= counter'
        BY Zenon, <1>1, <1>4, <1>9
      <3>6. QED
        BY Zenon, <1>1, <1>4, <2>2, <2>5, <3>2, <3>3, <3>4, <3>5 DEF SlotInv, Staging
    <2>8. PhaseInv'
      <3>1. \A f \in disk'.seg : f <= counter'
        BY Zenon, <1>10, <2>4
      <3>2. proc' = "up"
        BY Zenon, <1>1, <1>5, <2>4
      <3>3. QED
        BY Zenon, <2>5, <3>1, <3>2 DEF PhaseInv, Staging
    <2>9. RetiredUnlinked'
      BY SMTT(30), <1>3, <1>5, <2>4, <2>5 DEF RetiredUnlinked, LifeInv, Mapped
    <2>10. QED
      BY Zenon, <1>3, <2>6, <2>7, <2>8, <2>9 DEF LifeInv
  <1>8. QED
    BY Zenon, <1>6, <1>7

\* A step of a pass that retires the files of a set and gives up their slots.
LEMMA ReplaceLife ==
  ASSUME LifeInv, proc = "up", NEW gone \in SUBSET Files,
         life' = [f \in Files |-> IF f \in gone THEN Retire(life[f]) ELSE life[f]],
         UNCHANGED <<rd, counter, proc>>,
         segs' \in Seq(0 .. MaxFiles), m' \in Passes, disk' \in Disks, disk'.seg = disk.seg,
         \A i \in 1 .. Len(segs') : segs'[i] = None \/
           (segs'[i] \in Files \ gone /\ segs'[i] <= counter /\ Sound(life[segs'[i]])),
         m'.at \in {"rest", "reap", "next"}, m'.op = "idle" => m' = Idle, m'.op = "merge" => m'.todo = {},
         \A f \in m'.todo \cup m'.run : f <= counter,
         \A f \in m'.todo : Sound(life[f]) /\ f \notin gone,
         \A f \in gone : f \in disk.seg => Sound(life[f]) /\ (ReapNow(life[f]) => f \in m'.reap),
         m.reap \subseteq m'.reap
  PROVE  LifeInv'
  <1>0. /\ MaxFiles \in Nat /\ counter \in Nat /\ m'.todo \subseteq Files
        /\ \A f \in Files : f \in Nat /\ f # None /\ life[f] \in Lives
    BY Zenon, TypeFacts DEF LifeInv, Passes
  <1>1. /\ life' \in [Files -> Lives] /\ PinInv'
        /\ \A f \in Files : f \notin gone => life'[f] = life[f]
        /\ \A f \in Files : life'[f].pins = life[f].pins
        /\ \A f \in gone : Sound(life[f]) => (life'[f].pins # {} \/ ReapNow(life[f]))
    BY Zenon, RetireSet
  <1>2. LifeType'
    BY Zenon, <1>1 DEF LifeInv, LifeType, Files
  <1>3. SlotInv'
    <2>1. \A i \in 1 .. Len(segs') : segs'[i] <= counter
      BY SMTT(30), <1>0 DEF None
    <2>2. \A i \in 1 .. Len(segs') : segs'[i] # None => Sound(life'[segs'[i]])
      BY Zenon, <1>1
    <2>3. \A f \in m'.todo : Sound(life'[f])
      BY Zenon, <1>0, <1>1
    <2>4. QED
      BY Zenon, <2>1, <2>2, <2>3 DEF SlotInv, Staging
  <1>4. PhaseInv'
    BY Zenon DEF LifeInv, PhaseInv, Staging
  <1>5. RetiredUnlinked'
    <2> SUFFICES ASSUME NEW f \in disk.seg, life'[f].retired PROVE life'[f].pins # {} \/ f \in m'.reap
      BY Zenon DEF RetiredUnlinked
    <2>1. f \in Files
      BY Zenon DEF LifeInv, LifeType, Disks
    <2>2. CASE f \in gone
      BY Zenon, <2>2, <1>1
    <2>3. CASE f \notin gone
      BY Zenon, <2>1, <2>3, <1>1 DEF LifeInv, RetiredUnlinked
    <2>4. QED
      BY Zenon, <2>2, <2>3
  <1>6. QED
    BY Zenon, <1>1, <1>2, <1>3, <1>4, <1>5 DEF LifeInv

\* A merge's output replaces its sources.
LEMMA PublishLife ==
  ASSUME LifeInv, PublishOut
  PROVE  LifeInv'
  <1>0. /\ MaxFiles \in Nat /\ counter \in Nat
        /\ \A f \in Files : f \in Nat /\ f # None /\ life[f] \in Lives
        /\ \A i \in 1 .. Len(segs) : segs[i] \in 0 .. MaxFiles
        /\ m \in Passes /\ disk \in Disks /\ m.run \in SUBSET Files /\ m.out \in 0 .. MaxFiles
    BY Zenon, TypeFacts DEF LifeInv, LifeType, Passes
  <1>1. /\ proc = "up" /\ m.at = "renamed" /\ UNCHANGED <<rd, counter, proc, disk>>
        /\ life' = [f \in Files |-> IF f \in m.run THEN Retire(life[f]) ELSE life[f]]
        /\ m' = [m EXCEPT !.at = "reap", !.reap = {f \in m.run : ReapNow(life[f])}]
    BY Zenon DEF PublishOut, names
  <1>2. /\ m.op = "merge" /\ m.reap = {} /\ m.todo = {}
        /\ \A f \in m.run : f <= counter /\ Sound(life[f])
        /\ m.out # None /\ m.out <= counter /\ Sound(life[m.out]) /\ m.out \notin m.run
    BY Zenon, <1>1 DEF LifeInv, SlotInv, PhaseInv, Staging
  <1>3. PICK first : segs' = [i \in 1 .. Len(segs) |-> IF segs[i] \notin m.run THEN segs[i]
                                                    ELSE IF segs[i] = first THEN m.out ELSE None]
    BY Zenon DEF PublishOut
  <1>4. Len(segs) \in Nat /\ segs' \in Seq(0 .. MaxFiles) /\ Len(segs') = Len(segs)
    BY <1>0, <1>3 DEF LifeInv, LifeType, None
  <1>5. \A i \in 1 .. Len(segs') : segs'[i] = None \/
           (segs'[i] \in Files \ m.run /\ segs'[i] <= counter /\ Sound(life[segs'[i]]))
    <2> SUFFICES ASSUME NEW i \in 1 .. Len(segs), segs'[i] # None
                 PROVE  segs'[i] \in Files \ m.run /\ segs'[i] <= counter /\ Sound(life[segs'[i]])
      BY Zenon, <1>4
    <2>1. segs[i] # None => segs[i] \in Files /\ segs[i] <= counter /\ Sound(life[segs[i]])
      BY SMTT(30), <1>0, <1>1 DEF LifeInv, SlotInv, Files, None
    <2>2. m.out \in Files
      BY SMTT(30), <1>0, <1>2 DEF Files, None
    <2>3. QED
      BY Zenon, <1>2, <1>3, <2>1, <2>2
  <1>6. m' \in Passes
    <2>1. {f \in m.run : ReapNow(life[f])} \in SUBSET Files /\ "reap" \in Ats
      BY Zenon, <1>0 DEF Ats
    <2>2. QED
      BY Zenon, <1>0, <1>1, <2>1 DEF Passes
  <1>7. /\ m'.op = "merge" /\ m'.at = "reap" /\ m'.todo = {} /\ m'.run = m.run
        /\ m'.reap = {f \in m.run : ReapNow(life[f])}
    BY Zenon, <1>0, <1>1, <1>2 DEF Passes
  <1>8. QED
    BY Zenon, <1>0, <1>1, <1>2, <1>4, <1>5, <1>6, <1>7, ReplaceLife

\* A merge that fails gives up its output; a reseal's takes its source's slot.
LEMMA SwapLife ==
  ASSUME LifeInv, MergeAborts \/ Swap
  PROVE  LifeInv'
  <1>0. /\ MaxFiles \in Nat /\ counter \in Nat /\ Len(segs) \in Nat /\ segs \in Seq(0 .. MaxFiles)
        /\ \A f \in Files : f \in Nat /\ f # None /\ life[f] \in Lives
        /\ \A i \in 1 .. Len(segs) : segs[i] \in 0 .. MaxFiles
        /\ m \in Passes /\ disk \in Disks /\ m.out \in 0 .. MaxFiles /\ m.src \in 0 .. MaxFiles
    BY SMTT(30), TypeFacts DEF LifeInv, LifeType, Passes
  <1>1. proc = "up" /\ UNCHANGED <<rd, counter, proc>> /\ life = [f \in Files |-> life[f]]
    BY Zenon DEF MergeAborts, Swap, mem, LifeInv, LifeType
  <1>2. \A i \in 1 .. Len(segs) :
          segs[i] = None \/ (segs[i] \in Files /\ segs[i] <= counter /\ Sound(life[segs[i]]))
    BY SMTT(30), <1>0, <1>1 DEF LifeInv, SlotInv, Files, None
  <1>3. CASE MergeAborts
    <2>1. /\ m.at \in {"staged", "marking", "marked"} /\ segs' = segs /\ m' = Idle
          /\ life' = [life EXCEPT ![m.out] = Retire(@)]
      BY Zenon, <1>3 DEF MergeAborts, mem
    <2>2. /\ m.reap = {} /\ m.out \in Files /\ m.out \notin disk.seg
          /\ \A i \in 1 .. Len(segs) : segs[i] # m.out
      BY SMTT(30), <1>0, <2>1 DEF LifeInv, SlotInv, PhaseInv, Staging, Files, None
    <2>3. PICK gone \in SUBSET Files : gone = {m.out}
      BY Zenon, <2>2
    <2>4. life' = [f \in Files |-> IF f \in gone THEN Retire(life[f]) ELSE life[f]]
      BY Zenon, <1>1, <2>1, <2>2, <2>3
    <2>5. disk' \in Disks /\ disk'.seg = disk.seg
      <3>1. PICK marker \in SUBSET disk.marker :
              disk' = [disk EXCEPT !.tmp = @ \ {m.out}, !.marker = marker]
        BY Zenon, <1>3 DEF MergeAborts
      <3>2. QED
        BY Zenon, <1>0, <3>1 DEF Disks
    <2>6. m' \in Passes /\ m'.at = "rest" /\ m'.todo = {} /\ m'.run = {} /\ m'.op = "idle"
      BY Zenon, <2>1, RestFacts DEF Idle
    <2>7. segs' \in Seq(0 .. MaxFiles) /\ \A i \in 1 .. Len(segs') : segs'[i] = None \/
            (segs'[i] \in Files \ gone /\ segs'[i] <= counter /\ Sound(life[segs'[i]]))
      BY Zenon, <1>0, <1>2, <2>1, <2>2, <2>3
    <2>8. \A f \in gone : f \in disk.seg => Sound(life[f]) /\ (ReapNow(life[f]) => f \in m'.reap)
      BY Zenon, <2>2, <2>3
    <2>9. m.reap \subseteq m'.reap /\ \A f \in m'.todo \cup m'.run : FALSE
      BY Zenon, <2>2, <2>6
    <2>10. QED
      BY Zenon, <1>1, <2>1, <2>4, <2>5, <2>6, <2>7, <2>8, <2>9, ReplaceLife
  <1>4. CASE Swap
    <2>1. PICK at \in {"reap", "next"}, reap \in SUBSET (m.reap \cup {m.src}) :
          /\ m' = [m EXCEPT !.out = None, !.src = None, !.changed = TRUE, !.at = at, !.reap = reap]
          /\ m.reap \subseteq reap /\ (ReapNow(life[m.src]) => m.src \in reap)
      <3>1. PICK reap : reap = IF ReapNow(life[m.src]) THEN m.reap \cup {m.src} ELSE m.reap
        BY Zenon
      <3>2. PICK at : at = IF m.op = "upgrade" THEN "reap" ELSE "next"
        BY Zenon
      <3>3. m' = [m EXCEPT !.out = None, !.src = None, !.changed = TRUE, !.at = at, !.reap = reap]
        BY Zenon, <1>0, <1>4, <3>1, <3>2 DEF Swap, Passes
      <3>4. at \in {"reap", "next"} /\ reap \in SUBSET (m.reap \cup {m.src})
            /\ m.reap \subseteq reap /\ (ReapNow(life[m.src]) => m.src \in reap)
        BY Zenon, <3>1, <3>2
      <3>5. QED
        BY Zenon, <3>3, <3>4
    <2>2. /\ m.at = "built" /\ disk' = disk /\ life' = [life EXCEPT ![m.src] = Retire(@)]
          /\ segs' = [i \in 1 .. Len(segs) |-> IF segs[i] = m.src THEN m.out ELSE segs[i]]
      BY Zenon, <1>4 DEF Swap, names
    <2>3. /\ m.src \in Files /\ m.out \in Files /\ m.src # m.out /\ m.out <= counter
          /\ Sound(life[m.src]) /\ Sound(life[m.out]) /\ m.src \notin m.todo
          /\ m.op # "idle" /\ m.op # "merge"
      BY SMTT(30), <1>0, <2>2 DEF LifeInv, SlotInv, PhaseInv, Idle, Files, None
    <2>4. PICK gone \in SUBSET Files : gone = {m.src}
      BY Zenon, <2>3
    <2>5. life' = [f \in Files |-> IF f \in gone THEN Retire(life[f]) ELSE life[f]]
      BY Zenon, <1>1, <2>2, <2>3, <2>4
    <2>6. segs' \in Seq(0 .. MaxFiles) /\ Len(segs') = Len(segs)
      BY SMTT(30), <1>0, <2>2
    <2>7. \A i \in 1 .. Len(segs') : segs'[i] = None \/
            (segs'[i] \in Files \ gone /\ segs'[i] <= counter /\ Sound(life[segs'[i]]))
      BY Zenon, <1>2, <2>2, <2>3, <2>4, <2>6
    <2>8. m' \in Passes
      <3>1. None \in 0 .. MaxFiles /\ at \in Ats /\ reap \in SUBSET Files /\ TRUE \in BOOLEAN
        BY <1>0, <2>1, <2>3 DEF None, Ats, Passes
      <3>2. QED
        BY Zenon, <1>0, <2>1, <3>1 DEF Passes
    <2>9. m'.op = m.op /\ m'.at = at /\ m'.todo = m.todo /\ m'.run = m.run /\ m'.reap = reap
      BY Zenon, <1>0, <2>1 DEF Passes
    <2>10. \A f \in m.todo \cup m.run : f <= counter
      BY Zenon DEF LifeInv, SlotInv
    <2>11. \A f \in m.todo : Sound(life[f]) /\ f \notin gone
      BY Zenon, <2>3, <2>4 DEF LifeInv, SlotInv
    <2>12. \A f \in gone : f \in disk.seg => Sound(life[f]) /\ (ReapNow(life[f]) => f \in m'.reap)
      BY Zenon, <2>1, <2>3, <2>4, <2>9
    <2>13. m'.at \in {"rest", "reap", "next"} /\ m'.op # "idle" /\ m'.op # "merge" /\ m.reap \subseteq m'.reap
      BY Zenon, <2>1, <2>3, <2>9
    <2>14. disk' \in Disks /\ disk'.seg = disk.seg
      BY Zenon, <1>0, <2>2
    <2>15. /\ \A f \in m'.todo \cup m'.run : f <= counter
           /\ \A f \in m'.todo : Sound(life[f]) /\ f \notin gone
      BY Zenon, <2>9, <2>10, <2>11
    <2>16. QED
      BY Zenon, <1>1, <2>5, <2>6, <2>7, <2>8, <2>12, <2>13, <2>14, <2>15, ReplaceLife
  <1>5. QED
    BY Zenon, <1>3, <1>4

\* Every step keeps the invariant.
LEMMA NextLife == LifeInv /\ [Next]_vars => LifeInv'
  <1> SUFFICES ASSUME LifeInv, [Next]_vars PROVE LifeInv'
    OBVIOUS
  <1>1. CASE UNCHANGED vars \/ OpenFails
    BY Zenon, <1>1, OutsideLife DEF OpenFails, vars, store, mem, names
  <1>2. CASE Appending
    <2>1. ASSUME NEW a, Encode(a) PROVE LifeInv'
      BY Zenon, <2>1, OutsideLife DEF Encode, store, mem, names
    <2>2. QED
      BY Zenon, <1>2, <2>1, CommitLife DEF Appending
  <1>3. CASE Reading
    BY Zenon, <1>3, BeginLife, VisitLife, ReleaseLife DEF Reading
  <1>4. CASE Keeping
    <2>1. ASSUME NEW v, SetRetention(v) \/ SetGCFloor(v) PROVE LifeInv'
      BY Zenon, <2>1, OutsideLife DEF SetRetention, SetGCFloor, store, mem, names
    <2>2. QED
      BY Zenon, <1>4, <2>1, DroppingLife DEF Keeping
  <1>5. CASE Merging
    BY Zenon, <1>5, MergeNamesLife, OutputLife, PublishLife, SwapLife DEF Merging
  <1>6. CASE Resealing \/ Reap
    BY Zenon, <1>6, StartLife, BetweenLife, OutputLife, SwapLife, ReapLife DEF Resealing
  <1>7. CASE Stopping
    BY Zenon, <1>1, <1>7, DroppingLife, StopLife, RecoverLife DEF Stopping
  <1>8. QED
    BY Zenon, <1>1, <1>2, <1>3, <1>4, <1>5, <1>6, <1>7 DEF Next

\* No scan of an archive touches a mapping that is gone (segment.pin, unpin,
\* retire and closeUnmap), for every number of readers and files and every
\* order of appends, rotations, merges, reseals, closes and deaths.
THEOREM ArchivePinnedMapped == Spec => []PinnedMapped
  <1>1. LifeInv => PinnedMapped
    BY Zenon DEF LifeInv, PinInv, PinnedMapped
  <1>2. QED
    BY <1>1, InitLife, NextLife, PTL DEF Spec

\* A retired segment's file is unlinked by whoever lets go of it last: while
\* it is in the directory a reader pins it or the pass is about to reap it.
THEOREM ArchiveRetiredUnlinked == Spec => []RetiredUnlinked
  <1>1. LifeInv => RetiredUnlinked
    BY Zenon DEF LifeInv
  <1>2. QED
    BY <1>1, InitLife, NextLife, PTL DEF Spec
=============================================================================
