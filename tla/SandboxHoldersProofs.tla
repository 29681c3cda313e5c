----------------------- MODULE SandboxHoldersProofs -----------------------
(***************************************************************************)
(* Theorems about the holders of a session's container, for any number of  *)
(* turns, hosts, containers and faults.                                    *)
(*                                                                         *)
(* A container is made by one process, which alone knows it until it is    *)
(* published; a process destroys only what it has condemned; and what is   *)
(* condemned is neither recorded on the session's row nor in the making,   *)
(* unless a starting process listed it before it was published or its      *)
(* publisher was not told of it (it is exposed).  An id that left the row  *)
(* never comes back, because only its maker could publish it.  The lemmas  *)
(* of the second part sum up what any step does to the row, the daemons,   *)
(* the turns, the preview and the condemned; the invariants follow from    *)
(* these effects.                                                          *)
(***************************************************************************)
EXTENDS SandboxHolders, TLAPS

(* Leaves are given half a minute of each prover. *)
USE SMTT(30), ZenonT(30)


(* The process of turn t has decided to destroy its container.             *)
TurnDooms(t) == turn[t].pc \in {"lost", "rebuild", "destroy", "unheld"}

(* Somebody has decided to destroy c.                                      *)
Condemned(c) ==
  \/ \E t \in Turns : TurnDooms(t) /\ turn[t].c = c
  \/ preview.pc \in {"lost", "destroy", "failed"} /\ preview.c = c
  \/ stopper.pc = "destroy" /\ stopper.w = c
  \/ c \in doomed
  \/ rc.pc = "destroy" /\ rc.c = c

(* Somebody has created c and not yet tried to publish it.                 *)
Making(c) ==
  \/ \E t \in Turns : turn[t].pc = "created" /\ turn[t].c = c
  \/ preview.pc = "publish" /\ preview.c = c

(* Somebody knows c.                                                       *)
Known(c) ==
  \/ row.container = c \/ Condemned(c) \/ preview.c = c
  \/ \E t \in Turns : turn[t].c = c

(* A container that may be recorded on the row.                            *)
Sound(c) ==
  /\ docker[c].st # "absent"
  /\ c \in exposed \/ (docker[c].st # "removed" /\ ~Condemned(c))

(* The daemons handed out every container that somebody knows; the row and *)
(* the makers have sound ones.                                             *)
KnownInv ==
  \A c \in Containers :
    /\ Known(c) => docker[c].st # "absent"
    /\ row.container = c => Sound(c) /\ ~Making(c)
    /\ Making(c) => Sound(c)

(* A container in the making is known to its maker only.                   *)
MakerInv ==
  /\ \A t \in Turns : turn[t].pc = "created" =>
       /\ turn[t].c # preview.c
       /\ \A u \in Turns \ {t} : turn[u].c # turn[t].c
  /\ preview.pc = "publish" => \A t \in Turns : turn[t].c # preview.c

(* Processes in these places have a container; a preview that read the row *)
(* before it reserved says so.                                             *)
WithBox == {"created", "elsewhere", "reuse", "held", "pinned", "fenced", "owned", "run"}

PlaceInv ==
  /\ \A t \in Turns : turn[t].pc \in WithBox => turn[t].c # None
  /\ preview.pc \in {"up", "publish"} => preview.c # None
  /\ preview.pc \in {"warmRead", "warmWrong"} => preview.warm

(* A preview that read the row under its own hold still finds it there.    *)
ReadUnderHold ==
  preview.hold /\ ~preview.warm /\ preview.pc \in {"read", "up"} /\ preview.c # None

HoldInv == ReadUnderHold => row.container = preview.c

(* A review turn that joined under its lease still finds the container.    *)
Fenced(t) ==
  row.review /\ holder[t] = "live" /\ turn[t].pc \in {"fenced", "owned", "run"}

FenceInv == \A t \in Turns : Fenced(t) => row.container = turn[t].c

BoxInv == BoxTypeOK /\ KnownInv /\ MakerInv /\ PlaceInv /\ HoldInv /\ FenceInv

-----------------------------------------------------------------------------
(* The types of the records.                                               *)
Box == Containers \cup {None}
Host == Nodes \cup {None}
RowType == [container : Box, node : Host, turnHold : BOOLEAN,
            status : {"idle", "running"}, review : BOOLEAN]
TurnType == [pc : TurnPlace, node : Host, c : Box, w : Box]
PreviewType == [pc : PreviewPlace, hold : BOOLEAN, warm : BOOLEAN, node : Host, c : Box]
StopType == [pc : {"idle", "finalize", "destroy"}, w : Box]
RcType == [pc : {"idle", "listed", "destroy"}, c : Box]
DockerType == [Containers -> [st : {"absent", "up", "gone", "removed"}, node : Host]]
HolderType == [Turns -> {"none", "live", "lapsed", "revived"}]

(* A container that this step creates.                                     *)
New(c) == c \in Containers /\ docker[c].st = "absent" /\ docker'[c].st = "up"

(* A container that this step may publish.                                 *)
MayPublish(c) == Making(c) /\ ~Making(c)' /\ (c \in exposed' \/ ~Condemned(c)')

(* The row keeps its container, loses it with nobody's hold in the way, or *)
(* gets one that was in the making.                                        *)
RowEffect ==
  /\ row' \in RowType /\ row'.review = row.review
  /\ \/ row'.container = row.container
     \/ row'.container = None /\ ~preview.hold /\ ~LiveHolder
     \/ \E c \in Containers :
          row.container = None /\ row'.container = c /\ MayPublish(c)

(* Only a condemned container is removed.                                  *)
DockerEffect ==
  /\ docker' \in DockerType
  /\ \A c \in Containers :
       \/ docker'[c].st = docker[c].st
       \/ docker[c].st = "up" /\ docker'[c].st = "gone"
       \/ docker[c].st = "up" /\ docker'[c].st = "removed" /\ Condemned(c)
       \/ docker[c].st = "absent" /\ docker'[c].st = "up"

(* What a step may condemn: a known container that afterwards is exposed,  *)
(* or neither recorded nor in the making.                                  *)
MayDoom(c) ==
  /\ docker[c].st # "absent"
  /\ c \in exposed' \/ (row'.container # c /\ ~Making(c)')

DoomEffect ==
  \A c \in Containers : Condemned(c)' => Condemned(c) \/ MayDoom(c)

(* A process learns a container from the row or creates it.                *)
Learns(old, new) == new \in {None, old, row.container} \/ New(new)

TurnLearns(t) ==
  /\ Learns(turn[t].c, turn'[t].c)
  /\ turn'[t].pc = "created" =>
       New(turn'[t].c) \/ (turn[t].pc = "created" /\ turn'[t].c = turn[t].c)
  /\ turn'[t].pc \in WithBox => turn'[t].c # None

TurnsEffect == turn' \in [Turns -> TurnType] /\ \A t \in Turns : TurnLearns(t)

PreviewEffect ==
  /\ preview' \in PreviewType
  /\ Learns(preview.c, preview'.c)
  /\ preview'.pc = "publish" =>
       New(preview'.c) \/ (preview.pc = "publish" /\ preview'.c = preview.c)
  /\ preview'.pc \in {"up", "publish"} => preview'.c # None
  /\ preview'.pc \in {"warmRead", "warmWrong"} => preview'.warm
  /\ ReadUnderHold' =>
       (ReadUnderHold /\ preview'.c = preview.c) \/ row'.container = preview'.c

FenceKept(t) ==
  Fenced(t)' => (Fenced(t) /\ turn'[t].c = turn[t].c) \/ row'.container = turn'[t].c

(* At most one process changes.                                            *)
Lone ==
  \/ turn' = turn
  \/ preview' = preview /\ \E t \in Turns : \A u \in Turns \ {t} : turn'[u] = turn[u]

(* The variables no invariant but the type is about.                       *)
OtherTypes ==
  /\ holder' \in HolderType /\ retained' \in BOOLEAN
  /\ stopper' \in StopType /\ doomed' \subseteq Containers
  /\ rc' \in RcType /\ faults' \in 0..MaxFaults

(* What was exposed stays so.                                              *)
ExposedEffect == exposed \subseteq exposed' /\ exposed' \subseteq Containers

Effect ==
  /\ RowEffect /\ DockerEffect /\ DoomEffect /\ TurnsEffect /\ PreviewEffect /\ ExposedEffect
  /\ Lone /\ OtherTypes
  /\ \A t \in Turns : FenceKept(t)

(* The invariants follow from the effects.                                 *)
LEMMA KnownStep == BoxInv /\ Effect => KnownInv'
<1> SUFFICES ASSUME BoxInv, Effect, NEW c \in Containers
             PROVE  /\ (Known(c) => docker[c].st # "absent")'
                    /\ (row.container = c => Sound(c) /\ ~Making(c))'
                    /\ (Making(c) => Sound(c))'
  BY DEF KnownInv
<1>1. c # None
  BY BoxAssumption
<1>2. Making(c)' => Making(c) \/ New(c)
  BY DEF Effect, TurnsEffect, TurnLearns, PreviewEffect, Making
<1>3. (docker'[c].st = "absent" => docker[c].st = "absent") /\ (New(c) => docker'[c].st = "up")
  BY DEF Effect, DockerEffect, New
<1>4. Condemned(c)' => Condemned(c) \/ MayDoom(c)
  BY DEF Effect, DoomEffect
<1>5. /\ Known(c) => docker[c].st # "absent"
      /\ row.container = c => Sound(c) /\ ~Making(c)
      /\ Making(c) => Sound(c)
  BY DEF BoxInv, KnownInv
<1>6. (\E t \in Turns : turn[t].c = c)' =>
         (\E t \in Turns : turn[t].c = c) \/ row.container = c \/ New(c)
  BY <1>1 DEF Effect, TurnsEffect, TurnLearns, Learns
<1>7. preview'.c = c => preview.c = c \/ row.container = c \/ New(c)
  BY <1>1 DEF Effect, PreviewEffect, Learns
<1>8. row'.container = c =>
        \/ row.container = c
        \/ Making(c) /\ ~Making(c)' /\ (c \in exposed' \/ ~Condemned(c)')
  BY <1>1 DEF Effect, RowEffect, MayPublish
<1>9. Known(c) \/ Making(c) => docker[c].st # "absent"
  BY <1>5 DEF Sound
<1>10. (Known(c) => docker[c].st # "absent")'
  BY <1>3, <1>4, <1>6, <1>7, <1>8, <1>9 DEF Known, MayDoom, New
<1>11. Sound(c) => /\ docker'[c].st # "absent"
                   /\ c \in exposed' \/ (docker'[c].st # "removed" /\ ~Condemned(c))
  BY DEF Effect, DockerEffect, ExposedEffect, Sound
<1>12. (row.container = c => Sound(c) /\ ~Making(c))'
  <2> SUFFICES ASSUME row'.container = c PROVE Sound(c)' /\ ~Making(c)'
    OBVIOUS
  <2>1. CASE row.container = c
    BY <2>1, <1>2, <1>4, <1>5, <1>11 DEF Sound, MayDoom, New
  <2>2. CASE Making(c) /\ ~Making(c)' /\ (c \in exposed' \/ ~Condemned(c)')
    BY <2>2, <1>5, <1>11 DEF Sound
  <2> QED
    BY <2>1, <2>2, <1>8
<1>13. (Making(c) => Sound(c))'
  <2> SUFFICES ASSUME Making(c)' PROVE Sound(c)'
    OBVIOUS
  <2>1. CASE Making(c)
    BY <2>1, <1>4, <1>5, <1>11 DEF Sound, MayDoom
  <2>2. CASE New(c)
    BY <2>2, <1>4, <1>9 DEF Sound, Known, MayDoom, New
  <2> QED
    BY <2>1, <2>2, <1>2
<1> QED
  BY <1>10, <1>12, <1>13

(* A container in the making stays its maker's secret.                     *)
LEMMA MakerStep == BoxInv /\ Effect => MakerInv'
<1> SUFFICES ASSUME BoxInv, Effect PROVE MakerInv'
  OBVIOUS
<1>1. /\ \A t \in Turns : turn[t].c \in Box /\ turn'[t].c \in Box
      /\ preview.c \in Box /\ preview'.c \in Box
  BY DEF BoxInv, BoxTypeOK, Effect, TurnsEffect, PreviewEffect, TurnType, PreviewType, Box
<1>2. \A c \in Containers : New(c) =>
        row.container # c /\ preview.c # c /\ \A t \in Turns : turn[t].c # c
  BY DEF BoxInv, KnownInv, Known, New
<1>3. \A c \in Containers : Making(c) => row.container # c /\ c # None /\ ~New(c)
  BY BoxAssumption DEF BoxInv, KnownInv, Sound, New
<1>4. ASSUME NEW t \in Turns, turn'[t].pc = "created"
      PROVE  turn'[t].c # preview'.c /\ \A u \in Turns \ {t} : turn'[u].c # turn'[t].c
  <2>1. turn'[t].c \in Containers
    BY <1>1, <1>4, BoxAssumption DEF Effect, TurnsEffect, TurnLearns, WithBox, Box
  <2>2. CASE New(turn'[t].c)
    <3>1. turn'[t] # turn[t]
      BY <1>2, <2>1, <2>2
    <3>2. preview' = preview /\ \A u \in Turns \ {t} : turn'[u] = turn[u]
      BY <3>1 DEF Effect, Lone
    <3> QED
      BY <1>2, <2>1, <2>2, <3>2
  <2>3. CASE turn[t].pc = "created" /\ turn'[t].c = turn[t].c
    <3>1. Making(turn[t].c)
      BY <2>3 DEF Making
    <3>2. turn[t].c # preview.c /\ \A u \in Turns \ {t} : turn[u].c # turn[t].c
      BY <2>3 DEF BoxInv, MakerInv
    <3> QED
      BY <1>3, <2>1, <2>3, <3>1, <3>2
         DEF Effect, TurnsEffect, TurnLearns, PreviewEffect, Learns
  <2> QED
    BY <1>4, <2>2, <2>3 DEF Effect, TurnsEffect, TurnLearns
<1>5. ASSUME preview'.pc = "publish", NEW t \in Turns
      PROVE  turn'[t].c # preview'.c
  <2>1. preview'.c \in Containers
    BY <1>1, <1>5, BoxAssumption DEF Effect, PreviewEffect, Box
  <2>2. CASE New(preview'.c)
    <3>1. turn' = turn
      BY <1>2, <2>1, <2>2 DEF Effect, Lone
    <3> QED
      BY <1>2, <2>1, <2>2, <3>1
  <2>3. CASE preview.pc = "publish" /\ preview'.c = preview.c
    <3>1. Making(preview.c) /\ turn[t].c # preview.c
      BY <2>3 DEF Making, BoxInv, MakerInv
    <3> QED
      BY <1>3, <2>1, <2>3, <3>1 DEF Effect, TurnsEffect, TurnLearns, Learns
  <2> QED
    BY <1>5, <2>2, <2>3 DEF Effect, PreviewEffect
<1> QED
  BY <1>4, <1>5 DEF MakerInv

(* The containers of held previews and of fenced turns stay recorded.      *)
LEMMA HeldStep == BoxInv /\ Effect => PlaceInv' /\ HoldInv' /\ FenceInv'
<1> SUFFICES ASSUME BoxInv, Effect PROVE PlaceInv' /\ HoldInv' /\ FenceInv'
  OBVIOUS
<1>1. PlaceInv'
  BY DEF Effect, TurnsEffect, TurnLearns, PreviewEffect, PlaceInv
<1>2. HoldInv'
  BY DEF Effect, PreviewEffect, RowEffect, HoldInv, ReadUnderHold, BoxInv
<1>3. ASSUME NEW t \in Turns, Fenced(t)' PROVE row'.container = turn'[t].c
  <2>1. CASE Fenced(t) /\ turn'[t].c = turn[t].c
    <3>1. LiveHolder /\ turn[t].c # None /\ row.container = turn[t].c
      BY <2>1 DEF LiveHolder, Fenced, BoxInv, PlaceInv, WithBox, FenceInv
    <3> QED
      BY <2>1, <3>1 DEF Effect, RowEffect
  <2> QED
    BY <1>3, <2>1 DEF Effect, FenceKept
<1> QED
  BY <1>1, <1>2, <1>3 DEF FenceInv

(* Rows and processes keep their types.                                    *)
LEMMA TypeStep == BoxInv /\ Effect => BoxTypeOK'
BY DEF Effect, RowEffect, DockerEffect, TurnsEffect, PreviewEffect, OtherTypes, ExposedEffect,
       BoxTypeOK, RowType, DockerType, TurnType, PreviewType, HolderType, StopType, RcType, Box, Host

-----------------------------------------------------------------------------
(* The parts of the state and their types.                                 *)
LEMMA Types ==
  ASSUME BoxInv
  PROVE  /\ row \in RowType /\ docker \in DockerType /\ holder \in HolderType
         /\ retained \in BOOLEAN /\ turn \in [Turns -> TurnType]
         /\ preview \in PreviewType /\ stopper \in StopType
         /\ doomed \subseteq Containers /\ rc \in RcType
         /\ faults \in 0..MaxFaults /\ exposed \subseteq Containers
BY DEF BoxInv, BoxTypeOK, RowType, DockerType, TurnType, PreviewType, HolderType, StopType, RcType, Box, Host

(* A row with the container and the kind it had.                           *)
Same(r) == r \in RowType /\ r.container = row.container /\ r.review = row.review

(* A row that lost its container with nobody's hold in the way.            *)
Cleared(r) ==
  /\ r \in RowType /\ r.container = None /\ r.review = row.review
  /\ ~preview.hold /\ ~LiveHolder

(* The statements of the session store.                                    *)
LEMMA RowStatements ==
  ASSUME BoxInv, NEW c \in Box
  PROVE  /\ Same(row)
         /\ \A s \in {"idle", "running"} : Same([row EXCEPT !.status = s])
         /\ \A b \in BOOLEAN : Same([row EXCEPT !.turnHold = b])
         /\ \A n \in Host : Same([row EXCEPT !.node = n])
         /\ Same(AcquireExistingTurnHold(c)) /\ Same(ResetAfterLostReuse)
         /\ IF CanClear(c) THEN Cleared(ClearContainerID(c)) ELSE ClearContainerID(c) = row
         /\ IF CanFinalize(c) THEN Cleared(FinalizeContainerDestroy(c))
                              ELSE FinalizeContainerDestroy(c) = row
<1>1. row \in RowType
  BY Types
<1>2. /\ Same(row)
      /\ \A s \in {"idle", "running"} : Same([row EXCEPT !.status = s])
      /\ \A b \in BOOLEAN : Same([row EXCEPT !.turnHold = b])
      /\ \A n \in Host : Same([row EXCEPT !.node = n])
  BY <1>1 DEF Same, RowType
<1>3. Same(AcquireExistingTurnHold(c)) /\ Same(ResetAfterLostReuse)
  BY <1>2, Zenon DEF AcquireExistingTurnHold, ResetAfterLostReuse
<1>4. IF CanClear(c) THEN Cleared(ClearContainerID(c)) ELSE ClearContainerID(c) = row
  BY <1>1, Zenon DEF ClearContainerID, CanClear, Cleared, RowType, Box, Host
<1>5. IF CanFinalize(c) THEN Cleared(FinalizeContainerDestroy(c))
                        ELSE FinalizeContainerDestroy(c) = row
  BY <1>1, Zenon DEF FinalizeContainerDestroy, CanFinalize, CanClear, Cleared, RowType, Box, Host
<1> QED
  BY <1>2, <1>3, <1>4, <1>5

(* Rows of either kind are within the effect.                              *)
LEMMA RowKept ==
  ASSUME Same(row') \/ Cleared(row')
  PROVE  RowEffect
BY DEF Same, Cleared, RowEffect

(* Writing the status after another statement changes neither.             *)
LEMMA StatusWritten ==
  ASSUME NEW r, Same(r) \/ Cleared(r), NEW s \in {"idle", "running"}
  PROVE  Same([r EXCEPT !.status = s]) \/ Cleared([r EXCEPT !.status = s])
<1> DEFINE q == [r EXCEPT !.status = s]
<1>1. r \in RowType
  BY DEF Same, Cleared
<1>2. q \in RowType /\ q.container = r.container /\ q.review = r.review
  BY <1>1 DEF RowType
<1> HIDE DEF q
<1>3. Same(q) \/ Cleared(q)
  BY <1>2 DEF Same, Cleared
<1> QED
  BY <1>3 DEF q

(* The bound on faults is kept.                                            *)
LEMMA FaultCounts ==
  ASSUME BoxInv, faults' = faults \/ Fault
  PROVE  faults' \in 0..MaxFaults
BY BoxAssumption, Types DEF Fault

(* The calls of the container daemon.                                      *)
LEMMA DockerStill ==
  ASSUME BoxInv, docker' = docker
  PROVE  DockerEffect
BY Types DEF DockerEffect

(* A container that is gone was condemned, or nobody is told that it was   *)
(* removed.                                                                *)
LEMMA DockerDrops ==
  ASSUME BoxInv, NEW c \in Box, NEW n, NEW how \in {"gone", "removed"},
         docker' = Drop(c, n, how), how = "removed" => Condemned(c)
  PROVE  DockerEffect
<1>1. docker \in DockerType
  BY Types
<1>2. CASE ~Alive(c, n) \/ c = None
  <2>1. docker' = docker
    BY <1>1, <1>2, BoxAssumption DEF Drop, DockerType
  <2> QED
    BY <2>1, DockerStill
<1>3. CASE Alive(c, n) /\ c # None
  <2>1. c \in Containers /\ docker[c].st = "up"
    BY <1>3 DEF Alive, Box
  <2>2. docker' = [docker EXCEPT ![c] = [st |-> how, node |-> None]]
    BY <1>3 DEF Drop
  <2>3. docker' \in DockerType
    <3>1. [st |-> how, node |-> None] \in [st : {"absent", "up", "gone", "removed"}, node : Host]
      BY DEF Host
    <3> QED
      BY <1>1, <2>2, <3>1, Zenon DEF DockerType
  <2>4. docker'[c].st = how /\ \A d \in Containers \ {c} : docker'[d] = docker[d]
    BY <1>1, <2>1, <2>2 DEF DockerType
  <2> QED
    BY <2>1, <2>3, <2>4 DEF DockerEffect
<1> QED
  BY <1>2, <1>3

(* A destroy, of a condemned container, that may fail.                     *)
LEMMA DockerDestroys ==
  ASSUME BoxInv, NEW c \in Box, NEW n, Destroy(c, n), Condemned(c)
  PROVE  DockerEffect /\ faults' \in 0..MaxFaults
<1>1. CASE docker' = Drop(c, n, "removed") /\ UNCHANGED faults
  BY <1>1, DockerDrops, FaultCounts
<1>2. CASE Fault /\ UNCHANGED docker
  BY <1>2, DockerStill, FaultCounts
<1> QED
  BY <1>1, <1>2 DEF Destroy

(* A daemon hands out a container it never handed out before.              *)
LEMMA DockerCreates ==
  ASSUME BoxInv, NEW c \in Containers, NEW n \in Host, Create(c, n)
  PROVE  DockerEffect /\ New(c)
<1>1. docker \in DockerType
  BY Types
<1>2. docker' = [docker EXCEPT ![c] = [st |-> "up", node |-> n]] /\ docker[c].st = "absent"
  BY DEF Create
<1>3. docker' \in DockerType
  BY <1>1, <1>2 DEF DockerType
<1>4. docker'[c].st = "up" /\ \A d \in Containers \ {c} : docker'[d] = docker[d]
  BY <1>1, <1>2 DEF DockerType
<1> QED
  BY <1>2, <1>3, <1>4 DEF DockerEffect, New

-----------------------------------------------------------------------------
(* What a step of turn t does to its record.                               *)
TurnEffect(t) ==
  /\ turn' \in [Turns -> TurnType]
  /\ \A u \in Turns \ {t} : turn'[u] = turn[u] /\ holder'[u] = holder[u]
  /\ TurnLearns(t) /\ FenceKept(t)
  /\ TurnDooms(t)' =>
       \/ TurnDooms(t) /\ turn'[t].c = turn[t].c
       \/ \A c \in Containers : turn'[t].c = c => MayDoom(c)

(* A step of one turn is within the effect.                                *)
LEMMA TurnAlone ==
  ASSUME BoxInv, NEW t \in Turns, TurnEffect(t), RowEffect, DockerEffect,
         holder' \in HolderType, retained' \in BOOLEAN, faults' \in 0..MaxFaults,
         UNCHANGED <<preview, stopper, doomed, rc>>, exposed' = exposed \/ ExposedEffect
  PROVE  Effect
<1>1. OtherTypes /\ ExposedEffect
  BY Types DEF OtherTypes, ExposedEffect
<1>2. TurnsEffect
  BY DEF TurnsEffect, TurnEffect, TurnLearns, Learns, BoxInv, PlaceInv
<1>3. PreviewEffect
  BY Types DEF PreviewEffect, Learns, ReadUnderHold, BoxInv, PlaceInv
<1>4. Lone
  BY DEF Lone, TurnEffect
<1>5. DoomEffect
  <2> SUFFICES ASSUME NEW c \in Containers, Condemned(c)'
               PROVE  Condemned(c) \/ MayDoom(c)
    BY DEF DoomEffect
  <2>1. CASE \E u \in Turns : TurnDooms(u)' /\ turn'[u].c = c
    BY <2>1 DEF TurnEffect, TurnDooms, Condemned
  <2>2. CASE ~\E u \in Turns : TurnDooms(u)' /\ turn'[u].c = c
    BY <2>2 DEF Condemned
  <2> QED
    BY <2>1, <2>2
<1>6. \A u \in Turns : FenceKept(u)
  BY DEF TurnEffect, FenceKept, Fenced, RowEffect
<1> QED
  BY <1>1, <1>2, <1>3, <1>4, <1>5, <1>6 DEF Effect

(* A turn condemns nothing and knows what it knew or read.                 *)
LEMMA TurnRecord ==
  ASSUME BoxInv, NEW t \in Turns, NEW p \in TurnType, turn' = [turn EXCEPT ![t] = p],
         p.c \in {None, turn[t].c, row.container},
         p.pc \notin {"created", "lost", "rebuild", "destroy", "unheld"},
         p.pc \in WithBox => p.c # None,
         p.pc \in {"fenced", "owned", "run"} => FenceKept(t),
         \A u \in Turns \ {t} : holder'[u] = holder[u]
  PROVE  TurnEffect(t)
<1>1. turn \in [Turns -> TurnType]
  BY Types
<1>2. turn'[t] = p /\ turn' \in [Turns -> TurnType] /\ \A u \in Turns \ {t} : turn'[u] = turn[u]
  BY <1>1
<1>3. FenceKept(t)
  BY <1>2 DEF FenceKept, Fenced
<1> QED
  BY <1>2, <1>3 DEF TurnEffect, TurnLearns, Learns, TurnDooms

(* A turn gives up: its record is as before the claim.                     *)
LEMMA TurnLeaves ==
  ASSUME BoxInv, NEW t \in Turns, Leave(t),
         \A u \in Turns \ {t} : holder'[u] = holder[u]
  PROVE  TurnEffect(t)
<1>1. TurnIdle \in TurnType /\ TurnIdle.pc = "idle" /\ TurnIdle.c = None
  <2>1. None \in Box /\ None \in Host /\ "idle" \in TurnPlace
    BY DEF Box, Host, TurnPlace
  <2> QED
    BY <2>1 DEF TurnIdle, TurnType
<1> QED
  BY <1>1, TurnRecord, Zenon DEF Leave, WithBox

(* A turn goes to another place with the container it has.                 *)
LEMMA TurnAdvances ==
  ASSUME BoxInv, NEW t \in Turns, NEW pc \in TurnPlace, Goto(t, pc),
         pc \notin {"created", "lost", "rebuild", "destroy", "unheld"},
         pc \in WithBox => turn[t].pc \in WithBox \/ turn[t].c # None,
         pc \in {"fenced", "owned", "run"} => FenceKept(t),
         \A u \in Turns \ {t} : holder'[u] = holder[u]
  PROVE  TurnEffect(t)
<1> DEFINE p == [turn[t] EXCEPT !.pc = pc]
<1>1. turn \in [Turns -> TurnType]
  BY Types
<1>2. p \in TurnType /\ turn' = [turn EXCEPT ![t] = p] /\ p.c = turn[t].c /\ p.pc = pc
  BY <1>1 DEF Goto, TurnType
<1>3. pc \in WithBox => turn[t].c # None
  BY DEF BoxInv, PlaceInv
<1> HIDE DEF p
<1> QED
  BY <1>2, <1>3, TurnRecord, Zenon

(* A turn goes on without its container, and notes another.                *)
LEMMA TurnForgets ==
  ASSUME BoxInv, NEW t \in Turns, NEW pc \in {"read", "diagnose"}, NEW w \in Box,
         turn' = [turn EXCEPT ![t].pc = pc, ![t].c = None, ![t].w = w],
         holder' = holder
  PROVE  TurnEffect(t)
<1> DEFINE p == [turn[t] EXCEPT !.pc = pc, !.c = None, !.w = w]
<1>1. turn \in [Turns -> TurnType] /\ pc \in TurnPlace /\ None \in Box
  BY Types DEF TurnPlace, Box
<1>2. p \in TurnType /\ turn' = [turn EXCEPT ![t] = p] /\ p.c = None /\ p.pc = pc
  BY <1>1, Zenon DEF TurnType
<1> HIDE DEF p
<1> QED
  BY <1>2, TurnRecord, Zenon DEF WithBox

(* A turn condemns its container.                                          *)
LEMMA TurnCondemns ==
  ASSUME BoxInv, NEW t \in Turns, NEW p \in TurnType, turn' = [turn EXCEPT ![t] = p],
         p.c = turn[t].c, p.pc \in {"lost", "rebuild", "destroy", "unheld"},
         row'.container # turn[t].c \/ turn[t].c \in exposed',
         preview' = preview, holder' = holder
  PROVE  TurnEffect(t)
<1>1. turn \in [Turns -> TurnType]
  BY Types
<1>2. turn'[t] = p /\ turn' \in [Turns -> TurnType] /\ \A u \in Turns \ {t} : turn'[u] = turn[u]
  BY <1>1
<1>3. ASSUME NEW c \in Containers, turn[t].c = c PROVE MayDoom(c)
  <2>1. docker[c].st # "absent"
    BY <1>3 DEF BoxInv, KnownInv, Known
  <2>2. CASE turn[t].pc = "created"
    <3>1. preview.c # c /\ \A u \in Turns \ {t} : turn[u].c # c
      BY <1>3, <2>2 DEF BoxInv, MakerInv
    <3>2. ~Making(c)'
      BY <1>2, <3>1 DEF Making
    <3> QED
      BY <1>3, <2>1, <3>2 DEF MayDoom
  <2>3. CASE turn[t].pc # "created"
    <3>1. ~Making(c)
      BY <1>3, <2>3 DEF BoxInv, MakerInv, Making
    <3>2. ~Making(c)'
      BY <1>2, <3>1 DEF Making
    <3> QED
      BY <1>3, <2>1, <3>2 DEF MayDoom
  <2> QED
    BY <2>2, <2>3
<1>4. FenceKept(t)
  BY <1>2 DEF FenceKept, Fenced
<1> QED
  BY <1>2, <1>3, <1>4 DEF TurnEffect, TurnLearns, Learns, TurnDooms, WithBox

-----------------------------------------------------------------------------
(* The actions of a turn.                                                  *)
LEMMA TurnReadEffect ==
  ASSUME BoxInv, NEW t \in Turns, NEW n \in Nodes, TurnRead(t, n)
  PROVE  Effect
<1> DEFINE pc == IF row.container # None /\ row.node \notin {None, n} THEN "elsewhere" ELSE "read"
           p == [pc |-> pc, node |-> n, c |-> row.container, w |-> None]
<1>1. row.container \in Box /\ None \in Box /\ n \in Host /\ pc \in TurnPlace
  BY Types DEF RowType, Box, Host, TurnPlace
<1>2. p \in TurnType /\ p.pc = pc /\ p.c = row.container /\ turn' = [turn EXCEPT ![t] = p]
  BY <1>1 DEF TurnType, TurnRead
<1>3. pc = "read" \/ (pc = "elsewhere" /\ row.container # None)
  OBVIOUS
<1> HIDE DEF p, pc
<1>4. TurnEffect(t)
  BY <1>2, <1>3, TurnRecord, Zenon DEF TurnRead, WithBox
<1>5. RowEffect /\ DockerEffect
  BY <1>1, RowStatements, RowKept, DockerStill DEF TurnRead
<1> QED
  BY <1>4, <1>5, TurnAlone, Types DEF TurnRead

(* A turn creates a container that only it knows.                          *)
LEMMA TurnCreateEffect ==
  ASSUME BoxInv, NEW t \in Turns, TurnCreate(t)
  PROVE  Effect
<1>1. PICK c \in Containers :
        Create(c, turn[t].node) /\ turn' = [turn EXCEPT ![t].pc = "created", ![t].c = c]
  BY Zenon DEF TurnCreate
<1> DEFINE p == [turn[t] EXCEPT !.pc = "created", !.c = c]
<1>2. turn \in [Turns -> TurnType] /\ "created" \in TurnPlace /\ c \in Box
  BY Types DEF TurnPlace, Box
<1>3. p \in TurnType /\ turn' = [turn EXCEPT ![t] = p] /\ p.c = c /\ p.pc = "created"
  BY <1>1, <1>2, Zenon DEF TurnType
<1>4. DockerEffect /\ New(c)
  <2>1. turn[t].node \in Host
    BY <1>2 DEF TurnType
  <2> QED
    BY <1>1, <2>1, DockerCreates
<1> HIDE DEF p
<1>5. turn'[t] = p /\ turn' \in [Turns -> TurnType] /\ \A u \in Turns \ {t} : turn'[u] = turn[u]
  BY <1>2, <1>3
<1>6. TurnEffect(t)
  BY <1>3, <1>4, <1>5, BoxAssumption, Zenon
     DEF TurnEffect, TurnLearns, Learns, FenceKept, Fenced, TurnDooms, TurnCreate
<1>7. RowEffect
  BY <1>2, RowStatements, RowKept DEF TurnCreate
<1> QED
  BY <1>4, <1>6, <1>7, TurnAlone, Types DEF TurnCreate

(* The reuse path probes, or hands the job back.                           *)
LEMMA TurnProbeEffect ==
  ASSUME BoxInv, NEW t \in Turns, TurnProbe(t)
  PROVE  Effect
<1>1. turn[t].c \in Box /\ faults' \in 0..MaxFaults
  BY Types, FaultCounts DEF TurnType, TurnProbe
<1>2. RowEffect /\ DockerEffect
  BY <1>1, RowStatements, RowKept, DockerStill DEF TurnProbe
<1>3. TurnEffect(t)
  <2>1. CASE Leave(t)
    BY <2>1, TurnLeaves DEF TurnProbe
  <2>2. ASSUME NEW pc \in {"reuse", "stale"}, Goto(t, pc) PROVE TurnEffect(t)
    BY <2>2, TurnAdvances DEF TurnProbe, At, WithBox, TurnPlace
  <2> QED
    BY <2>1, <2>2 DEF TurnProbe
<1> QED
  BY <1>1, <1>2, <1>3, TurnAlone, Types DEF TurnProbe

(* A container found dead is cleared where no hold forbids it.             *)
LEMMA TurnClearStaleEffect ==
  ASSUME BoxInv, NEW t \in Turns, TurnClearStale(t)
  PROVE  Effect
<1>1. turn[t].c \in Box
  BY Types DEF TurnType
<1>2. Same(ClearContainerID(turn[t].c)) \/ Cleared(ClearContainerID(turn[t].c))
  BY <1>1, RowStatements
<1>3. RowEffect
  BY <1>2, StatusWritten, RowKept, Zenon DEF TurnClearStale
<1>4. TurnEffect(t)
  BY TurnLeaves DEF TurnClearStale
<1> QED
  BY <1>3, <1>4, TurnAlone, DockerStill, Types DEF TurnClearStale

(* A turn that rebuilds takes the container off the row and condemns it.   *)
LEMMA TurnRebuildEffect ==
  ASSUME BoxInv, NEW t \in Turns, TurnRebuild(t)
  PROVE  Effect
<1>1. turn[t].c \in Box /\ turn[t] \in TurnType /\ "rebuild" \in TurnPlace
  BY Types DEF TurnType, TurnPlace
<1>2. RowEffect /\ (CanClear(turn[t].c) => row'.container = None)
  BY <1>1, RowStatements, RowKept DEF TurnRebuild, Cleared
<1>3. TurnEffect(t)
  <2>1. CASE ~CanClear(turn[t].c)
    BY <2>1, TurnLeaves DEF TurnRebuild
  <2>2. CASE CanClear(turn[t].c)
    <3> DEFINE p == [turn[t] EXCEPT !.pc = "rebuild"]
    <3>1. turn' = [turn EXCEPT ![t] = p] /\ p \in TurnType /\ p.c = turn[t].c /\ p.pc = "rebuild"
      BY <1>1, <2>2, Types DEF TurnRebuild, Goto, TurnType
    <3>2. turn[t].c # None
      BY DEF TurnRebuild, At, BoxInv, PlaceInv, WithBox
    <3> HIDE DEF p
    <3> QED
      BY <1>2, <2>2, <3>1, <3>2, TurnCondemns, Zenon DEF TurnRebuild
  <2> QED
    BY <2>1, <2>2
<1> QED
  BY <1>2, <1>3, TurnAlone, DockerStill, Types DEF TurnRebuild

(* The destroys that follow a decision.                                    *)
LEMMA TurnDestroysEffect ==
  ASSUME BoxInv, NEW t \in Turns,
         TurnRebuildDestroy(t) \/ TurnDropLoser(t) \/ TurnDestroy(t)
  PROVE  Effect
<1>1. turn[t].c \in Box /\ turn[t].node \in Host /\ turn[t].w \in Box
  BY Types DEF TurnType
<1>2. Condemned(turn[t].c) /\ Destroy(turn[t].c, turn[t].node)
  BY DEF Condemned, TurnDooms, TurnRebuildDestroy, TurnDropLoser, TurnDestroy, At
<1>3. DockerEffect /\ faults' \in 0..MaxFaults
  BY <1>1, <1>2, DockerDestroys
<1>4. RowEffect
  BY <1>1, RowStatements, RowKept DEF TurnRebuildDestroy, TurnDropLoser, TurnDestroy
<1>5. TurnEffect(t)
  <2>1. CASE TurnDestroy(t)
    BY <2>1, TurnLeaves DEF TurnDestroy
  <2>2. ASSUME NEW pc \in {"read", "diagnose"}, holder' = holder,
               turn' = [turn EXCEPT ![t].pc = pc, ![t].c = None]
        PROVE  TurnEffect(t)
    <3>1. turn' = [turn EXCEPT ![t].pc = pc, ![t].c = None, ![t].w = turn[t].w]
      BY <2>2, Types, Zenon DEF TurnType
    <3> QED
      BY <1>1, <2>2, <3>1, TurnForgets, Zenon
  <2> QED
    BY <2>1, <2>2 DEF TurnRebuildDestroy, TurnDropLoser
<1> QED
  BY <1>3, <1>4, <1>5, TurnAlone, Types DEF TurnRebuildDestroy, TurnDropLoser, TurnDestroy

(* The publication: the row gets the container of its maker, or the maker  *)
(* condemns it.                                                            *)
LEMMA TurnPublishEffect ==
  ASSUME BoxInv, NEW t \in Turns, TurnPublish(t)
  PROVE  Effect
<1>1. /\ turn \in [Turns -> TurnType] /\ row \in RowType /\ row.container \in Box
      /\ {"held", "lost", "unheld"} \subseteq TurnPlace
  BY Types DEF RowType, TurnPlace
<1>2. PICK c \in Containers : turn[t].pc = "created" /\ c = turn[t].c /\ c # None
  BY <1>1 DEF TurnPublish, At, BoxInv, PlaceInv, WithBox, TurnType, Box
<1> DEFINE won == AcquireTurnHold(c)
<1>3. Making(c) /\ (c \in exposed \/ ~Condemned(c)) /\ row.container # c
  BY <1>2 DEF Making, BoxInv, KnownInv, Sound
<1>4. faults' \in 0..MaxFaults
  BY FaultCounts DEF TurnPublish
<1>5. ExposedEffect
  BY <1>2, Types DEF TurnPublish, ExposedEffect
<1>6. won = row \/ (row.container = None /\ won.container = c)
  BY <1>1, <1>2, <1>3 DEF AcquireTurnHold, RowType
<1>7. row.container = None => won \in RowType /\ won.container = c /\ won.review = row.review
  BY <1>1, <1>2, Zenon DEF AcquireTurnHold, RowType, Box
<1>8. PICK pc \in {"held", "lost", "unheld"}, w \in Box :
        /\ turn' = [turn EXCEPT ![t] = [turn[t] EXCEPT !.pc = pc, !.w = w]]
        /\ row' \in {row, won}
        /\ pc = "lost" => row' = row
        /\ pc = "unheld" => row'.container # c \/ c \in exposed'
  <2> HIDE DEF won
  <2>1. turn[t].w \in Box /\ [turn[t] EXCEPT !.w = turn[t].w] = turn[t]
    BY <1>1, Zenon DEF TurnType
  <2>2. ASSUME NEW pc
        PROVE  [turn EXCEPT ![t].pc = pc] =
                 [turn EXCEPT ![t] = [turn[t] EXCEPT !.pc = pc, !.w = turn[t].w]]
    BY <1>1, Zenon DEF TurnType
  <2>3. CASE row' = won /\ won.container = c /\ turn' = [turn EXCEPT ![t].pc = "held"]
    BY <2>1, <2>2, <2>3
  <2>4. CASE /\ row' = won /\ won.container # c
             /\ turn' = [turn EXCEPT ![t].pc = "lost", ![t].w = won.container]
    <3>1. won = row /\ won.container \in Box
      BY <1>1, <1>6, <2>4
    <3>2. turn' = [turn EXCEPT ![t] = [turn[t] EXCEPT !.pc = "lost", !.w = won.container]]
      BY <1>1, <2>4, Zenon DEF TurnType
    <3> QED
      BY <2>4, <3>1, <3>2
  <2>5. CASE /\ row' \in {row, won} /\ Goto(t, "unheld")
             /\ exposed' = exposed \cup ({c} \cap {row'.container})
    BY <2>1, <2>2, <2>5 DEF Goto
  <2> QED
    BY <1>2, <2>3, <2>4, <2>5 DEF TurnPublish, won
<1> DEFINE p == [turn[t] EXCEPT !.pc = pc, !.w = w]
<1>9. p \in TurnType /\ p.c = c /\ p.pc = pc /\ turn' = [turn EXCEPT ![t] = p]
  BY <1>1, <1>2, <1>8, Zenon DEF TurnType
<1> HIDE DEF won, p
<1>10. turn'[t] = p /\ \A u \in Turns \ {t} : turn'[u] = turn[u]
  BY <1>1, <1>9
<1>11. preview.c # c /\ \A u \in Turns \ {t} : turn[u].c # c
  BY <1>2 DEF BoxInv, MakerInv
<1>12. TurnEffect(t)
  <2>1. CASE pc = "held"
    BY <1>2, <1>9, <2>1, TurnRecord, Zenon DEF TurnPublish, WithBox
  <2>2. CASE pc \in {"lost", "unheld"}
    <3>1. row'.container # turn[t].c \/ turn[t].c \in exposed'
      BY <1>2, <1>3, <1>8, <2>2
    <3> QED
      BY <1>2, <1>9, <2>2, <3>1, TurnCondemns, Zenon DEF TurnPublish
  <2> QED
    BY <1>8, <2>1, <2>2
<1>13. RowEffect
  <2>1. CASE row' = row
    BY <1>1, <2>1 DEF RowEffect
  <2>2. CASE row' = won /\ row.container = None /\ won.container = c
    <3>1. ~Making(c)'
      BY <1>8, <1>9, <1>10, <1>11 DEF Making, TurnPublish
    <3>2. c \in exposed' \/ ~Condemned(c)'
      <4>1. CASE c \in exposed
        BY <1>5, <4>1 DEF ExposedEffect
      <4>2. CASE pc = "unheld"
        BY <1>8, <2>2, <4>2
      <4>3. CASE pc = "lost"
        BY <1>2, <1>3, <1>8, <2>2, <4>3
      <4>4. CASE ~Condemned(c) /\ pc = "held"
        BY <1>9, <1>10, <1>11, <4>4 DEF Condemned, TurnDooms, TurnPublish
      <4> QED
        BY <1>3, <1>8, <4>1, <4>2, <4>3, <4>4
    <3> QED
      BY <1>3, <1>7, <2>2, <3>1, <3>2 DEF RowEffect, MayPublish
  <2> QED
    BY <1>6, <1>8, <2>1, <2>2
<1> QED
  BY <1>4, <1>5, <1>12, <1>13, TurnAlone, DockerStill, Types DEF TurnPublish

(* A turn without an answer gives up on its container.                     *)
LEMMA TurnDropUnheldEffect ==
  ASSUME BoxInv, NEW t \in Turns, TurnDropUnheld(t)
  PROVE  Effect
<1>1. turn[t].c \in Box /\ turn[t].node \in Host
  BY Types DEF TurnType
<1>2. DockerEffect /\ faults' \in 0..MaxFaults
  BY <1>1, DockerDestroys DEF TurnDropUnheld, At, Condemned, TurnDooms
<1>3. RowEffect
  BY <1>1, RowStatements, RowKept DEF TurnDropUnheld
<1> QED
  BY <1>2, <1>3, TurnLeaves, TurnAlone, Types DEF TurnDropUnheld

(* The strict join and what follows when it is lost.                       *)
LEMMA TurnJoinsEffect ==
  ASSUME BoxInv, NEW t \in Turns,
         TurnReuse(t) \/ TurnMoved(t) \/ TurnDiagnose(t) \/ TurnClearWinner(t)
  PROVE  Effect
<1>1. turn[t].c \in Box /\ turn[t].w \in Box /\ row.container \in Box
  BY Types DEF TurnType, RowType
<1>2. CASE TurnReuse(t)
  <2>1. PICK pc \in {"held", "moved"} : Goto(t, pc)
    BY <1>2 DEF TurnReuse
  <2>2. TurnEffect(t)
    BY <1>2, <2>1, TurnAdvances DEF TurnReuse, At, WithBox, TurnPlace
  <2>3. RowEffect
    BY <1>1, <1>2, RowStatements, RowKept DEF TurnReuse
  <2> QED
    BY <1>2, <2>2, <2>3, DockerStill, TurnAlone, Types DEF TurnReuse
<1>3. CASE TurnMoved(t)
  <2>1. TurnEffect(t)
    BY <1>1, <1>3, TurnLeaves, TurnForgets, Zenon DEF TurnMoved
  <2>2. RowEffect
    BY <1>1, <1>3, RowStatements, RowKept DEF TurnMoved
  <2> QED
    BY <1>3, <2>1, <2>2, DockerStill, TurnAlone, Types DEF TurnMoved
<1>4. CASE TurnDiagnose(t)
  <2>1. TurnEffect(t)
    BY <1>4, TurnLeaves, TurnAdvances DEF TurnDiagnose, WithBox, TurnPlace
  <2>2. RowEffect
    BY <1>1, <1>4, RowStatements, RowKept DEF TurnDiagnose
  <2> QED
    BY <1>4, <2>1, <2>2, DockerStill, TurnAlone, Types DEF TurnDiagnose
<1>5. CASE TurnClearWinner(t)
  <2>1. TurnEffect(t)
    BY <1>5, TurnLeaves DEF TurnClearWinner
  <2>2. RowEffect
    BY <1>1, <1>5, RowStatements, StatusWritten, RowKept, Zenon DEF TurnClearWinner
  <2> QED
    BY <1>5, <2>1, <2>2, DockerStill, TurnAlone, Types DEF TurnClearWinner
<1> QED
  BY <1>2, <1>3, <1>4, <1>5

(* A holder row gets another value.                                        *)
LEMMA HolderWritten ==
  ASSUME BoxInv, NEW t \in Turns, NEW h \in {"none", "live", "lapsed", "revived"},
         holder' = [holder EXCEPT ![t] = h]
  PROVE  /\ holder' \in HolderType /\ holder'[t] = h
         /\ \A u \in Turns \ {t} : holder'[u] = holder[u]
BY Types DEF HolderType

(* The fence: the leased row first, then the container once more.          *)
LEMMA TurnFencesEffect ==
  ASSUME BoxInv, NEW t \in Turns, TurnPin(t) \/ TurnFence(t)
  PROVE  Effect
<1>1. turn[t].c \in Box /\ row.container \in Box
  BY Types DEF TurnType, RowType
<1>2. CASE TurnPin(t)
  <2>1. holder' \in HolderType /\ \A u \in Turns \ {t} : holder'[u] = holder[u]
    BY <1>2, HolderWritten, Zenon DEF TurnPin
  <2>2. TurnEffect(t)
    BY <1>2, <2>1, TurnAdvances DEF TurnPin, At, WithBox, TurnPlace
  <2>3. RowEffect
    BY <1>1, <1>2, RowStatements, RowKept DEF TurnPin
  <2> QED
    BY <1>2, <2>1, <2>2, <2>3, DockerStill, TurnAlone, Types, Zenon DEF TurnPin
<1>3. CASE TurnFence(t)
  <2>1. holder' \in HolderType /\ \A u \in Turns \ {t} : holder'[u] = holder[u]
    BY <1>3, HolderWritten, Types DEF TurnFence
  <2>2. RowEffect /\ row'.container = row.container
    BY <1>1, <1>3, RowStatements, RowKept DEF TurnFence, Same
  <2>3. CASE row.container = turn[t].c
    <3>1. FenceKept(t)
      BY <1>3, <2>2, <2>3, Types DEF TurnFence, FenceKept, Goto, TurnType
    <3> QED
      BY <1>3, <2>1, <2>2, <2>3, <3>1, TurnAdvances, DockerStill, TurnAlone, Types
         DEF TurnFence, At, WithBox, TurnPlace
  <2>4. CASE row.container # turn[t].c
    BY <1>3, <2>1, <2>2, <2>4, TurnAdvances, DockerStill, TurnAlone, Types
       DEF TurnFence, At, WithBox, TurnPlace
  <2> QED
    BY <2>3, <2>4
<1> QED
  BY <1>2, <1>3

(* A review turn with a live lease that owns its container or runs was     *)
(* fenced before.                                                          *)
LEMMA TurnOwnsEffect ==
  ASSUME BoxInv, NEW t \in Turns, TurnOwn(t) \/ TurnRun(t)
  PROVE  Effect
<1>1. turn[t].c \in Box /\ row.container \in Box /\ turn[t].node \in Host
  BY Types DEF TurnType, RowType
<1>2. CASE TurnOwn(t)
  <2>1. holder' \in HolderType /\ \A u \in Turns \ {t} : holder'[u] = holder[u]
    BY <1>2, HolderWritten, Types DEF TurnOwn
  <2>2. RowEffect /\ row'.review = row.review
    <3>1. Same(row')
      BY <1>1, <1>2, RowStatements DEF TurnOwn
    <3> QED
      BY <3>1, RowKept DEF Same
  <2>3. CASE CanOwn(turn[t].c, turn[t].node)
    <3>1. FenceKept(t)
      BY <1>2, <2>2, <2>3, Types DEF TurnOwn, FenceKept, Fenced, Goto, TurnType, At
    <3> QED
      BY <1>2, <2>1, <2>2, <2>3, <3>1, TurnAdvances, DockerStill, TurnAlone, Types
         DEF TurnOwn, At, WithBox, TurnPlace
  <2>4. CASE ~CanOwn(turn[t].c, turn[t].node)
    BY <1>2, <2>1, <2>2, <2>4, TurnAdvances, DockerStill, TurnAlone, Types
       DEF TurnOwn, At, WithBox, TurnPlace
  <2> QED
    BY <2>3, <2>4
<1>3. CASE TurnRun(t)
  <2> DEFINE h == IF row.review /\ holder[t] # "live" THEN "revived" ELSE "live"
  <2>1. holder' = [holder EXCEPT ![t] = h]
    BY <1>3, Types DEF TurnRun, HolderType
  <2>2. h \in {"none", "live", "lapsed", "revived"} /\ (row.review /\ h = "live" => holder[t] = "live")
    OBVIOUS
  <2> HIDE DEF h
  <2>3. /\ holder' \in HolderType /\ holder'[t] = h
        /\ \A u \in Turns \ {t} : holder'[u] = holder[u]
    BY <2>1, <2>2, HolderWritten, Zenon
  <2>4. RowEffect
    BY <1>1, <1>3, RowStatements, RowKept DEF TurnRun
  <2>5. FenceKept(t)
    BY <1>3, <2>2, <2>3, Types DEF TurnRun, FenceKept, Fenced, Goto, TurnType, At
  <2> QED
    BY <1>3, <2>3, <2>4, <2>5, TurnAdvances, DockerStill, TurnAlone, Types, Zenon
       DEF TurnRun, At, WithBox, TurnPlace
<1> QED
  BY <1>2, <1>3

(* The end of a turn.                                                      *)
LEMMA TurnEndsEffect ==
  ASSUME BoxInv, NEW t \in Turns, TurnEnd(t) \/ TurnRetain(t)
  PROVE  Effect
<1>1. row.container \in Box
  BY Types DEF RowType
<1>2. CASE TurnEnd(t)
  <2>1. Abandoned(t) \in {"none", "live", "lapsed", "revived"}
    BY Types DEF Abandoned, HolderType
  <2>2. holder' \in HolderType /\ \A u \in Turns \ {t} : holder'[u] = holder[u]
    BY <1>2, <2>1, HolderWritten DEF TurnEnd
  <2>3. RowEffect /\ faults' \in 0..MaxFaults
    BY <1>1, <1>2, RowStatements, RowKept, FaultCounts DEF TurnEnd
  <2>4. PICK pc \in {"retain", "release"} : Goto(t, pc)
    BY <1>2 DEF TurnEnd
  <2>5. TurnEffect(t)
    BY <2>2, <2>4, TurnAdvances DEF WithBox, TurnPlace
  <2> QED
    BY <1>2, <2>2, <2>3, <2>5, DockerStill, TurnAlone, Types DEF TurnEnd
<1>3. CASE TurnRetain(t)
  <2>1. RowEffect /\ retained' \in BOOLEAN
    BY <1>1, <1>3, RowStatements, RowKept, Types DEF TurnRetain
  <2>2. TurnEffect(t)
    BY <1>3, TurnAdvances DEF TurnRetain, WithBox, TurnPlace
  <2> QED
    BY <1>3, <2>1, <2>2, DockerStill, TurnAlone, Types DEF TurnRetain
<1> QED
  BY <1>2, <1>3

(* The release of the hold leaves the container recorded.                  *)
LEMMA TurnReleaseEffect ==
  ASSUME BoxInv, NEW t \in Turns, TurnRelease(t)
  PROVE  Effect
<1>1. /\ turn \in [Turns -> TurnType] /\ row.container \in Box /\ turn[t].c \in Box
      /\ "finalize" \in TurnPlace
  BY Types DEF TurnType, RowType, TurnPlace
<1>2. RowEffect /\ faults' \in 0..MaxFaults
  BY <1>1, RowStatements, RowKept, FaultCounts, Zenon DEF TurnRelease
<1>3. ASSUME NEW w \in Box, turn' = [turn EXCEPT ![t].pc = "finalize", ![t].w = w]
      PROVE  TurnEffect(t)
  <2> DEFINE p == [turn[t] EXCEPT !.pc = "finalize", !.w = w]
  <2>1. p \in TurnType /\ turn' = [turn EXCEPT ![t] = p] /\ p.c = turn[t].c /\ p.pc = "finalize"
    BY <1>1, <1>3, Zenon DEF TurnType
  <2> HIDE DEF p
  <2> QED
    BY <2>1, TurnRecord, Zenon DEF TurnRelease, WithBox
<1>4. TurnEffect(t)
  BY <1>1, <1>3, TurnLeaves DEF TurnRelease
<1> QED
  BY <1>2, <1>4, DockerStill, TurnAlone, Types DEF TurnRelease

(* Whoever finalizes condemns its own container.                           *)
LEMMA TurnFinalizeEffect ==
  ASSUME BoxInv, NEW t \in Turns, TurnFinalize(t)
  PROVE  Effect
<1>1. /\ turn \in [Turns -> TurnType] /\ turn[t].w \in Box /\ None \in Box
      /\ "destroy" \in TurnPlace
  BY Types DEF TurnType, TurnPlace, Box
<1>2. RowEffect /\ faults' \in 0..MaxFaults
  BY <1>1, RowStatements, RowKept, FaultCounts DEF TurnFinalize
<1>3. CASE Leave(t)
  BY <1>2, <1>3, TurnLeaves, DockerStill, TurnAlone, Types DEF TurnFinalize
<1>4. CASE ~Leave(t)
  <2>1. /\ CanFinalize(turn[t].w) /\ row' = FinalizeContainerDestroy(turn[t].w)
        /\ turn' = [turn EXCEPT ![t].pc = "destroy", ![t].w = None]
    BY <1>4 DEF TurnFinalize
  <2>2. row'.container = None
    BY <1>1, <2>1, RowStatements DEF Cleared
  <2>3. CASE turn[t].c # None
    <3> DEFINE p == [turn[t] EXCEPT !.pc = "destroy", !.w = None]
    <3>1. p \in TurnType /\ turn' = [turn EXCEPT ![t] = p] /\ p.c = turn[t].c /\ p.pc = "destroy"
      BY <1>1, <2>1, Zenon DEF TurnType
    <3> HIDE DEF p
    <3>2. TurnEffect(t)
      BY <2>2, <2>3, <3>1, TurnCondemns, Zenon DEF TurnFinalize
    <3> QED
      BY <1>2, <3>2, DockerStill, TurnAlone, Types DEF TurnFinalize
  <2>4. CASE turn[t].c = None
    <3>1. /\ turn' \in [Turns -> TurnType] /\ turn'[t].pc = "destroy" /\ turn'[t].c = None
          /\ \A u \in Turns \ {t} : turn'[u] = turn[u]
      BY <1>1, <2>1, <2>4, Zenon DEF TurnType
    <3>2. TurnEffect(t)
      BY <3>1, BoxAssumption
         DEF TurnEffect, TurnLearns, Learns, FenceKept, Fenced, TurnFinalize, WithBox
    <3> QED
      BY <1>2, <3>2, DockerStill, TurnAlone, Types DEF TurnFinalize
  <2> QED
    BY <2>3, <2>4
<1> QED
  BY <1>3, <1>4

(* A dead process leaves its lease behind.                                 *)
LEMMA TurnCrashEffect ==
  ASSUME BoxInv, NEW t \in Turns, TurnCrash(t)
  PROVE  Effect
<1>1. Abandoned(t) \in {"none", "live", "lapsed", "revived"} /\ row.container \in Box
  BY Types DEF Abandoned, HolderType, RowType
<1>2. holder' \in HolderType /\ \A u \in Turns \ {t} : holder'[u] = holder[u]
  BY <1>1, HolderWritten, Zenon DEF TurnCrash
<1>3. RowEffect /\ faults' \in 0..MaxFaults
  BY <1>1, RowStatements, RowKept, FaultCounts DEF TurnCrash
<1> QED
  BY <1>2, <1>3, TurnLeaves, DockerStill, TurnAlone, Types, Zenon DEF TurnCrash

(* A lease that runs out or comes back does not become live.               *)
LEMMA LeaseEffect ==
  ASSUME BoxInv, NEW t \in Turns, HolderLapse(t) \/ HolderHeartbeat(t)
  PROVE  Effect
<1>1. PICK h \in {"none", "lapsed", "revived"} : holder' = [holder EXCEPT ![t] = h]
  BY DEF HolderLapse, HolderHeartbeat
<1>2. /\ holder' \in HolderType /\ holder'[t] = h
      /\ \A u \in Turns \ {t} : holder'[u] = holder[u]
  BY <1>1, HolderWritten, Zenon
<1>3. RowEffect /\ faults' \in 0..MaxFaults
  <2>1. row.container \in Box
    BY Types DEF RowType
  <2> QED
    BY <2>1, RowStatements, RowKept, FaultCounts DEF HolderLapse, HolderHeartbeat
<1>4. TurnEffect(t)
  BY <1>2, Types DEF HolderLapse, HolderHeartbeat, TurnEffect, TurnLearns, Learns, FenceKept,
     Fenced, BoxInv, PlaceInv, TurnDooms
<1> QED
  BY <1>2, <1>3, <1>4, DockerStill, TurnAlone, Types DEF HolderLapse, HolderHeartbeat

(* Every step of a turn.                                                   *)
LEMMA TurnStepEffect ==
  ASSUME BoxInv, NEW t \in Turns, TurnStep(t)
  PROVE  Effect
BY TurnReadEffect, TurnCreateEffect, TurnProbeEffect, TurnClearStaleEffect,
   TurnRebuildEffect, TurnDestroysEffect, TurnPublishEffect, TurnDropUnheldEffect,
   TurnJoinsEffect, TurnFencesEffect, TurnOwnsEffect, TurnEndsEffect,
   TurnReleaseEffect, TurnFinalizeEffect, TurnCrashEffect, LeaseEffect
   DEF TurnStep

-----------------------------------------------------------------------------
(* Steps that leave the turns and their leases alone.                      *)
LEMMA TurnsRest ==
  ASSUME BoxInv, turn' = turn, holder' = holder, RowEffect, DockerEffect, DoomEffect,
         PreviewEffect, OtherTypes, exposed' = exposed \/ ExposedEffect
  PROVE  Effect
<1>1. TurnsEffect /\ ExposedEffect
  BY Types DEF TurnsEffect, TurnLearns, Learns, BoxInv, PlaceInv, ExposedEffect
<1>2. \A t \in Turns : FenceKept(t)
  BY DEF FenceKept, Fenced, RowEffect
<1> QED
  BY <1>1, <1>2 DEF Effect, Lone

(* A preview that is left alone.                                           *)
LEMMA PreviewStill ==
  ASSUME BoxInv, preview' = preview
  PROVE  PreviewEffect
BY Types DEF PreviewEffect, Learns, ReadUnderHold, BoxInv, PlaceInv

(* The preview goes to another place with what it knew or read, and        *)
(* creates nothing.                                                        *)
LEMMA PreviewRecord ==
  ASSUME BoxInv, NEW q \in PreviewType, preview' = q,
         q.c \in {None, preview.c, row.container}, q.pc # "publish",
         q.pc = "up" => q.c # None, q.pc \in {"warmRead", "warmWrong"} => q.warm,
         \/ q.pc \notin {"read", "up"} \/ ~q.hold \/ q.warm \/ q.c = None
         \/ row'.container = q.c \/ (ReadUnderHold /\ q.c = preview.c)
  PROVE  PreviewEffect
BY DEF PreviewEffect, Learns, ReadUnderHold

(* Steps of the preview alone that condemn nothing.                        *)
LEMMA PreviewSpares ==
  ASSUME BoxInv, turn' = turn, holder' = holder, RowEffect, DockerEffect, PreviewEffect,
         retained' = retained, doomed' = doomed, rc' = rc,
         faults' \in 0..MaxFaults, stopper' = stopper, exposed' = exposed \/ ExposedEffect,
         preview'.pc \in {"lost", "destroy", "failed"} =>
           preview.pc \in {"lost", "destroy", "failed"} /\ preview'.c = preview.c
  PROVE  Effect
<1>1. DoomEffect
  BY DEF DoomEffect, Condemned, TurnDooms
<1>2. OtherTypes
  BY Types DEF OtherTypes
<1> QED
  BY <1>1, <1>2, TurnsRest

(* Steps of the preview alone that condemn its container.                  *)
LEMMA PreviewCondemns ==
  ASSUME BoxInv, turn' = turn, holder' = holder, RowEffect, DockerEffect, PreviewEffect,
         retained' = retained, doomed' = doomed, rc' = rc,
         faults' \in 0..MaxFaults, stopper' = stopper, exposed' = exposed \/ ExposedEffect,
         preview'.pc \in {"lost", "destroy", "failed"}, preview'.c = preview.c,
         row'.container # preview.c \/ preview.c \in exposed'
  PROVE  Effect
<1>1. ASSUME NEW c \in Containers, preview.c = c PROVE MayDoom(c)
  <2>1. docker[c].st # "absent"
    BY <1>1 DEF BoxInv, KnownInv, Known
  <2>2. ~Making(c)'
    BY <1>1 DEF Making, BoxInv, MakerInv
  <2> QED
    BY <1>1, <2>1, <2>2 DEF MayDoom
<1>2. DoomEffect
  BY <1>1 DEF DoomEffect, Condemned, TurnDooms
<1>3. OtherTypes
  BY Types DEF OtherTypes
<1> QED
  BY <1>2, <1>3, TurnsRest

(* An empty preview, and one that met a busy sandbox.                      *)
LEMMA PreviewRows ==
  ASSUME BoxInv
  PROVE  /\ PreviewNone \in PreviewType /\ PreviewNone.pc = "none" /\ PreviewNone.c = None
         /\ Busy \in PreviewType /\ Busy.pc \in {"abort", "reserved"} /\ Busy.c = None
<1>1. {"none", "abort", "reserved"} \subseteq PreviewPlace /\ None \in Host /\ None \in Box
  BY DEF PreviewPlace, Host, Box
<1>2. PreviewNone \in PreviewType /\ PreviewNone.pc = "none" /\ PreviewNone.c = None
  BY <1>1 DEF PreviewNone, PreviewType
<1>3. Busy \in PreviewType /\ Busy.pc \in {"abort", "reserved"} /\ Busy.c = None
  <2> DEFINE pc == IF preview.warm THEN "abort" ELSE "reserved"
  <2>1. pc \in {"abort", "reserved"} /\ Busy = [preview EXCEPT !.pc = pc, !.node = None, !.c = None]
    BY DEF Busy
  <2> HIDE DEF pc
  <2> QED
    BY <1>1, <2>1, Types, Zenon DEF PreviewType
<1> QED
  BY <1>2, <1>3

(* The reservation and the reads of the row.                               *)
LEMMA PreviewReadsEffect ==
  ASSUME BoxInv, NEW n \in Host,
         PreviewReserve \/ PreviewRead(n) \/ PreviewWarmRead(n) \/ PreviewWarmReserve
  PROVE  Effect
<1>1. /\ row.container \in Box /\ n \in Host /\ None \in Box
      /\ {"reserved", "read", "abort", "warmRead", "warmWrong"} \subseteq PreviewPlace
  BY Types DEF RowType, Host, Box, PreviewPlace
<1>2. RowEffect /\ row'.container = row.container
  BY <1>1, RowStatements, RowKept
     DEF PreviewReserve, PreviewRead, PreviewWarmRead, PreviewWarmReserve
<1>3. PreviewEffect /\ preview'.pc \notin {"lost", "destroy", "failed"}
  <2>1. CASE PreviewReserve
    <3>1. preview' \in PreviewType /\ preview'.pc = "reserved" /\ preview'.c = None
      BY <1>1, <2>1, Zenon DEF PreviewReserve, PreviewNone, PreviewType, Host
    <3> QED
      BY <3>1, PreviewRecord
  <2>2. CASE PreviewRead(n)
    <3>1. \/ preview' = PreviewNone
          \/ /\ preview' \in PreviewType /\ preview'.pc = "read"
             /\ preview'.c = row.container
      BY <1>1, <2>2, Types, Zenon DEF PreviewRead, PreviewType
    <3> QED
      BY <1>2, <3>1, PreviewRecord, PreviewRows
  <2>3. CASE PreviewWarmRead(n)
    <3> DEFINE pc == IF Misplaced(n) THEN "warmWrong" ELSE "warmRead"
               c == IF Misplaced(n) THEN None ELSE row.container
    <3>1. preview' = [pc |-> pc, hold |-> FALSE, warm |-> TRUE, node |-> n, c |-> c]
      BY <2>3 DEF PreviewWarmRead
    <3>2. pc \in {"warmRead", "warmWrong"} /\ c \in {None, row.container}
      OBVIOUS
    <3> HIDE DEF pc, c
    <3>3. preview' \in PreviewType /\ preview'.pc = pc /\ preview'.c = c /\ preview'.warm
      BY <1>1, <3>1, <3>2 DEF PreviewType
    <3> QED
      BY <3>2, <3>3, PreviewRecord
  <2>4. CASE PreviewWarmReserve
    <3>1. PICK pc \in {"read", "abort"} :
            preview' = [preview EXCEPT !.pc = pc, !.hold = TRUE]
      BY <2>4, Zenon DEF PreviewWarmReserve
    <3>2. /\ preview' \in PreviewType /\ preview'.pc = pc /\ preview'.c = preview.c
          /\ preview'.warm = preview.warm
      BY <1>1, <3>1, Types, Zenon DEF PreviewType
    <3>3. preview.warm
      BY <2>4 DEF PreviewWarmReserve, Pv, BoxInv, PlaceInv
    <3> QED
      BY <3>2, <3>3, PreviewRecord, Zenon
  <2> QED
    BY <2>1, <2>2, <2>3, <2>4
<1> QED
  BY <1>2, <1>3, DockerStill, PreviewSpares, Types
     DEF PreviewReserve, PreviewRead, PreviewWarmRead, PreviewWarmReserve

(* acquireSandbox up to the hydration.                                     *)
LEMMA PreviewProbesEffect ==
  ASSUME BoxInv, PreviewProbe \/ PreviewPeek \/ PreviewClearStale
  PROVE  Effect
<1>1. /\ row.container \in Box /\ preview.c \in Box /\ None \in Box
      /\ {"up", "peek", "hydrate", "clear"} \subseteq PreviewPlace
  BY Types DEF RowType, PreviewType, Box, PreviewPlace
<1>2. RowEffect
  BY <1>1, RowStatements, RowKept DEF PreviewProbe, PreviewPeek, PreviewClearStale
<1>3. PreviewEffect /\ preview'.pc \notin {"lost", "destroy", "failed"}
  <2>1. CASE PreviewProbe
    <3>1. CASE preview.c # None /\ preview' = [preview EXCEPT !.pc = "up"]
      <4>1. /\ preview' \in PreviewType /\ preview'.pc = "up" /\ preview'.c = preview.c
            /\ preview'.hold = preview.hold /\ preview'.warm = preview.warm
        BY <1>1, <3>1, Types DEF PreviewType
      <4>2. preview.pc = "read"
        BY <2>1 DEF PreviewProbe, Pv
      <4> QED
        BY <3>1, <4>1, <4>2, PreviewRecord, Zenon DEF ReadUnderHold
    <3>2. CASE preview' = [preview EXCEPT !.pc = "peek", !.c = None]
      <4>1. preview' \in PreviewType /\ preview'.pc = "peek" /\ preview'.c = None
        BY <1>1, <3>2, Types, Zenon DEF PreviewType
      <4> QED
        BY <4>1, PreviewRecord
    <3> QED
      BY <2>1, <3>1, <3>2 DEF PreviewProbe
  <2>2. CASE PreviewPeek
    <3>1. PICK c \in {preview.c, row.container}, pc \in {"hydrate", "clear"} :
            preview' = Busy \/ preview' = [preview EXCEPT !.pc = pc, !.c = c]
      <4>1. [preview EXCEPT !.pc = "hydrate"] = [preview EXCEPT !.pc = "hydrate", !.c = preview.c]
        BY Types, Zenon DEF PreviewType
      <4> QED
        BY <2>2, <4>1 DEF PreviewPeek
    <3>2. \/ preview' = Busy
          \/ preview' \in PreviewType /\ preview'.pc = pc /\ preview'.c = c
      BY <1>1, <3>1, Types, ZenonT(60) DEF PreviewType
    <3> QED
      BY <3>2, PreviewRecord, PreviewRows
  <2>3. CASE PreviewClearStale
    BY <2>3, PreviewRecord, PreviewRows DEF PreviewClearStale
  <2> QED
    BY <2>1, <2>2, <2>3
<1> QED
  BY <1>2, <1>3, DockerStill, PreviewSpares, Types
     DEF PreviewProbe, PreviewPeek, PreviewClearStale

(* The preview creates a container that only it knows.                     *)
LEMMA PreviewHydrateEffect ==
  ASSUME BoxInv, PreviewHydrate
  PROVE  Effect
<1>1. PICK c \in Containers :
        Create(c, preview.node) /\ preview' = [preview EXCEPT !.pc = "publish", !.c = c]
  BY Zenon DEF PreviewHydrate
<1>2. /\ preview.node \in Host /\ c \in Box /\ c # None /\ row.container \in Box
      /\ "publish" \in PreviewPlace
  BY Types, BoxAssumption DEF PreviewType, Box, PreviewPlace, RowType
<1>3. DockerEffect /\ New(c)
  BY <1>1, <1>2, DockerCreates
<1>4. preview' \in PreviewType /\ preview'.pc = "publish" /\ preview'.c = c
  BY <1>1, <1>2, Types, Zenon DEF PreviewType
<1>5. PreviewEffect
  BY <1>2, <1>3, <1>4 DEF PreviewEffect, Learns, ReadUnderHold
<1>6. RowEffect
  BY <1>2, RowStatements, RowKept DEF PreviewHydrate
<1> QED
  BY <1>3, <1>4, <1>5, <1>6, PreviewSpares, Types DEF PreviewHydrate

(* The preview publishes what it hydrated, or condemns it.                 *)
LEMMA PreviewPublishEffect ==
  ASSUME BoxInv, PreviewPublish
  PROVE  Effect
<1>1. /\ row \in RowType /\ row.container \in Box /\ preview \in PreviewType
      /\ {"up", "lost", "failed"} \subseteq PreviewPlace
  BY Types DEF RowType, PreviewPlace
<1>2. PICK c \in Containers : preview.pc = "publish" /\ c = preview.c /\ c # None
  BY <1>1 DEF PreviewPublish, Pv, BoxInv, PlaceInv, PreviewType, Box
<1> DEFINE won == PublishHydratedContainerID(c)
<1>3. /\ Making(c) /\ (c \in exposed \/ ~Condemned(c)) /\ row.container # c
      /\ \A u \in Turns : turn[u].c # c
  BY <1>2 DEF Making, BoxInv, KnownInv, Sound, MakerInv
<1>4. faults' \in 0..MaxFaults
  BY FaultCounts DEF PreviewPublish
<1>5. ExposedEffect
  BY <1>2, Types DEF PreviewPublish, ExposedEffect
<1>6. /\ won = row \/ (row.container = None /\ won.container = c)
      /\ row.container = None => won \in RowType /\ won.container = c /\ won.review = row.review
  BY <1>1, <1>2 DEF PublishHydratedContainerID, RowType, Box
<1>7. PICK pc \in {"up", "lost", "failed"} :
        /\ preview' = [preview EXCEPT !.pc = pc] /\ row' \in {row, won}
        /\ pc = "up" => row'.container = c
        /\ pc = "lost" => row'.container # c
        /\ pc = "failed" => row'.container # c \/ c \in exposed'
  BY <1>2 DEF PreviewPublish
<1> HIDE DEF won
<1>8. preview' \in PreviewType /\ preview'.pc = pc /\ preview'.c = c
  BY <1>1, <1>2, <1>7 DEF PreviewType
<1>9. PreviewEffect
  BY <1>2, <1>7, <1>8, PreviewRecord, Zenon
<1>10. RowEffect
  <2>1. CASE row' = row
    BY <1>1, <2>1 DEF RowEffect
  <2>2. CASE row' = won /\ row.container = None /\ won.container = c
    <3>1. ~Making(c)'
      BY <1>3, <1>7, <1>8 DEF Making, PreviewPublish
    <3>2. c \in exposed' \/ ~Condemned(c)'
      <4>1. CASE c \in exposed
        BY <1>5, <4>1 DEF ExposedEffect
      <4>2. CASE pc \in {"lost", "failed"}
        BY <1>7, <2>2, <4>2
      <4>3. CASE ~Condemned(c) /\ pc = "up"
        BY <1>3, <1>8, <4>3 DEF Condemned, TurnDooms, PreviewPublish
      <4> QED
        BY <1>3, <1>7, <4>1, <4>2, <4>3
    <3> QED
      BY <1>3, <1>6, <2>2, <3>1, <3>2 DEF RowEffect, MayPublish
  <2> QED
    BY <1>6, <1>7, <2>1, <2>2
<1>11. CASE pc = "up"
  BY <1>4, <1>5, <1>8, <1>9, <1>10, <1>11, PreviewSpares, DockerStill DEF PreviewPublish
<1>12. CASE pc \in {"lost", "failed"}
  BY <1>2, <1>4, <1>5, <1>7, <1>8, <1>9, <1>10, <1>12, PreviewCondemns, DockerStill
     DEF PreviewPublish
<1> QED
  BY <1>7, <1>11, <1>12

(* The destroys of the preview.                                            *)
LEMMA PreviewDestroysEffect ==
  ASSUME BoxInv, PreviewDropLoser \/ PreviewDestroy
  PROVE  Effect
<1>1. preview.c \in Box /\ preview.node \in Host /\ row.container \in Box
  BY Types DEF PreviewType, RowType
<1>2. Condemned(preview.c) /\ Destroy(preview.c, preview.node)
  BY DEF Condemned, PreviewDropLoser, PreviewDestroy, Pv
<1>3. DockerEffect /\ faults' \in 0..MaxFaults
  BY <1>1, <1>2, DockerDestroys
<1>4. RowEffect
  BY <1>1, RowStatements, RowKept DEF PreviewDropLoser, PreviewDestroy
<1>5. PreviewEffect /\ preview'.pc \notin {"lost", "destroy", "failed"}
  BY PreviewRecord, PreviewRows DEF PreviewDropLoser, PreviewDestroy
<1> QED
  BY <1>3, <1>4, <1>5, PreviewSpares DEF PreviewDropLoser, PreviewDestroy

(* A publication without an answer, and the owner of the launched preview. *)
LEMMA PreviewOwnsEffect ==
  ASSUME BoxInv, PreviewDropFailed \/ PreviewOwn
  PROVE  Effect
<1>1. /\ preview.c \in Box /\ preview.node \in Host /\ row.container \in Box
      /\ None \in Box /\ None \in Host /\ "abort" \in PreviewPlace
  BY Types DEF PreviewType, RowType, Box, Host, PreviewPlace
<1>2. CASE PreviewDropFailed
  <2>1. DockerEffect /\ faults' \in 0..MaxFaults
    BY <1>1, <1>2, DockerDestroys DEF PreviewDropFailed, Pv, Condemned
  <2>2. preview' \in PreviewType /\ preview'.pc = "abort" /\ preview'.c = None
    BY <1>1, <1>2, Types, Zenon DEF PreviewDropFailed, PreviewType
  <2>3. RowEffect
    BY <1>1, <1>2, RowStatements, RowKept DEF PreviewDropFailed
  <2> QED
    BY <1>2, <2>1, <2>2, <2>3, PreviewRecord, PreviewSpares, Types, Zenon DEF PreviewDropFailed
<1>3. CASE PreviewOwn
  <2>1. RowEffect
    BY <1>1, <1>3, RowStatements, RowKept DEF PreviewOwn
  <2> QED
    BY <1>3, <2>1, PreviewStill, DockerStill, PreviewSpares, Types DEF PreviewOwn
<1> QED
  BY <1>2, <1>3

(* A running preview ends; an attempt goes on without its hold.            *)
LEMMA PreviewDropsHold ==
  ASSUME BoxInv,
         preview' = IF Pv("up") THEN PreviewNone ELSE [preview EXCEPT !.hold = FALSE]
  PROVE  /\ PreviewEffect
         /\ preview'.pc \in {"lost", "destroy", "failed", "publish"} =>
              preview'.pc = preview.pc /\ preview'.c = preview.c
<1>1. CASE preview' = PreviewNone
  BY <1>1, PreviewRecord, PreviewRows
<1>2. CASE preview.pc # "up" /\ preview' = [preview EXCEPT !.hold = FALSE]
  <2>1. /\ preview' \in PreviewType /\ preview'.pc = preview.pc /\ preview'.c = preview.c
        /\ ~preview'.hold /\ preview'.warm = preview.warm
    BY <1>2, Types, Zenon DEF PreviewType
  <2> QED
    BY <2>1 DEF PreviewEffect, Learns, ReadUnderHold, BoxInv, PlaceInv
<1> QED
  BY <1>1, <1>2 DEF Pv

(* Failure, abort, crash and expiry: the hold goes, the row stays.         *)
LEMMA PreviewFailsEffect ==
  ASSUME BoxInv,
         PreviewFails \/ PreviewAbort \/ PreviewRelease \/ PreviewCrash \/ PreviewLost
  PROVE  Effect
<1>1. /\ preview.c \in Box /\ row.container \in Box
      /\ {"none", "reserved", "abort", "release", "finalize"} \subseteq PreviewPlace
  BY Types DEF PreviewType, RowType, PreviewPlace
<1>2. RowEffect /\ faults' \in 0..MaxFaults
  BY <1>1, RowStatements, RowKept, FaultCounts
     DEF PreviewFails, PreviewAbort, PreviewRelease, PreviewCrash, PreviewLost
<1>3. PreviewEffect /\ (preview'.pc \in {"lost", "destroy", "failed"} =>
                          preview'.pc = preview.pc /\ preview'.c = preview.c)
  <2>1. CASE PreviewCrash
    <3>1. preview' \in PreviewType /\ preview'.pc \in {"none", "reserved"} /\ preview'.c = None
      <4>1. /\ preview.hold \in BOOLEAN /\ None \in Host /\ None \in Box
            /\ "none" \in PreviewPlace /\ "reserved" \in PreviewPlace
        BY <1>1, Types DEF PreviewType, Host, Box
      <4>2. CASE preview' = [PreviewNone EXCEPT !.hold = preview.hold]
        BY <4>1, <4>2, Zenon DEF PreviewNone, PreviewType
      <4>3. CASE preview' = [PreviewNone EXCEPT !.pc = "reserved", !.hold = preview.hold]
        BY <4>1, <4>3, ZenonT(60) DEF PreviewNone, PreviewType
      <4> QED
        BY <2>1, <4>2, <4>3 DEF PreviewCrash
    <3> QED
      BY <3>1, PreviewRecord
  <2>2. CASE PreviewLost
    BY <2>2, PreviewDropsHold DEF PreviewLost
  <2>3. CASE PreviewFails \/ PreviewAbort \/ PreviewRelease
    <3>1. PICK pc \in {"abort", "release", "finalize"}, b \in BOOLEAN :
            \/ preview' = PreviewNone
            \/ preview' = [preview EXCEPT !.pc = pc]
            \/ preview' = [preview EXCEPT !.pc = pc, !.hold = b]
      BY <2>3, Zenon DEF PreviewFails, PreviewAbort, PreviewRelease
    <3>2. \/ preview' = PreviewNone
          \/ preview' \in PreviewType /\ preview'.pc = pc /\ preview'.c = preview.c
      BY <1>1, <3>1, Types, ZenonT(30) DEF PreviewType
    <3> QED
      BY <3>2, PreviewRecord, PreviewRows
  <2> QED
    BY <2>1, <2>2, <2>3
<1> QED
  BY <1>2, <1>3, DockerStill, PreviewSpares
     DEF PreviewFails, PreviewAbort, PreviewRelease, PreviewCrash, PreviewLost

(* An aborted preview takes its container off the row and condemns it.     *)
LEMMA PreviewFinalizeEffect ==
  ASSUME BoxInv, PreviewFinalize
  PROVE  Effect
<1>1. preview.c \in Box /\ "destroy" \in PreviewPlace
  BY Types DEF PreviewType, PreviewPlace
<1>2. RowEffect /\ (CanFinalize(preview.c) => row'.container = None)
  BY <1>1, RowStatements, RowKept DEF PreviewFinalize, Cleared
<1>3. CASE ~CanFinalize(preview.c)
  BY <1>2, <1>3, PreviewRecord, PreviewRows, PreviewSpares, DockerStill, Types
     DEF PreviewFinalize
<1>4. CASE CanFinalize(preview.c)
  <2>1. preview' \in PreviewType /\ preview'.pc = "destroy" /\ preview'.c = preview.c
    BY <1>1, <1>4, Types DEF PreviewFinalize, PreviewType
  <2>2. PreviewEffect
    BY <2>1, PreviewRecord
  <2>3. CASE preview.c # None
    BY <1>2, <1>4, <2>1, <2>2, <2>3, PreviewCondemns, DockerStill, Types DEF PreviewFinalize
  <2>4. CASE preview.c = None
    <3>1. DoomEffect
      BY <2>1, <2>4, BoxAssumption DEF DoomEffect, Condemned, TurnDooms, PreviewFinalize
    <3>2. OtherTypes
      BY Types DEF OtherTypes, PreviewFinalize
    <3> QED
      BY <1>2, <2>2, <3>1, <3>2, DockerStill, TurnsRest DEF PreviewFinalize
  <2> QED
    BY <2>3, <2>4
<1> QED
  BY <1>3, <1>4

-----------------------------------------------------------------------------
(* A container that is recorded is known and not in the making, so whoever *)
(* takes it off the row may destroy it.                                    *)
LEMMA ClearedMayGo ==
  ASSUME BoxInv, NEW c \in Containers, row.container = c, row'.container # c,
         turn' = turn, preview' = preview
  PROVE  MayDoom(c)
<1>1. docker[c].st # "absent" /\ ~Making(c)
  BY DEF BoxInv, KnownInv, Known
<1>2. ~Making(c)'
  BY <1>1 DEF Making
<1> QED
  BY <1>1, <1>2 DEF MayDoom

(* StopPreviewWithReason.                                                  *)
LEMMA StopsEffect ==
  ASSUME BoxInv, StopPreview \/ StopFinalize \/ StopDestroy
  PROVE  Effect
<1>1. /\ row.container \in Box /\ stopper.w \in Box /\ None \in Box /\ stopper \in StopType
      /\ StopIdle \in StopType /\ StopIdle.pc = "idle"
  BY Types DEF RowType, StopType, StopIdle, Box
<1>2. CASE StopPreview
  <2>1. /\ PreviewEffect
        /\ preview'.pc \in {"lost", "destroy", "failed"} =>
             preview'.pc = preview.pc /\ preview'.c = preview.c
    BY <1>2, PreviewDropsHold DEF StopPreview
  <2>2. stopper' \in StopType /\ stopper'.pc # "destroy"
    BY <1>1, <1>2 DEF StopPreview, StopType
  <2>3. DoomEffect
    BY <1>2, <2>1, <2>2 DEF StopPreview, DoomEffect, Condemned, TurnDooms
  <2>4. OtherTypes
    BY <1>2, <2>2, Types DEF StopPreview, OtherTypes
  <2>5. RowEffect
    BY <1>1, <1>2, RowStatements, RowKept DEF StopPreview
  <2> QED
    BY <1>2, <2>1, <2>3, <2>4, <2>5, DockerStill, TurnsRest DEF StopPreview
<1>3. CASE StopFinalize
  <2>1. RowEffect /\ (CanFinalize(stopper.w) => row'.container = None)
    BY <1>1, <1>3, RowStatements, RowKept DEF StopFinalize, Cleared
  <2>2. /\ stopper' \in StopType /\ (stopper'.pc = "destroy" => CanFinalize(stopper.w))
        /\ stopper'.pc = "destroy" => stopper'.w = stopper.w
    BY <1>1, <1>3 DEF StopFinalize, StopType
  <2>3. ASSUME NEW c \in Containers, stopper'.pc = "destroy", stopper'.w = c PROVE MayDoom(c)
    BY <1>3, <2>1, <2>2, <2>3, ClearedMayGo, BoxAssumption
       DEF StopFinalize, CanFinalize, CanClear
  <2>4. DoomEffect
    BY <1>3, <2>3 DEF StopFinalize, DoomEffect, Condemned, TurnDooms
  <2>5. OtherTypes
    BY <1>3, <2>2, Types DEF StopFinalize, OtherTypes
  <2> QED
    BY <1>3, <2>1, <2>4, <2>5, PreviewStill, DockerStill, TurnsRest DEF StopFinalize
<1>4. CASE StopDestroy
  <2>1. Condemned(stopper.w) /\ Destroy(stopper.w, docker[stopper.w].node)
    BY <1>4 DEF StopDestroy, Condemned
  <2>2. DockerEffect /\ faults' \in 0..MaxFaults
    BY <1>1, <2>1, DockerDestroys
  <2>3. DoomEffect
    BY <1>1, <1>4 DEF StopDestroy, DoomEffect, Condemned, TurnDooms
  <2>4. OtherTypes
    BY <1>1, <1>4, <2>2, Types DEF StopDestroy, OtherTypes
  <2>5. RowEffect
    BY <1>1, <1>4, RowStatements, RowKept DEF StopDestroy
  <2> QED
    BY <1>4, <2>2, <2>3, <2>4, <2>5, PreviewStill, TurnsRest DEF StopDestroy
<1> QED
  BY <1>2, <1>3, <1>4

(* Every step of the preview.                                              *)
LEMMA PreviewStepEffect ==
  ASSUME BoxInv, PreviewStep
  PROVE  Effect
<1>1. None \in Host /\ Nodes \subseteq Host
  BY DEF Host
<1>2. CASE PreviewReserve \/ PreviewWarmReserve \/ \E n \in Nodes : PreviewRead(n) \/ PreviewWarmRead(n)
  BY <1>1, <1>2, PreviewReadsEffect
<1> QED
  BY <1>2, PreviewProbesEffect, PreviewHydrateEffect, PreviewPublishEffect,
     PreviewDestroysEffect, PreviewOwnsEffect, PreviewFailsEffect, PreviewFinalizeEffect,
     StopsEffect DEF PreviewStep

(* The collector of a host.                                                *)
LEMMA GcEffect ==
  ASSUME BoxInv, NEW c \in Containers, GcExpire(c) \/ GcStaleReview(c) \/ GcDestroy(c)
  PROVE  Effect
<1>1. row.container \in Box /\ c \in Box
  BY Types DEF RowType, Box
<1>2. CASE GcExpire(c) \/ GcStaleReview(c)
  <2>1. RowEffect /\ row'.container = None /\ row.container = c /\ c # None
    BY <1>1, <1>2, RowStatements, RowKept, BoxAssumption
       DEF GcExpire, GcStaleReview, Cleared, CanFinalize, CanClear
  <2>2. MayDoom(c)
    BY <1>2, <2>1, ClearedMayGo DEF GcExpire, GcStaleReview
  <2>3. DoomEffect
    BY <1>2, <2>2 DEF GcExpire, GcStaleReview, DoomEffect, Condemned, TurnDooms
  <2>4. OtherTypes
    BY <1>2, Types DEF GcExpire, GcStaleReview, OtherTypes
  <2> QED
    BY <1>2, <2>1, <2>3, <2>4, PreviewStill, DockerStill, TurnsRest DEF GcExpire, GcStaleReview
<1>3. CASE GcDestroy(c)
  <2>1. DockerEffect /\ faults' \in 0..MaxFaults
    BY <1>1, <1>3, DockerDestroys DEF GcDestroy, Condemned
  <2>2. DoomEffect
    BY <1>3 DEF GcDestroy, DoomEffect, Condemned, TurnDooms
  <2>3. OtherTypes
    BY <1>3, <2>1, Types DEF GcDestroy, OtherTypes
  <2>4. RowEffect
    BY <1>1, <1>3, RowStatements, RowKept DEF GcDestroy
  <2> QED
    BY <1>3, <2>1, <2>2, <2>3, <2>4, PreviewStill, TurnsRest DEF GcDestroy
<1> QED
  BY <1>2, <1>3

(* The collector condemns what the row does not name and nobody is making. *)
LEMMA GcListEffect ==
  ASSUME BoxInv, NEW n \in Nodes, GcList(n)
  PROVE  Effect
<1>1. row.container \in Box
  BY Types DEF RowType
<1>2. RowEffect /\ row' = row
  BY <1>1, RowStatements, RowKept DEF GcList
<1>3. ASSUME NEW c \in Containers, c \in doomed', c \notin doomed PROVE MayDoom(c)
  <2>1. c \notin Unpublished /\ docker[c].st = "up" /\ row.container # c
    BY <1>3 DEF GcList, Unreferenced, Alive
  <2>2. ~Making(c)'
    BY <2>1 DEF GcList, Making, Unpublished, At, Pv
  <2> QED
    BY <1>2, <2>1, <2>2 DEF MayDoom
<1>4. DoomEffect
  BY <1>3 DEF GcList, DoomEffect, Condemned, TurnDooms
<1>5. OtherTypes
  BY Types DEF GcList, Unreferenced, OtherTypes
<1> QED
  BY <1>2, <1>4, <1>5, PreviewStill, DockerStill, TurnsRest DEF GcList

(* The pass of a starting process exposes what it finds in the making.     *)
LEMMA GcStartupEffect ==
  ASSUME BoxInv, NEW n \in Nodes, GcStartup(n)
  PROVE  Effect
<1>1. row.container \in Box
  BY Types DEF RowType
<1>2. RowEffect /\ row' = row
  BY <1>1, RowStatements, RowKept DEF GcStartup
<1>3. ExposedEffect /\ doomed' \subseteq Containers
  BY Types DEF GcStartup, ExposedEffect, Unreferenced
<1>4. ASSUME NEW c \in Containers, c \in doomed', c \notin doomed PROVE MayDoom(c)
  <2>1. c \in Unreferenced(n) /\ docker[c].st = "up" /\ row.container # c
    BY <1>4 DEF GcStartup, Unreferenced, Alive
  <2>2. CASE c \in Unpublished
    BY <2>1, <2>2 DEF GcStartup, MayDoom
  <2>3. CASE c \notin Unpublished
    <3>1. ~Making(c)'
      BY <2>3 DEF GcStartup, Making, Unpublished, At, Pv
    <3> QED
      BY <1>2, <2>1, <3>1 DEF MayDoom
  <2> QED
    BY <2>2, <2>3
<1>5. DoomEffect
  BY <1>4 DEF GcStartup, DoomEffect, Condemned, TurnDooms
<1>6. OtherTypes
  BY <1>3, FaultCounts, Types DEF GcStartup, OtherTypes
<1> QED
  BY <1>2, <1>3, <1>5, <1>6, PreviewStill, DockerStill, TurnsRest DEF GcStartup

(* The start-up reconciler.                                                *)
LEMMA RcEffect ==
  ASSUME BoxInv, RcList \/ RcSkip \/ RcDestroy \/ \E n \in Nodes : RcClear(n)
  PROVE  Effect
<1>1. /\ row.container \in Box /\ rc.c \in Box /\ None \in Box /\ rc \in RcType
      /\ RcIdle \in RcType /\ RcIdle.pc = "idle"
  BY Types DEF RowType, RcType, RcIdle, Box
<1>2. CASE RcList \/ RcSkip
  <2>1. rc' \in RcType /\ rc'.pc # "destroy" /\ faults' \in 0..MaxFaults
    BY <1>1, <1>2, FaultCounts DEF RcList, RcSkip, RcType
  <2>2. DoomEffect
    BY <1>2, <2>1 DEF RcList, RcSkip, DoomEffect, Condemned, TurnDooms
  <2>3. OtherTypes
    BY <1>2, <2>1, Types DEF RcList, RcSkip, OtherTypes
  <2>4. RowEffect
    BY <1>1, <1>2, RowStatements, RowKept DEF RcList, RcSkip
  <2> QED
    BY <1>2, <2>2, <2>3, <2>4, PreviewStill, DockerStill, TurnsRest DEF RcList, RcSkip
<1>3. ASSUME NEW n \in Nodes, RcClear(n) PROVE Effect
  <2>1. RowEffect /\ (CanClear(rc.c) => row'.container = None)
    BY <1>1, <1>3, RowStatements, RowKept DEF RcClear, Cleared
  <2>2. /\ rc' \in RcType /\ (rc'.pc = "destroy" => CanClear(rc.c))
        /\ rc'.pc = "destroy" => rc'.c = rc.c
    BY <1>1, <1>3 DEF RcClear, RcType
  <2>3. ASSUME NEW c \in Containers, rc'.pc = "destroy", rc'.c = c PROVE MayDoom(c)
    BY <1>3, <2>1, <2>2, <2>3, ClearedMayGo, BoxAssumption DEF RcClear, CanClear
  <2>4. DoomEffect
    BY <1>3, <2>3 DEF RcClear, DoomEffect, Condemned, TurnDooms
  <2>5. OtherTypes
    BY <1>3, <2>2, Types DEF RcClear, OtherTypes
  <2> QED
    BY <1>3, <2>1, <2>4, <2>5, PreviewStill, DockerStill, TurnsRest DEF RcClear
<1>4. CASE RcDestroy
  <2>1. DockerEffect /\ faults' \in 0..MaxFaults
    BY <1>1, <1>4, DockerDestroys DEF RcDestroy, Condemned
  <2>2. DoomEffect
    BY <1>1, <1>4 DEF RcDestroy, DoomEffect, Condemned, TurnDooms
  <2>3. OtherTypes
    BY <1>1, <1>4, <2>1, Types DEF RcDestroy, OtherTypes
  <2>4. RowEffect
    BY <1>1, <1>4, RowStatements, RowKept DEF RcDestroy
  <2> QED
    BY <1>4, <2>1, <2>2, <2>3, <2>4, PreviewStill, TurnsRest DEF RcDestroy
<1> QED
  BY <1>2, <1>3, <1>4

(* Expiry of the retained workspace, the reaper, and containers that go by *)
(* themselves.                                                             *)
LEMMA AmbientEffect ==
  ASSUME BoxInv,
         RetainedExpires \/ StatusReaped \/ \E c \in Containers : Vanishes(c)
  PROVE  Effect
<1>1. row.container \in Box
  BY Types DEF RowType
<1>2. DockerEffect /\ faults' \in 0..MaxFaults
  <2>1. CASE RetainedExpires \/ StatusReaped
    BY <2>1, DockerStill, Types DEF RetainedExpires, StatusReaped
  <2>2. ASSUME NEW c \in Containers, Vanishes(c) PROVE DockerEffect /\ faults' \in 0..MaxFaults
    BY <2>2, DockerDrops, FaultCounts DEF Vanishes, Box
  <2> QED
    BY <2>1, <2>2
<1>3. RowEffect
  BY <1>1, RowStatements, RowKept DEF RetainedExpires, StatusReaped, Vanishes
<1>4. DoomEffect
  BY DEF RetainedExpires, StatusReaped, Vanishes, DoomEffect, Condemned, TurnDooms
<1>5. OtherTypes
  BY <1>2, Types, Zenon DEF RetainedExpires, StatusReaped, Vanishes, OtherTypes
<1> QED
  BY <1>2, <1>3, <1>4, <1>5, PreviewStill, TurnsRest DEF RetainedExpires, StatusReaped, Vanishes

(* Every step, a stutter included.                                         *)
LEMMA StepEffect ==
  ASSUME BoxInv, [BoxNext]_boxVars
  PROVE  Effect
<1>1. CASE UNCHANGED boxVars
  <2>1. row.container \in Box
    BY Types DEF RowType
  <2>2. RowEffect
    BY <1>1, <2>1, RowStatements, RowKept DEF boxVars
  <2>3. DoomEffect
    BY <1>1 DEF boxVars, DoomEffect, Condemned, TurnDooms
  <2>4. OtherTypes
    BY <1>1, Types DEF boxVars, OtherTypes
  <2> QED
    BY <1>1, <2>2, <2>3, <2>4, DockerStill, PreviewStill, TurnsRest DEF boxVars
<1>2. CASE BoxNext
  BY <1>2, TurnStepEffect, PreviewStepEffect, GcEffect, GcListEffect, GcStartupEffect, RcEffect, AmbientEffect
     DEF BoxNext, CollectorStep
<1> QED
  BY <1>1, <1>2

(* The first session has no container, and nobody knows one.               *)
LEMMA BoxStarts == BoxInit => BoxInv
<1> SUFFICES ASSUME BoxInit PROVE BoxInv
  OBVIOUS
<1>1. /\ row.container = None /\ doomed = {} /\ preview.pc = "none" /\ preview.c = None
      /\ stopper.pc = "idle" /\ rc.pc = "idle" /\ ~preview.hold
      /\ \A t \in Turns : turn[t].pc = "idle" /\ turn[t].c = None
  BY DEF BoxInit, PreviewNone, StopIdle, RcIdle, TurnIdle
<1>2. BoxTypeOK
  <2>1. /\ row \in RowType /\ docker \in DockerType /\ holder \in HolderType
        /\ retained \in BOOLEAN /\ doomed \subseteq Containers /\ faults \in 0..MaxFaults
        /\ exposed \subseteq Containers
    <3>1. row \in RowType
      BY Zenon DEF BoxInit, RowType, Box, Host
    <3>2. docker \in DockerType
      BY DEF BoxInit, DockerType, Host
    <3>3. /\ holder \in HolderType /\ retained \in BOOLEAN /\ doomed \subseteq Containers
          /\ exposed \subseteq Containers
      BY Zenon DEF BoxInit, HolderType
    <3>4. faults \in 0..MaxFaults
      BY BoxAssumption DEF BoxInit
    <3> QED
      BY <3>1, <3>2, <3>3, <3>4
  <2>2. turn \in [Turns -> TurnType] /\ preview \in PreviewType
    BY DEF BoxInit, TurnIdle, PreviewNone, TurnType, PreviewType, TurnPlace, PreviewPlace,
           Box, Host
  <2>3. stopper \in StopType /\ rc \in RcType
    BY DEF BoxInit, StopIdle, RcIdle, StopType, RcType, Box
  <2> QED
    BY <2>1, <2>2, <2>3 DEF BoxTypeOK, RowType, DockerType, TurnType, PreviewType, HolderType,
       StopType, RcType, Box, Host
<1>3. KnownInv
  BY <1>1, BoxAssumption DEF KnownInv, Known, Condemned, TurnDooms, Making
<1> QED
  BY <1>1, <1>2, <1>3
     DEF BoxInv, MakerInv, PlaceInv, WithBox, HoldInv, ReadUnderHold, FenceInv, Fenced

(* The invariant is inductive.                                             *)
LEMMA BoxStep == BoxInv /\ [BoxNext]_boxVars => BoxInv'
<1> SUFFICES ASSUME BoxInv, [BoxNext]_boxVars PROVE BoxInv'
  OBVIOUS
<1>1. Effect
  BY StepEffect
<1> QED
  BY <1>1, TypeStep, KnownStep, MakerStep, HeldStep DEF BoxInv

-----------------------------------------------------------------------------
(* However many turns, hosts and containers there are: the session names a *)
(* container that a process of this system removed only if the pass of a   *)
(* starting process listed it before it was published, or its publisher    *)
(* was not told that the statement had published it.  Every other destroy  *)
(* follows the clear of the row (ClearContainerID before Destroy,          *)
(* AcquireTurnHold by the creator only).                                   *)
THEOREM RowDanglesOnlyExposed == BoxSpec => []RowNeverDangles
<1>1. ASSUME BoxInv PROVE RowNeverDangles
  <2> SUFFICES ASSUME row.container # None, docker[row.container].st \in {"absent", "removed"}
               PROVE  row.container \in exposed
    BY DEF RowNeverDangles
  <2>1. row.container \in Containers
    BY <1>1, Types DEF BoxInv, RowType, Box
  <2>2. Sound(row.container)
    BY <1>1, <2>1 DEF BoxInv, KnownInv
  <2> QED
    BY <2>2 DEF Sound
<1> QED
  BY <1>1, BoxStarts, BoxStep, PTL DEF BoxSpec

(* The session keeps naming the container that a preview attached to after *)
(* it read the session under its own hold, whatever any number of turns,   *)
(* the collectors and the reconciler do (ReservePreview before             *)
(* acquireSandbox).                                                        *)
THEOREM HeldPreviewKeeps == BoxSpec => []PreviewKeepsContainer
<1>1. BoxInv => PreviewKeepsContainer
  BY DEF PreviewKeepsContainer, Pv, BoxInv, PlaceInv, HoldInv, ReadUnderHold
<1> QED
  BY <1>1, BoxStarts, BoxStep, PTL DEF BoxSpec

(* The session keeps naming the container of a review turn that wrote its  *)
(* leased row and joined again, until the lease lapses                     *)
(* (acquireReviewSetupHold).                                               *)
THEOREM FencedTurnKeeps == BoxSpec => []FencedTurnKeepsContainer
<1>1. BoxInv => FencedTurnKeepsContainer
  BY DEF FencedTurnKeepsContainer, Fenced, BoxInv, FenceInv
<1> QED
  BY <1>1, BoxStarts, BoxStep, PTL DEF BoxSpec
=============================================================================
