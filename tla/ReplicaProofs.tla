---------------------------- MODULE ReplicaProofs ----------------------------
(***************************************************************************)
(* Proofs about the life of a service's replicas, for any number of them,  *)
(* any images and any periods that fit in the grace period.                *)
(***************************************************************************)
EXTENDS Replica, TLAPS

(***************************************************************************)
(* The inductive invariant                                                 *)
(***************************************************************************)
\* What a boot relies on: the files are applied in their order, what it has seen
\* and what it has skipped is still applied, and only one holds a file's row.
Migrations ==
  /\ \A f \in migrated : 1 .. f \subseteq migrated
  /\ \A f \in Files : effects[f] = IF f \in migrated THEN 1 ELSE 0
  /\ \A r \in Replicas :
       /\ snapshot[r] \subseteq migrated
       /\ stage[r] = "apply" => 1 .. file[r] - 1 \subseteq migrated
       /\ stage[r] = "listening" => 1 .. Ships[r] \subseteq migrated
       /\ open[r] => stage[r] = "apply" /\ file[r] <= Ships[r] /\ file[r] \notin migrated
  /\ \A r, o \in Replicas : open[r] /\ open[o] /\ r # o => file[r] # file[o]

\* Where a shutdown is, by the clock: the time since its start and what the timer
\* of its phase has left add up to the end of the phase.
Clock ==
  \A r \in Replicas :
    /\ term[r] = -1 => phase[r] = "none"
    /\ phase[r] = "none" /\ Alive(r) => term[r] <= PreStop
    /\ phase[r] = "drain" /\ Alive(r) => term[r] + timer[r] = PreStop + DrainPeriod
    /\ phase[r] \in {"pool", "server"} /\ Alive(r) =>
         /\ term[r] + timer[r] = PreStop + DrainPeriod + ShutdownTimeout
         /\ timer[r] <= ShutdownTimeout
    /\ phase[r] = "done" => stage[r] = "exited"
    /\ endpoint[r] => stage[r] = "listening" /\ term[r] < PreStop + DrainPeriod

\* What a request has lived through: it was let in before the close began.
Waiting ==
  \A q \in Arrivals :
    /\ request[q] # "refused"
    /\ request[q] = "cut" => age[q] = MaxAge
    /\ request[q] \in {"in", "query"} /\ phase[at[q]] \in {"pool", "server"} =>
         age[q] + timer[at[q]] >= ShutdownTimeout

ReplicaIInv == ReplicaTypeOK /\ Migrations /\ Clock /\ Waiting

\* The periods are positive, and fit in the grace period.
LEMMA Periods ==
  /\ PreStop \in Nat \ {0} /\ DrainPeriod \in Nat \ {0} /\ ShutdownTimeout \in Nat \ {0}
  /\ Grace \in Nat \ {0} /\ PreStop + DrainPeriod + ShutdownTimeout < Grace
<1>1. /\ PreStop \in Nat \ {0} /\ DrainPeriod \in Nat \ {0} /\ ShutdownTimeout \in Nat \ {0}
      /\ Grace \in Nat
      /\ PreStop + DrainPeriod + ShutdownTimeout < Grace
  BY ReplicaTimes
<1> QED BY <1>1

\* A replica's files are among the files.
LEMMA ShipsFiles ==
  ASSUME NEW r \in Replicas
  PROVE  Ships[r] \in Nat \ {0} /\ 1 .. Ships[r] \subseteq Files
BY ReplicaTimes DEF Files

\* A file is a number, and the ones before it are files too.
LEMMA FilesBefore ==
  ASSUME NEW f \in Files
  PROVE  f \in Nat \ {0} /\ f \in 1 .. f /\ 1 .. f \subseteq Files
<1>1. PICK r \in Replicas : f \in 1 .. Ships[r]
  BY DEF Files
<1>2. Ships[r] \in Nat /\ 1 .. Ships[r] \subseteq Files
  BY ShipsFiles
<1> QED BY <1>1, <1>2

\* The initial state satisfies the invariant.
LEMMA ReplicaStart == ReplicaInit => ReplicaIInv
<1> SUFFICES ASSUME ReplicaInit PROVE ReplicaIInv
  OBVIOUS
<1>1. 0 \in 0 .. MaxAge /\ -1 \in -1 .. Grace /\ MaxBootFaults \in Nat
  BY Periods, ReplicaTimes DEF MaxAge
<1>2. /\ effects \in [Files -> Nat] /\ stage \in [Replicas -> Stages] /\ phase \in [Replicas -> Phases]
      /\ snapshot \in [Replicas -> SUBSET Files] /\ file \in [Replicas -> Nat \ {0}]
      /\ timer \in [Replicas -> Nat] /\ pool \in [Replicas -> {"open", "ending", "ended"}]
      /\ request \in [Arrivals -> {"new", "in", "query", "done", "failed", "refused", "cut"}]
  BY DEF ReplicaInit, Stages, Phases
<1>3. /\ catalog \in BOOLEAN /\ migrated \subseteq Files
      /\ open \in [Replicas -> BOOLEAN] /\ ready \in [Replicas -> BOOLEAN] /\ endpoint \in [Replicas -> BOOLEAN]
  BY DEF ReplicaInit
<1>9. at \in [Arrivals -> Replicas]
  <2>1. (CHOOSE r \in Replicas : TRUE) \in Replicas
    BY ReplicaTimes
  <2> QED BY <2>1 DEF ReplicaInit
<1>4. /\ term \in [Replicas -> -1 .. Grace] /\ age \in [Arrivals -> 0 .. MaxAge] /\ bootFaults \in Nat
  BY <1>1 DEF ReplicaInit
<1>5. ReplicaTypeOK
  BY <1>2, <1>3, <1>4, <1>9 DEF ReplicaTypeOK
<1>6. Migrations
  BY DEF ReplicaInit, Migrations
<1>7. Clock
  BY Periods DEF ReplicaInit, Clock, Alive
<1>8. Waiting
  BY DEF ReplicaInit, Waiting
<1> QED BY <1>5, <1>6, <1>7, <1>8 DEF ReplicaIInv

(***************************************************************************)
(* The boot                                                                *)
(***************************************************************************)
\* What is left to show of a boot step, which leaves the shutdown alone: the boot's
\* variables keep their types and what the boots rely on, and the stage only moves
\* where nobody is routed to and nothing ends.
LEMMA BootFrame ==
  ASSUME ReplicaIInv,
         UNCHANGED <<ready, phase, timer, term, endpoint, traffic>>,
         catalog' \in BOOLEAN, migrated' \subseteq Files, effects' \in [Files -> Nat],
         stage' \in [Replicas -> Stages], snapshot' \in [Replicas -> SUBSET Files],
         file' \in [Replicas -> Nat \ {0}], open' \in [Replicas -> BOOLEAN],
         pool' \in [Replicas -> {"open", "ending", "ended"}], bootFaults' \in Nat,
         \A o \in Replicas :
           \/ stage'[o] = stage[o]
           \/ stage[o] \notin {"listening", "exited"} /\ (Alive(o)' => Alive(o) \/ term[o] = -1),
         Migrations'
  PROVE  ReplicaIInv'
<1>1. ReplicaTypeOK'
  BY DEF ReplicaIInv, ReplicaTypeOK, traffic
<1>2. Waiting'
  BY DEF ReplicaIInv, Waiting, traffic
<1>3. Clock'
  <2> SUFFICES ASSUME NEW o \in Replicas
               PROVE  /\ term[o] = -1 => phase[o] = "none"
                      /\ phase[o] = "none" /\ Alive(o)' => term[o] <= PreStop
                      /\ phase[o] = "drain" /\ Alive(o)' => term[o] + timer[o] = PreStop + DrainPeriod
                      /\ phase[o] \in {"pool", "server"} /\ Alive(o)' =>
                           /\ term[o] + timer[o] = PreStop + DrainPeriod + ShutdownTimeout
                           /\ timer[o] <= ShutdownTimeout
                      /\ phase[o] = "done" => stage'[o] = "exited"
                      /\ endpoint[o] => stage'[o] = "listening" /\ term[o] < PreStop + DrainPeriod
    BY DEF Clock, Alive
  <2>1. Clock
    BY DEF ReplicaIInv
  <2>2. CASE stage'[o] = stage[o]
    BY <2>1, <2>2 DEF Clock, Alive
  <2>3. CASE stage[o] \notin {"listening", "exited"} /\ (Alive(o)' => Alive(o) \/ term[o] = -1)
    <3>1. phase[o] # "done" /\ ~endpoint[o] /\ (term[o] = -1 => phase[o] = "none")
      BY <2>1, <2>3 DEF Clock
    <3>2. -1 <= PreStop
      BY Periods
    <3> QED BY <2>1, <2>3, <3>1, <3>2 DEF Clock
  <2> QED BY <2>2, <2>3
<1> QED BY <1>1, <1>2, <1>3 DEF ReplicaIInv

\* Nothing that only moves a boot, leaves no transaction open and claims nothing of
\* the database harms what the boots rely on.
LEMMA BootMoves ==
  ASSUME Migrations, NEW r \in Replicas, ReplicaTypeOK,
         UNCHANGED <<migrated, effects, snapshot, file>>,
         stage' \in [Replicas -> Stages], open' \in [Replicas -> BOOLEAN],
         \A o \in Replicas : (stage'[o] # stage[o] => stage'[o] \notin {"apply", "listening"} /\ ~open'[o])
                             /\ (open'[o] => open[o])
  PROVE  Migrations'
BY DEF Migrations

\* The table is created by one, and others fail on it or not.
LEMMA CreateTableKeeps ==
  ASSUME ReplicaIInv, NEW r \in Replicas, CreateTable(r)
  PROVE  ReplicaIInv'
<1>1. /\ UNCHANGED <<migrated, effects, snapshot, file, open, bootFaults, ready, phase, timer, pool, term, endpoint, traffic>>
      /\ catalog' \in BOOLEAN /\ stage' \in [Replicas -> Stages]
      /\ \A o \in Replicas : stage'[o] = stage[o] \/ (stage[o] = "create" /\ stage'[o] \in {"select", "failed"})
  BY DEF CreateTable, ReplicaIInv, ReplicaTypeOK, Stages
<1>2. \A o \in Replicas : stage[o] = "create" => ~open[o]
  BY DEF ReplicaIInv, Migrations
<1>3. Migrations'
  BY <1>1, <1>2, BootMoves DEF ReplicaIInv, ReplicaTypeOK
<1> QED BY <1>1, <1>3, BootFrame DEF ReplicaIInv, ReplicaTypeOK, Alive

\* The rows are read, and none of them is ever deleted.
LEMMA SelectKeeps ==
  ASSUME ReplicaIInv, NEW r \in Replicas, SelectApplied(r)
  PROVE  ReplicaIInv'
<1>1. /\ UNCHANGED <<catalog, migrated, effects, open, bootFaults, ready, phase, timer, pool, term, endpoint, traffic>>
      /\ stage[r] = "select" /\ stage'[r] = "apply" /\ snapshot'[r] = migrated /\ file'[r] = 1
      /\ \A o \in Replicas \ {r} : stage'[o] = stage[o] /\ snapshot'[o] = snapshot[o] /\ file'[o] = file[o]
      /\ stage' \in [Replicas -> Stages] /\ snapshot' \in [Replicas -> SUBSET Files]
      /\ file' \in [Replicas -> Nat \ {0}]
  BY DEF SelectApplied, ReplicaIInv, ReplicaTypeOK, Stages
<1>2. Migrations /\ ~open[r] /\ 1 .. 0 \subseteq migrated
  BY <1>1 DEF ReplicaIInv, Migrations
<1>3. Migrations'
  <2>1. \A o \in Replicas :
          /\ snapshot'[o] \subseteq migrated
          /\ stage'[o] = "apply" => 1 .. file'[o] - 1 \subseteq migrated
          /\ stage'[o] = "listening" => 1 .. Ships[o] \subseteq migrated
          /\ open[o] => stage'[o] = "apply" /\ file'[o] <= Ships[o] /\ file'[o] \notin migrated
    BY <1>1, <1>2 DEF Migrations
  <2>2. \A x, y \in Replicas : open[x] /\ open[y] /\ x # y => file'[x] # file'[y]
    BY <1>1, <1>2 DEF Migrations
  <2> QED BY <1>1, <1>2, <2>1, <2>2 DEF Migrations
<1> QED BY <1>1, <1>3, BootFrame DEF ReplicaIInv, ReplicaTypeOK, Alive

\* A file that has been applied is passed over.
LEMMA SkipKeeps ==
  ASSUME ReplicaIInv, NEW r \in Replicas, SkipFile(r)
  PROVE  ReplicaIInv'
<1>1. /\ UNCHANGED <<catalog, migrated, effects, snapshot, open, bootFaults, stage, ready, phase, timer, pool, term, endpoint, traffic>>
      /\ stage[r] = "apply" /\ ~open[r] /\ file[r] \in snapshot[r] /\ file'[r] = file[r] + 1
      /\ \A o \in Replicas \ {r} : file'[o] = file[o]
      /\ file' \in [Replicas -> Nat \ {0}] /\ file[r] \in Nat \ {0}
  BY DEF SkipFile, Applying, ReplicaIInv, ReplicaTypeOK
<1>2. Migrations
  BY DEF ReplicaIInv
<1>3. 1 .. file'[r] - 1 \subseteq migrated
  <2>1. file[r] \in migrated /\ 1 .. file[r] \subseteq migrated
    BY <1>1, <1>2 DEF Migrations
  <2> QED BY <1>1, <2>1
<1>4. Migrations'
  <2>1. \A o \in Replicas :
          /\ snapshot[o] \subseteq migrated
          /\ stage[o] = "apply" => 1 .. file'[o] - 1 \subseteq migrated
          /\ stage[o] = "listening" => 1 .. Ships[o] \subseteq migrated
          /\ open[o] => stage[o] = "apply" /\ file'[o] <= Ships[o] /\ file'[o] \notin migrated
    BY <1>1, <1>2, <1>3 DEF Migrations
  <2>2. \A x, y \in Replicas : open[x] /\ open[y] /\ x # y => file'[x] # file'[y]
    BY <1>1, <1>2 DEF Migrations
  <2> QED BY <1>1, <1>2, <2>1, <2>2 DEF Migrations
<1> QED BY <1>1, <1>4, BootFrame DEF ReplicaIInv, ReplicaTypeOK, Alive

\* What a boot forgets has its types.
LEMMA ForgottenTyped ==
  ASSUME ReplicaTypeOK, NEW r \in Replicas, Forgets(r)
  PROVE  /\ snapshot' \in [Replicas -> SUBSET Files] /\ file' \in [Replicas -> Nat \ {0}]
         /\ snapshot'[r] = {} /\ file'[r] = 1
         /\ \A o \in Replicas \ {r} : snapshot'[o] = snapshot[o] /\ file'[o] = file[o]
BY DEF Forgets, ReplicaTypeOK

\* A boot that is over, one way or the other, harms no other.
LEMMA ForgottenHarmless ==
  ASSUME Migrations, ReplicaTypeOK, NEW r \in Replicas, Forgets(r),
         UNCHANGED <<migrated, effects>>, ~open'[r], stage'[r] # "apply",
         stage'[r] = "listening" => 1 .. Ships[r] \subseteq migrated,
         \A o \in Replicas \ {r} : stage'[o] = stage[o] /\ open'[o] = open[o]
  PROVE  Migrations'
<1>1. /\ snapshot'[r] = {}
      /\ \A o \in Replicas \ {r} : snapshot'[o] = snapshot[o] /\ file'[o] = file[o]
  BY ForgottenTyped
<1>2. \A o \in Replicas :
        /\ snapshot'[o] \subseteq migrated
        /\ stage'[o] = "apply" => 1 .. file'[o] - 1 \subseteq migrated
        /\ stage'[o] = "listening" => 1 .. Ships[o] \subseteq migrated
        /\ open'[o] => stage'[o] = "apply" /\ file'[o] <= Ships[o] /\ file'[o] \notin migrated
  BY <1>1 DEF Migrations
<1>3. \A x, y \in Replicas : open'[x] /\ open'[y] /\ x # y => file'[x] # file'[y]
  BY <1>1 DEF Migrations
<1> QED BY <1>2, <1>3 DEF Migrations

\* A boot that fails holds nothing any more.
LEMMA BootFailsKeeps ==
  ASSUME ReplicaIInv, NEW r \in Replicas, Booting(r), BootFails(r),
         UNCHANGED <<catalog, migrated, effects, ready, phase, timer, pool, term, endpoint, traffic>>,
         bootFaults' \in Nat
  PROVE  ReplicaIInv'
<1>1. /\ stage[r] \in {"create", "select", "apply"} /\ stage'[r] = "failed" /\ ~open'[r]
      /\ \A o \in Replicas \ {r} : stage'[o] = stage[o] /\ open'[o] = open[o]
      /\ stage' \in [Replicas -> Stages] /\ open' \in [Replicas -> BOOLEAN]
  BY DEF Booting, BootFails, ReplicaIInv, ReplicaTypeOK, Stages
<1>2. Forgets(r)
  BY DEF BootFails
<1>3. Migrations'
  BY <1>1, <1>2, ForgottenHarmless DEF ReplicaIInv
<1>4. snapshot' \in [Replicas -> SUBSET Files] /\ file' \in [Replicas -> Nat \ {0}]
  BY <1>2, ForgottenTyped DEF ReplicaIInv
<1> QED BY <1>1, <1>3, <1>4, BootFrame DEF ReplicaIInv, ReplicaTypeOK, Alive

\* A transaction is begun where nobody has the row, and nobody's is pending.
LEMMA InsertKeeps ==
  ASSUME ReplicaIInv, NEW r \in Replicas, InsertVersion(r)
  PROVE  ReplicaIInv'
<1>1. CASE file[r] \in migrated
  BY <1>1, BootFailsKeeps DEF InsertVersion, Applying, Booting, ReplicaIInv, ReplicaTypeOK
<1>2. CASE file[r] \notin migrated
  <2>1. /\ UNCHANGED <<catalog, migrated, effects, snapshot, file, bootFaults, stage, ready, phase, timer, pool, term, endpoint, traffic>>
        /\ stage[r] = "apply" /\ file[r] <= Ships[r] /\ open' = [open EXCEPT ![r] = TRUE]
        /\ \A other \in Replicas \ {r} : ~(open[other] /\ file[other] = file[r])
    BY <1>2 DEF InsertVersion, Applying
  <2>2. open'[r] /\ (\A o \in Replicas \ {r} : open'[o] = open[o]) /\ open' \in [Replicas -> BOOLEAN]
    BY <2>1 DEF ReplicaIInv, ReplicaTypeOK
  <2>3. Migrations'
    <3>1. \A x, y \in Replicas : open'[x] /\ open'[y] /\ x # y => file[x] # file[y]
      BY <2>1, <2>2 DEF ReplicaIInv, Migrations
    <3>2. \A o \in Replicas : open'[o] => stage[o] = "apply" /\ file[o] <= Ships[o] /\ file[o] \notin migrated
      BY <1>2, <2>1, <2>2 DEF ReplicaIInv, Migrations
    <3> QED BY <2>1, <3>1, <3>2 DEF ReplicaIInv, Migrations
  <2> QED BY <2>1, <2>2, <2>3, BootFrame DEF ReplicaIInv, ReplicaTypeOK
<1> QED BY <1>1, <1>2

\* Only the one that holds a file's row commits it, and once.
LEMMA CommitKeeps ==
  ASSUME ReplicaIInv, NEW r \in Replicas, CommitFile(r)
  PROVE  ReplicaIInv'
<1>1. /\ UNCHANGED <<catalog, snapshot, bootFaults, stage, ready, phase, timer, pool, term, endpoint, traffic>>
      /\ open[r] /\ migrated' = migrated \union {file[r]}
  BY DEF CommitFile
<1>2. /\ file[r] \in Nat \ {0} /\ file[r] <= Ships[r] /\ stage[r] = "apply" /\ file[r] \notin migrated
      /\ 1 .. file[r] - 1 \subseteq migrated
  BY <1>1 DEF ReplicaIInv, Migrations, ReplicaTypeOK
<1>3. file[r] \in Files /\ 1 .. file[r] \subseteq migrated'
  <2>1. file[r] \in 1 .. Ships[r]
    BY <1>2, ShipsFiles
  <2>2. file[r] \in Files
    BY <2>1, ShipsFiles
  <2>3. 1 .. file[r] \subseteq migrated'
    BY <1>1, <1>2
  <2> QED BY <2>2, <2>3
<1>4. /\ file'[r] = file[r] + 1 /\ ~open'[r]
      /\ \A o \in Replicas \ {r} : file'[o] = file[o] /\ open'[o] = open[o]
      /\ file' \in [Replicas -> Nat \ {0}] /\ open' \in [Replicas -> BOOLEAN]
  <2>1. file' = [file EXCEPT ![r] = file[r] + 1] /\ open' = [open EXCEPT ![r] = FALSE]
    BY DEF CommitFile
  <2> QED BY <2>1, <1>2 DEF ReplicaIInv, ReplicaTypeOK
<1>5. effects' \in [Files -> Nat] /\ \A f \in Files : effects'[f] = IF f \in migrated' THEN 1 ELSE 0
  <2>1. effects' = [effects EXCEPT ![file[r]] = effects[file[r]] + 1] /\ effects \in [Files -> Nat]
    BY DEF CommitFile, ReplicaIInv, ReplicaTypeOK
  <2>2. \A f \in Files : effects[f] = IF f \in migrated THEN 1 ELSE 0
    BY DEF ReplicaIInv, Migrations
  <2> QED BY <1>1, <1>2, <1>3, <2>1, <2>2
<1>6. Migrations'
  <2>1. \A f \in migrated' : 1 .. f \subseteq migrated'
    BY <1>1, <1>3 DEF ReplicaIInv, Migrations
  <2>2. \A o \in Replicas : open'[o] => stage'[o] = "apply" /\ file'[o] <= Ships[o] /\ file'[o] \notin migrated'
    BY <1>1, <1>4 DEF ReplicaIInv, Migrations
  <2>3. \A o \in Replicas : stage'[o] = "apply" => 1 .. file'[o] - 1 \subseteq migrated'
    <3> SUFFICES ASSUME NEW o \in Replicas, stage'[o] = "apply" PROVE 1 .. file'[o] - 1 \subseteq migrated'
      OBVIOUS
    <3>1. CASE o = r
      BY <3>1, <1>2, <1>3, <1>4
    <3>2. CASE o # r
      BY <3>2, <1>1, <1>4 DEF ReplicaIInv, Migrations
    <3> QED BY <3>1, <3>2
  <2>4. \A o \in Replicas : snapshot'[o] \subseteq migrated' /\ (stage'[o] = "listening" => 1 .. Ships[o] \subseteq migrated')
    BY <1>1 DEF ReplicaIInv, Migrations
  <2>5. \A x, y \in Replicas : open'[x] /\ open'[y] /\ x # y => file'[x] # file'[y]
    BY <1>4 DEF ReplicaIInv, Migrations
  <2> QED BY <1>5, <2>1, <2>2, <2>3, <2>4, <2>5 DEF Migrations
<1>7. migrated' \subseteq Files
  BY <1>1, <1>3 DEF ReplicaIInv, ReplicaTypeOK
<1> QED BY <1>1, <1>4, <1>5, <1>6, <1>7, BootFrame DEF ReplicaIInv, ReplicaTypeOK

\* A boot comes to its end with every file of its image behind it.
LEMMA ListenKeeps ==
  ASSUME ReplicaIInv, NEW r \in Replicas, Listen(r)
  PROVE  ReplicaIInv'
<1>1. /\ UNCHANGED <<catalog, migrated, effects, open, bootFaults, ready, phase, timer, pool, term, endpoint, traffic>>
      /\ stage[r] = "apply" /\ stage'[r] = "listening" /\ file[r] > Ships[r] /\ Forgets(r)
      /\ \A o \in Replicas \ {r} : stage'[o] = stage[o]
      /\ stage' \in [Replicas -> Stages]
  BY DEF Listen, ReplicaIInv, ReplicaTypeOK, Stages
<1>2. file[r] \in Nat /\ Ships[r] \in Nat
  BY ShipsFiles DEF ReplicaIInv, ReplicaTypeOK
<1>3. ~(file[r] <= Ships[r]) /\ 1 .. Ships[r] \subseteq 1 .. file[r] - 1
  BY <1>1, <1>2
<1>4. 1 .. Ships[r] \subseteq migrated /\ ~open[r]
  BY <1>1, <1>3 DEF ReplicaIInv, Migrations
<1>5. Migrations'
  BY <1>1, <1>4, ForgottenHarmless DEF ReplicaIInv
<1>6. snapshot' \in [Replicas -> SUBSET Files] /\ file' \in [Replicas -> Nat \ {0}]
  BY <1>1, ForgottenTyped DEF ReplicaIInv
<1> QED BY <1>1, <1>5, <1>6, BootFrame DEF ReplicaIInv, ReplicaTypeOK, Alive

\* Only a container whose pod stays is restarted.
LEMMA RestartKeeps ==
  ASSUME ReplicaIInv, NEW r \in Replicas, Restart(r)
  PROVE  ReplicaIInv'
<1>1. /\ UNCHANGED <<catalog, migrated, effects, snapshot, file, open, bootFaults, ready, phase, timer, term, endpoint, traffic>>
      /\ stage[r] = "failed" /\ stage'[r] = "create" /\ term[r] = -1
      /\ \A o \in Replicas \ {r} : stage'[o] = stage[o]
      /\ stage' \in [Replicas -> Stages] /\ pool' \in [Replicas -> {"open", "ending", "ended"}]
  BY DEF Restart, boot, ReplicaIInv, ReplicaTypeOK, Stages
<1>2. ~open[r]
  BY <1>1 DEF ReplicaIInv, Migrations
<1>3. Migrations'
  BY <1>1, <1>2, BootMoves DEF ReplicaIInv, ReplicaTypeOK
<1> QED BY <1>1, <1>3, BootFrame DEF ReplicaIInv, ReplicaTypeOK, Alive

\* A boot keeps the invariant, whatever the other boots and the shutdown do.
LEMMA BootKeeps ==
  ASSUME ReplicaIInv, NEW r \in Replicas, BootStep(r) \/ BootFault(r)
  PROVE  ReplicaIInv'
<1>1. CASE PoolGone(r)
  BY <1>1, BootFailsKeeps DEF PoolGone, ReplicaIInv, ReplicaTypeOK
<1>2. CASE BootFault(r)
  BY <1>2, BootFailsKeeps DEF BootFault, ReplicaIInv, ReplicaTypeOK
<1> QED BY <1>1, <1>2, CreateTableKeeps, SelectKeeps, SkipKeeps, InsertKeeps, CommitKeeps, ListenKeeps,
           RestartKeeps DEF BootStep

(***************************************************************************)
(* Requests and probes                                                     *)
(***************************************************************************)
\* A replica that is routed to has not begun to close.
LEMMA RoutedIsOpen ==
  ASSUME ReplicaIInv, NEW r \in Replicas, endpoint[r]
  PROVE  stage[r] = "listening" /\ phase[r] \notin {"pool", "server", "done"}
<1>1. /\ stage[r] = "listening" /\ Alive(r) /\ term[r] < PreStop + DrainPeriod
      /\ phase[r] \in {"pool", "server"} =>
           /\ term[r] + timer[r] = PreStop + DrainPeriod + ShutdownTimeout
           /\ timer[r] <= ShutdownTimeout
      /\ phase[r] # "done"
  BY DEF ReplicaIInv, Clock, Alive
<1>2. term[r] \in Int /\ timer[r] \in Nat /\ PreStop \in Nat /\ DrainPeriod \in Nat /\ ShutdownTimeout \in Nat
  BY Periods DEF ReplicaIInv, ReplicaTypeOK
<1>3. phase[r] \notin {"pool", "server"}
  BY <1>1, <1>2
<1> QED BY <1>1, <1>3

\* The probe only brings a replica that listens and stays.
LEMMA ProbeKeeps ==
  ASSUME ReplicaIInv, NEW r \in Replicas, Probe(r)
  PROVE  ReplicaIInv'
<1>1. /\ UNCHANGED <<boot, stage, ready, phase, timer, pool, term, traffic>>
      /\ endpoint' \in [Replicas -> BOOLEAN]
      /\ \A o \in Replicas \ {r} : endpoint'[o] = endpoint[o]
      /\ endpoint'[r] => term[r] = -1 /\ stage[r] = "listening"
  BY DEF Probe, Readyz, ReplicaIInv, ReplicaTypeOK
<1>2. ReplicaTypeOK' /\ Migrations' /\ Waiting'
  BY <1>1 DEF ReplicaIInv, ReplicaTypeOK, Migrations, Waiting, boot, traffic
<1>3. -1 < PreStop + DrainPeriod
  BY Periods
<1>4. Clock'
  BY <1>1, <1>3 DEF ReplicaIInv, Clock, Alive
<1> QED BY <1>2, <1>4 DEF ReplicaIInv

\* What is left to show of a step of one request.
LEMMA RequestFrame ==
  ASSUME ReplicaIInv, NEW q \in Arrivals,
         UNCHANGED <<boot, stage, ready, phase, timer, pool, term, endpoint>>,
         age' \in [Arrivals -> 0 .. MaxAge],
         \A other \in Arrivals \ {q} : age'[other] = age[other],
         at' \in [Arrivals -> Replicas],
         request' \in [Arrivals -> {"new", "in", "query", "done", "failed", "refused", "cut"}],
         \A other \in Arrivals \ {q} : request'[other] = request[other] /\ at'[other] = at[other],
         request'[q] \notin {"refused", "cut"},
         request'[q] \in {"in", "query"} =>
           (at'[q] = at[q] /\ age'[q] = age[q] /\ request[q] \in {"in", "query"}) \/ phase[at'[q]] \notin {"pool", "server"}
  PROVE  ReplicaIInv'
<1>1. ReplicaTypeOK' /\ Migrations' /\ Clock'
  BY DEF ReplicaIInv, ReplicaTypeOK, Migrations, Clock, Alive, boot
<1>2. Waiting'
  BY DEF ReplicaIInv, Waiting
<1> QED BY <1>1, <1>2 DEF ReplicaIInv

\* A request is let in by a server that has not been closed.
LEMMA RequestKeeps ==
  ASSUME ReplicaIInv, NEW q \in Arrivals, RequestStep(q)
  PROVE  ReplicaIInv'
<1>1. ASSUME NEW r \in Replicas, Route(q, r) PROVE ReplicaIInv'
  <2>1. stage[r] = "listening" /\ phase[r] \notin {"pool", "server"}
    BY <1>1, RoutedIsOpen DEF Route
  <2> QED BY <1>1, <2>1, RequestFrame DEF Route, ReplicaIInv, ReplicaTypeOK
<1>2. 0 \in 0 .. MaxAge
  BY Periods DEF MaxAge
<1>3. ASSUME NEW how \in {"in", "query", "done", "failed"}, NEW waited \in {age[q], 0},
             Answered(q, how, waited), request[q] \in {"in", "query"}, waited = 0 => how \in {"done", "failed"} \/ age[q] = 0
      PROVE  ReplicaIInv'
  BY <1>2, <1>3, RequestFrame DEF Answered, ReplicaIInv, ReplicaTypeOK
<1>4. Query(q) \/ QueryDone(q) \/ Respond(q) => ReplicaIInv'
  BY <1>3 DEF Query, QueryDone, Respond
<1> QED BY <1>1, <1>4 DEF RequestStep

(***************************************************************************)
(* The shutdown                                                            *)
(***************************************************************************)
\* What is left to show of a step of the sequence that does not end the process.
LEMMA PhaseFrame ==
  ASSUME ReplicaIInv, NEW r \in Replicas,
         UNCHANGED <<boot, stage, endpoint, traffic>>,
         ready' \in [Replicas -> BOOLEAN], phase' \in [Replicas -> Phases], timer' \in [Replicas -> Nat],
         pool' \in [Replicas -> {"open", "ending", "ended"}], term' \in [Replicas -> -1 .. Grace],
         \A o \in Replicas \ {r} : phase'[o] = phase[o] /\ timer'[o] = timer[o] /\ term'[o] = term[o],
         /\ term'[r] = -1 => phase'[r] = "none"
         /\ phase'[r] = "none" /\ Alive(r) => term'[r] <= PreStop
         /\ phase'[r] = "drain" /\ Alive(r) => term'[r] + timer'[r] = PreStop + DrainPeriod
         /\ phase'[r] \in {"pool", "server"} /\ Alive(r) =>
              /\ term'[r] + timer'[r] = PreStop + DrainPeriod + ShutdownTimeout
              /\ timer'[r] <= ShutdownTimeout
         /\ phase'[r] = "done" => stage[r] = "exited"
         /\ endpoint[r] => term'[r] < PreStop + DrainPeriod,
         phase'[r] \in {"pool", "server"} =>
           timer'[r] >= ShutdownTimeout \/ (timer'[r] = timer[r] /\ phase[r] \in {"pool", "server"})
  PROVE  ReplicaIInv'
<1>1. ReplicaTypeOK' /\ Migrations'
  BY DEF ReplicaIInv, ReplicaTypeOK, Migrations, boot, traffic
<1>2. Clock'
  BY DEF ReplicaIInv, Clock, Alive
<1>3. Waiting'
  <2> SUFFICES ASSUME NEW q \in Arrivals
               PROVE  /\ request[q] # "refused" /\ (request[q] = "cut" => age[q] = MaxAge)
                      /\ request[q] \in {"in", "query"} /\ phase'[at[q]] \in {"pool", "server"} =>
                           age[q] + timer'[at[q]] >= ShutdownTimeout
    BY DEF Waiting, traffic, MaxAge
  <2>1. Waiting /\ at[q] \in Replicas /\ age[q] \in Nat /\ timer'[at[q]] \in Nat /\ ShutdownTimeout \in Nat
    BY Periods DEF ReplicaIInv, ReplicaTypeOK, MaxAge
  <2>2. CASE phase'[at[q]] \in {"pool", "server"} /\ at[q] = r /\ timer'[r] >= ShutdownTimeout
    BY <2>1, <2>2 DEF Waiting
  <2>3. CASE ~(phase'[at[q]] \in {"pool", "server"} /\ at[q] = r /\ timer'[r] >= ShutdownTimeout)
    BY <2>1, <2>3 DEF Waiting
  <2> QED BY <2>2, <2>3
<1> QED BY <1>1, <1>2, <1>3 DEF ReplicaIInv

\* The numbers of one replica.
LEMMA ReplicaNumbers ==
  ASSUME ReplicaTypeOK, NEW r \in Replicas
  PROVE  /\ term[r] \in Int /\ timer[r] \in Nat
         /\ PreStop \in Nat \ {0} /\ DrainPeriod \in Nat \ {0} /\ ShutdownTimeout \in Nat \ {0} /\ Grace \in Nat
BY Periods DEF ReplicaTypeOK

\* A pod is taken down while its process has heard of nothing.
LEMMA TerminateKeeps ==
  ASSUME ReplicaIInv, NEW r \in Replicas, Terminate(r)
  PROVE  ReplicaIInv'
<1>1. /\ UNCHANGED <<boot, stage, endpoint, traffic, ready, phase, timer, pool>>
      /\ term'[r] = 0 /\ (\A o \in Replicas \ {r} : term'[o] = term[o]) /\ term' \in [Replicas -> -1 .. Grace]
      /\ term[r] = -1
  <2>1. 0 \in -1 .. Grace
    BY Periods
  <2> QED BY <2>1 DEF Terminate, ReplicaIInv, ReplicaTypeOK
<1>2. phase[r] = "none"
  BY <1>1 DEF ReplicaIInv, Clock
<1>3. 0 <= PreStop /\ 0 < PreStop + DrainPeriod
  BY Periods
<1> QED BY <1>1, <1>2, <1>3, PhaseFrame DEF ReplicaIInv, ReplicaTypeOK

\* The drain begins preStop after the pod is taken down.
LEMMA SigtermKeeps ==
  ASSUME ReplicaIInv, NEW r \in Replicas, Sigterm(r)
  PROVE  ReplicaIInv'
<1>1. /\ UNCHANGED <<boot, stage, pool, term, endpoint, traffic>>
      /\ term[r] = PreStop /\ phase[r] = "none"
      /\ phase'[r] = "drain" /\ timer'[r] = DrainPeriod
      /\ \A o \in Replicas \ {r} : phase'[o] = phase[o] /\ timer'[o] = timer[o]
      /\ ready' \in [Replicas -> BOOLEAN] /\ phase' \in [Replicas -> Phases] /\ timer' \in [Replicas -> Nat]
  BY Periods DEF Sigterm, SigtermDue, ReplicaIInv, ReplicaTypeOK, Phases
<1>2. term[r] # -1 /\ (endpoint[r] => term[r] < PreStop + DrainPeriod)
  BY <1>1, Periods DEF ReplicaIInv, Clock
<1> QED BY <1>1, <1>2, PhaseFrame DEF ReplicaIInv, ReplicaTypeOK

\* The close begins when the drain is over.
LEMMA StartCloseKeeps ==
  ASSUME ReplicaIInv, NEW r \in Replicas, StartClose(r)
  PROVE  ReplicaIInv'
<1>1. /\ UNCHANGED <<boot, stage, ready, term, endpoint, traffic>>
      /\ timer[r] = 0 /\ phase[r] = "drain" /\ Alive(r)
      /\ phase'[r] = "pool" /\ timer'[r] = ShutdownTimeout
      /\ \A o \in Replicas \ {r} : phase'[o] = phase[o] /\ timer'[o] = timer[o]
      /\ phase' \in [Replicas -> Phases] /\ timer' \in [Replicas -> Nat]
      /\ pool' \in [Replicas -> {"open", "ending", "ended"}]
  BY Periods DEF StartClose, CloseDue, ReplicaIInv, ReplicaTypeOK, Phases
<1>2. term[r] + timer[r] = PreStop + DrainPeriod /\ term[r] # -1
      /\ (endpoint[r] => term[r] < PreStop + DrainPeriod)
  BY <1>1 DEF ReplicaIInv, Clock
<1>3. term[r] = PreStop + DrainPeriod
  BY <1>1, <1>2, ReplicaNumbers DEF ReplicaIInv
<1>4. term[r] + ShutdownTimeout = PreStop + DrainPeriod + ShutdownTimeout /\ ShutdownTimeout <= ShutdownTimeout
      /\ ShutdownTimeout >= ShutdownTimeout
  BY <1>3, Periods
<1> QED BY <1>1, <1>2, <1>4, PhaseFrame DEF ReplicaIInv, ReplicaTypeOK

\* The server is closed in the same time, once the pool has ended.
LEMMA PoolEndedKeeps ==
  ASSUME ReplicaIInv, NEW r \in Replicas, PoolEnded(r)
  PROVE  ReplicaIInv'
<1>1. /\ UNCHANGED <<boot, stage, ready, timer, term, endpoint, traffic>>
      /\ phase[r] = "pool" /\ Alive(r) /\ phase'[r] = "server"
      /\ \A o \in Replicas \ {r} : phase'[o] = phase[o]
      /\ phase' \in [Replicas -> Phases] /\ pool' \in [Replicas -> {"open", "ending", "ended"}]
  BY DEF PoolEnded, ReplicaIInv, ReplicaTypeOK, Phases
<1>2. /\ term[r] + timer[r] = PreStop + DrainPeriod + ShutdownTimeout /\ timer[r] <= ShutdownTimeout
      /\ term[r] # -1 /\ (endpoint[r] => term[r] < PreStop + DrainPeriod)
  BY <1>1 DEF ReplicaIInv, Clock
<1> QED BY <1>1, <1>2, PhaseFrame DEF ReplicaIInv, ReplicaTypeOK

\* A process that ends cuts off what it has not answered, and nothing else.
LEMMA ExitsKeeps ==
  ASSUME ReplicaIInv, NEW r \in Replicas, Exits(r), Alive(r), phase[r] \in {"pool", "server"},
         \A q \in At(r) : age[q] = MaxAge
  PROVE  ReplicaIInv'
<1>1. /\ UNCHANGED <<catalog, migrated, effects, bootFaults, ready, term, endpoint, at, age>> /\ Forgets(r)
      /\ timer' \in [Replicas -> Nat] /\ \A o \in Replicas \ {r} : timer'[o] = timer[o]
      /\ stage'[r] = "exited" /\ phase'[r] = "done" /\ ~open'[r]
      /\ \A o \in Replicas \ {r} : stage'[o] = stage[o] /\ phase'[o] = phase[o] /\ open'[o] = open[o]
      /\ stage' \in [Replicas -> Stages] /\ phase' \in [Replicas -> Phases] /\ open' \in [Replicas -> BOOLEAN]
      /\ pool' \in [Replicas -> {"open", "ending", "ended"}]
  BY DEF Exits, ReplicaIInv, ReplicaTypeOK, Stages, Phases
<1>2. /\ request' \in [Arrivals -> {"new", "in", "query", "done", "failed", "refused", "cut"}]
      /\ \A q \in Arrivals : request'[q] = IF q \in At(r) THEN "cut" ELSE request[q]
  BY DEF Exits, ReplicaIInv, ReplicaTypeOK
<1>3. ReplicaTypeOK'
  <2>1. snapshot' \in [Replicas -> SUBSET Files] /\ file' \in [Replicas -> Nat \ {0}]
    BY <1>1, ForgottenTyped DEF ReplicaIInv
  <2> QED BY <1>1, <1>2, <2>1 DEF ReplicaIInv, ReplicaTypeOK
<1>4. Migrations'
  BY <1>1, ForgottenHarmless DEF ReplicaIInv
<1>5. Clock'
  <2>1. ~endpoint[r] /\ term[r] # -1
    BY RoutedIsOpen DEF ReplicaIInv, Clock, ReplicaTypeOK
  <2>2. ~endpoint[r]
    <3>1. endpoint[r] => phase[r] \notin {"pool", "server"}
      BY RoutedIsOpen
    <3> QED BY <3>1
  <2> QED BY <1>1, <2>1, <2>2 DEF ReplicaIInv, Clock, Alive
<1>6. Waiting'
  <2> SUFFICES ASSUME NEW q \in Arrivals
               PROVE  /\ request'[q] # "refused" /\ (request'[q] = "cut" => age[q] = MaxAge)
                      /\ request'[q] \in {"in", "query"} /\ phase'[at[q]] \in {"pool", "server"} =>
                           age[q] + timer'[at[q]] >= ShutdownTimeout
    BY <1>1 DEF Waiting, MaxAge
  <2>1. Waiting /\ at[q] \in Replicas
    BY DEF ReplicaIInv, ReplicaTypeOK
  <2>2. CASE q \in At(r)
    BY <1>2, <2>2
  <2>3. CASE q \notin At(r)
    BY <1>1, <1>2, <2>1, <2>3 DEF Waiting
  <2> QED BY <2>2, <2>3
<1> QED BY <1>3, <1>4, <1>5, <1>6 DEF ReplicaIInv

\* A close that times out has waited for all the time it is allowed.
LEMMA CloseTimesOutKeeps ==
  ASSUME ReplicaIInv, NEW r \in Replicas, CloseTimesOut(r)
  PROVE  ReplicaIInv'
<1>1. Exits(r) /\ Alive(r) /\ phase[r] \in {"pool", "server"} /\ timer[r] = 0
  BY DEF CloseTimesOut, TimeoutDue
<1>2. ASSUME NEW q \in At(r) PROVE age[q] = MaxAge
  <2>1. q \in Arrivals /\ at[q] = r /\ request[q] \in {"in", "query"}
    BY <1>2 DEF At
  <2>2. age[q] + timer[r] >= ShutdownTimeout
    BY <1>1, <2>1 DEF ReplicaIInv, Waiting
  <2>3. age[q] \in 0 .. MaxAge /\ ShutdownTimeout \in Nat
    BY <2>1, Periods DEF ReplicaIInv, ReplicaTypeOK
  <2> QED BY <1>1, <2>2, <2>3 DEF MaxAge
<1> QED BY <1>1, <1>2, ExitsKeeps

\* A close that ends leaves nobody behind.
LEMMA CloseEndsKeeps ==
  ASSUME ReplicaIInv, NEW r \in Replicas, CloseEnds(r)
  PROVE  ReplicaIInv'
BY ExitsKeeps DEF CloseEnds

(***************************************************************************)
(* The clock                                                               *)
(***************************************************************************)
\* What a tick does to one replica.
LEMMA TickOfReplica ==
  ASSUME ReplicaIInv, Tick, NEW r \in Replicas
  PROVE  term'[r] \in -1 .. Grace /\ timer'[r] \in Nat
<1>1. term'[r] = term[r] \/ (term[r] \in 0 .. Grace - 1 /\ term'[r] = term[r] + 1)
  BY DEF Tick
<1>2. timer'[r] = IF timer[r] > 0 THEN timer[r] - 1 ELSE 0
  BY DEF Tick
<1>3. term[r] \in -1 .. Grace /\ timer[r] \in Nat /\ Grace \in Nat
  BY Periods DEF ReplicaIInv, ReplicaTypeOK
<1> QED BY <1>1, <1>2, <1>3

\* No tick takes a replica past what is due.
LEMMA TickKeepsClock ==
  ASSUME ReplicaIInv, Tick
  PROVE  Clock'
<1>1. UNCHANGED <<stage, phase, endpoint>>
  BY DEF Tick
<1> SUFFICES ASSUME NEW r \in Replicas
             PROVE  /\ term'[r] = -1 => phase[r] = "none"
                    /\ phase[r] = "none" /\ Alive(r) => term'[r] <= PreStop
                    /\ phase[r] = "drain" /\ Alive(r) => term'[r] + timer'[r] = PreStop + DrainPeriod
                    /\ phase[r] \in {"pool", "server"} /\ Alive(r) =>
                         /\ term'[r] + timer'[r] = PreStop + DrainPeriod + ShutdownTimeout
                         /\ timer'[r] <= ShutdownTimeout
                    /\ phase[r] = "done" => stage[r] = "exited"
                    /\ endpoint[r] => stage[r] = "listening" /\ term'[r] < PreStop + DrainPeriod
  BY <1>1 DEF Clock, Alive
<1>2. /\ term[r] = -1 => phase[r] = "none"
      /\ phase[r] = "none" /\ Alive(r) => term[r] <= PreStop
      /\ phase[r] = "drain" /\ Alive(r) => term[r] + timer[r] = PreStop + DrainPeriod
      /\ phase[r] \in {"pool", "server"} /\ Alive(r) =>
           /\ term[r] + timer[r] = PreStop + DrainPeriod + ShutdownTimeout
           /\ timer[r] <= ShutdownTimeout
      /\ phase[r] = "done" => stage[r] = "exited"
      /\ endpoint[r] => stage[r] = "listening" /\ term[r] < PreStop + DrainPeriod
  BY DEF ReplicaIInv, Clock
<1>3. ~SigtermDue(r) /\ ~CloseDue(r) /\ ~TimeoutDue(r) /\ ~RoutingLags(r)
  BY DEF Tick
<1>4. /\ Alive(r) => term'[r] = IF term[r] \in 0 .. Grace - 1 THEN term[r] + 1 ELSE term[r]
      /\ term'[r] = term[r] \/ (term[r] \in 0 .. Grace - 1 /\ term'[r] = term[r] + 1)
      /\ timer'[r] = IF timer[r] > 0 THEN timer[r] - 1 ELSE 0
  BY DEF Tick
<1>5. term[r] \in -1 .. Grace /\ timer[r] \in Nat
  BY DEF ReplicaIInv, ReplicaTypeOK
<1>6. phase[r] = "none" /\ Alive(r) => term'[r] <= PreStop
  <2> SUFFICES ASSUME phase[r] = "none", Alive(r) PROVE term'[r] <= PreStop
    OBVIOUS
  <2>1. term[r] # PreStop /\ term[r] <= PreStop
    BY <1>2, <1>3 DEF SigtermDue
  <2> QED BY <2>1, <1>4, <1>5, Periods
<1>7. phase[r] = "drain" /\ Alive(r) => term'[r] + timer'[r] = PreStop + DrainPeriod
  <2> SUFFICES ASSUME phase[r] = "drain", Alive(r) PROVE term'[r] + timer'[r] = PreStop + DrainPeriod
    OBVIOUS
  <2>1. timer[r] # 0 /\ term[r] # -1 /\ term[r] + timer[r] = PreStop + DrainPeriod
    BY <1>2, <1>3 DEF CloseDue
  <2> QED BY <2>1, <1>4, <1>5, Periods
<1>8. phase[r] \in {"pool", "server"} /\ Alive(r) =>
        /\ term'[r] + timer'[r] = PreStop + DrainPeriod + ShutdownTimeout
        /\ timer'[r] <= ShutdownTimeout
  <2> SUFFICES ASSUME phase[r] \in {"pool", "server"}, Alive(r)
               PROVE  /\ term'[r] + timer'[r] = PreStop + DrainPeriod + ShutdownTimeout
                      /\ timer'[r] <= ShutdownTimeout
    OBVIOUS
  <2>1. /\ timer[r] # 0 /\ term[r] # -1
        /\ term[r] + timer[r] = PreStop + DrainPeriod + ShutdownTimeout
        /\ timer[r] <= ShutdownTimeout
    BY <1>2, <1>3 DEF TimeoutDue
  <2> QED BY <2>1, <1>4, <1>5, Periods
<1>9. endpoint[r] => stage[r] = "listening" /\ term'[r] < PreStop + DrainPeriod
  <2> SUFFICES ASSUME endpoint[r] PROVE term'[r] < PreStop + DrainPeriod
    BY <1>2
  <2>1. term[r] # PreStop + DrainPeriod - 1 /\ term[r] < PreStop + DrainPeriod /\ Alive(r)
    BY <1>2, <1>3 DEF RoutingLags, Alive
  <2> QED BY <2>1, <1>4, <1>5, Periods
<1>10. term'[r] = -1 => phase[r] = "none"
  <2>1. term'[r] = -1 => term[r] = -1
    BY <1>4, <1>5
  <2> QED BY <2>1, <1>2
<1> QED BY <1>2, <1>6, <1>7, <1>8, <1>9, <1>10

\* What a request waits is what the timer of its replica loses.
LEMMA TickKeepsWaiting ==
  ASSUME ReplicaIInv, Tick
  PROVE  Waiting'
<1>1. UNCHANGED <<phase, request, at>>
  BY DEF Tick
<1> SUFFICES ASSUME NEW q \in Arrivals
             PROVE  /\ request[q] # "refused" /\ (request[q] = "cut" => age'[q] = MaxAge)
                    /\ request[q] \in {"in", "query"} /\ phase[at[q]] \in {"pool", "server"} =>
                         age'[q] + timer'[at[q]] >= ShutdownTimeout
  BY <1>1 DEF Waiting, MaxAge
<1>2. Waiting /\ at[q] \in Replicas
  BY DEF ReplicaIInv, ReplicaTypeOK
<1>3. age'[q] = IF request[q] \in {"in", "query"} /\ age[q] < MaxAge THEN age[q] + 1 ELSE age[q]
  BY DEF Tick
<1>4. timer'[at[q]] = IF timer[at[q]] > 0 THEN timer[at[q]] - 1 ELSE 0
  BY <1>2 DEF Tick
<1>5. age[q] \in 0 .. MaxAge /\ timer[at[q]] \in Nat /\ ShutdownTimeout \in Nat
  BY <1>2, Periods DEF ReplicaIInv, ReplicaTypeOK
<1>6. request[q] # "refused" /\ (request[q] = "cut" => age'[q] = MaxAge)
  BY <1>2, <1>3 DEF Waiting
<1>7. ASSUME request[q] \in {"in", "query"}, phase[at[q]] \in {"pool", "server"}
      PROVE  age'[q] + timer'[at[q]] >= ShutdownTimeout
  <2>1. age[q] + timer[at[q]] >= ShutdownTimeout
    BY <1>2, <1>7 DEF Waiting
  <2>2. age'[q] = IF age[q] < MaxAge THEN age[q] + 1 ELSE age[q]
    BY <1>3, <1>7
  <2> QED BY <2>1, <2>2, <1>4, <1>5 DEF MaxAge
<1> QED BY <1>6, <1>7

\* A tick keeps the invariant.
LEMMA TickKeeps ==
  ASSUME ReplicaIInv, Tick
  PROVE  ReplicaIInv'
<1>1. UNCHANGED <<boot, stage, ready, phase, pool, endpoint, request, at>>
  BY DEF Tick
<1>2. term' \in [Replicas -> -1 .. Grace] /\ timer' \in [Replicas -> Nat]
  <2>1. term' = [r \in Replicas |-> term'[r]] /\ timer' = [r \in Replicas |-> timer'[r]]
    BY DEF Tick
  <2>2. \A r \in Replicas : term'[r] \in -1 .. Grace /\ timer'[r] \in Nat
    BY TickOfReplica
  <2> QED BY <2>1, <2>2
<1>3. age' \in [Arrivals -> 0 .. MaxAge]
  <2>1. age' = [q \in Arrivals |-> IF request[q] \in {"in", "query"} /\ age[q] < MaxAge THEN age[q] + 1 ELSE age[q]]
    BY DEF Tick
  <2>2. \A q \in Arrivals : age[q] \in 0 .. MaxAge /\ MaxAge \in Nat
    BY Periods DEF ReplicaIInv, ReplicaTypeOK, MaxAge
  <2> QED BY <2>1, <2>2
<1>4. ReplicaTypeOK'
  BY <1>1, <1>2, <1>3 DEF ReplicaIInv, ReplicaTypeOK, boot
<1>5. Migrations'
  BY <1>1 DEF ReplicaIInv, Migrations, boot
<1> QED BY <1>4, <1>5, TickKeepsClock, TickKeepsWaiting DEF ReplicaIInv

(***************************************************************************)
(* The theorems                                                            *)
(***************************************************************************)
\* Every step keeps the invariant.
LEMMA ReplicaStepKeeps == ReplicaIInv /\ [ReplicaNext]_replicaVars => ReplicaIInv'
<1> SUFFICES ASSUME ReplicaIInv, [ReplicaNext]_replicaVars PROVE ReplicaIInv'
  OBVIOUS
<1>1. ASSUME NEW r \in Replicas, BootStep(r) \/ BootFault(r) PROVE ReplicaIInv'
  BY <1>1, BootKeeps
<1>2. ASSUME NEW r \in Replicas, ShutdownStep(r) PROVE ReplicaIInv'
  BY <1>2, TerminateKeeps, SigtermKeeps, StartCloseKeeps, PoolEndedKeeps, CloseEndsKeeps, CloseTimesOutKeeps
     DEF ShutdownStep
<1>3. ASSUME NEW r \in Replicas, Probe(r) PROVE ReplicaIInv'
  BY <1>3, ProbeKeeps
<1>4. ASSUME NEW q \in Arrivals, RequestStep(q) PROVE ReplicaIInv'
  BY <1>4, RequestKeeps
<1>5. CASE Tick
  BY <1>5, TickKeeps
<1>6. CASE UNCHANGED replicaVars
  BY <1>6 DEF replicaVars, boot, traffic, ReplicaIInv, ReplicaTypeOK, Migrations, Clock, Alive, Waiting
<1> QED BY <1>1, <1>2, <1>3, <1>4, <1>5, <1>6 DEF ReplicaNext

\* The inductive invariant of the replicas' life.
THEOREM ReplicaInvariance == ReplicaSpec => []ReplicaIInv
<1> QED BY ReplicaStart, ReplicaStepKeeps, PTL DEF ReplicaSpec

\* Every variable keeps its type.
THEOREM ReplicaTyped == ReplicaSpec => []ReplicaTypeOK
<1>1. ReplicaIInv => ReplicaTypeOK
  BY DEF ReplicaIInv
<1> QED BY <1>1, ReplicaInvariance, PTL

\* However many replicas boot at once, with images of any age, each migration is
\* applied once and in its order, and who listens has all of its own
\* (migration-runner.ts:6-16).
THEOREM MigratedOnceAlways == ReplicaSpec => []MigratedOnce
<1>1. ReplicaIInv => MigratedOnce
  BY DEF ReplicaIInv, Migrations, MigratedOnce
<1> QED BY <1>1, ReplicaInvariance, PTL

\* While routing lags by less than preStop and drain, no request finds a server
\* that has been closed (shutdown.ts:36-38).
THEOREM NothingRefusedAlways == ReplicaSpec => []NothingRefused
<1>1. ReplicaIInv => NothingRefused
  BY DEF ReplicaIInv, Waiting, NothingRefused
<1> QED BY <1>1, ReplicaInvariance, PTL

\* For periods that fit in the grace period: who is cut off has been waited for as
\* long as the close may take, and no process is left for Kubernetes to kill.
THEOREM GraceGivenAlways == ReplicaSpec => []GraceGiven
<1>1. ASSUME ReplicaIInv PROVE GraceGiven
  <2>1. \A q \in Arrivals : request[q] = "cut" => age[q] = MaxAge
    BY <1>1 DEF ReplicaIInv, Waiting
  <2>2. ASSUME NEW r \in Replicas, Alive(r) PROVE term[r] < Grace
    <3>1. /\ phase[r] = "none" => term[r] <= PreStop
          /\ phase[r] = "drain" => term[r] + timer[r] = PreStop + DrainPeriod
          /\ phase[r] \in {"pool", "server"} => term[r] + timer[r] = PreStop + DrainPeriod + ShutdownTimeout
          /\ phase[r] # "done"
      BY <1>1, <2>2 DEF ReplicaIInv, Clock, Alive
    <3>2. phase[r] \in {"none", "drain", "pool", "server"}
      BY <1>1, <3>1 DEF ReplicaIInv, ReplicaTypeOK, Phases
    <3>3. term[r] \in Int /\ timer[r] \in Nat
      BY <1>1, ReplicaNumbers DEF ReplicaIInv
    <3> QED BY <3>1, <3>2, <3>3, Periods
  <2> QED BY <2>1, <2>2 DEF GraceGiven
<1> QED BY <1>1, ReplicaInvariance, PTL
=============================================================================
