------------------------- MODULE HostInstall_proofs -------------------------
(***************************************************************************)
(* For any epochs, contents, queues and failures: the host has what        *)
(* attached() names, a whole generation is behind every pointer, and the   *)
(* manifest knows every pointer.                                           *)
(*                                                                         *)
(* The properties speak of the moments between syncs, or of one pointer;   *)
(* IInv follows a sync through its steps and its rollback.  Its parts are  *)
(* the local state of the sync (Staged, Reconciled), what the manifest     *)
(* names (ManifestRight), which generations there can be                   *)
(* (GenerationsRight), whither pointers lead (PointersRight), and where    *)
(* each entry of the attached epoch is (EntriesRight).  There is one lemma *)
(* per action, with one step per outcome and under it one per part.        *)
(***************************************************************************)
EXTENDS HostInstall, SequenceTheorems, TLAPS

\* The epoch whose entries were published last: by a sync, or by the session before.
Attached == IF installed \in Epochs THEN installed ELSE earlier

\* The application server may have written under any name since the sync began.
Disturbed == unrepaired /\ late # None

\* Stages of a sync of an epoch that is not installed.
Running == pc \notin {"rest", "install", "prune"}
Working == Running /\ pc # "start"
Reconciling == pc \in {"clear", "publish", "write", "refresh", "discard", "restore", "unwrite"}
Failed == pc \in {"undo", "repoint", "drop"}

JobTyped ==
    job \in [direct : BOOLEAN, previous : Epochs \cup {None}, republish : BOOLEAN, backs : BOOLEAN,
             todo : SUBSET (Entries \cup Epochs), done : SUBSET Entries]

Typed == TypeOK /\ JobTyped

\* Epochs are asked for, and installed, in the order they are built in.
Ordered ==
    /\ \A i \in 1 .. Len(queue) : queue[i] <= newest
    /\ \A i, j \in 1 .. Len(queue) : i <= j => queue[i] <= queue[j]
    /\ installed \in Epochs =>
          installed <= newest /\ \A i \in 1 .. Len(queue) : installed <= queue[i]
    /\ installed \notin Epochs /\ earlier # None => \A i \in 1 .. Len(queue) : earlier < queue[i]

\* What the stage of a sync says of its local state.
Staged ==
    /\ pc \in {"rest", "install"} => job = Idle
    /\ pc # "rest" => queue # <<>>
    /\ closing = "closed" => queue = <<>>
    /\ pc = "install" => installed = None
    /\ Running => installed # None /\ installed # Epoch
    /\ pc = "prune" => /\ installed = Epoch /\ job.todo \subseteq Epochs \ {Epoch}
                       /\ \A e \in job.todo : generation[e] # "none"
    /\ pc \in {"start", "generate", "reconcile"} => job.done = {} /\ ~job.backs /\ ~job.republish
    /\ pc = "generate" => job.direct
    /\ pc \in {"clear", "publish", "write", "refresh", "discard", "restore"} => job.todo \subseteq Entries
    /\ pc = "repoint" => job.todo \subseteq Contents[installed] /\ installed \in Epochs

\* What is still to be removed, published or put back, and what the backup is for.
Reconciled ==
    /\ Reconciling =>
          /\ job.backs <=> ~job.republish /\ (IF job.direct THEN Before ELSE Stale) # {}
          /\ job.republish => job.previous \in Epochs
          /\ job.done # {} => job.direct
    /\ pc = "clear" => /\ job.done = {}
                       /\ job.todo \subseteq IF job.republish \/ ~job.direct THEN Stale ELSE Before
    /\ pc = "publish" => job.direct /\ job.todo \subseteq Contents[Epoch]
                           /\ job.done = Contents[Epoch] \ job.todo
    /\ pc = "write" => job.done = IF job.direct THEN Contents[Epoch] ELSE {}
    /\ pc = "refresh" => ~job.direct /\ job.done = {}
    /\ pc \in {"publish", "write"} /\ ~Disturbed => \A x \in job.done : dest[x] = Published(Epoch, x)
    /\ pc = "discard" => job.todo \subseteq RollbackTodo
    /\ pc = "restore" /\ job.republish => job.todo \subseteq Contents[job.previous]

\* Until the new manifest is written it names the attached epoch, and again after
\* the rollback.
ManifestRight ==
    /\ pc = "prune" => manifest = Epoch
    /\ pc = "refresh" => manifest = Epoch
    /\ ~(twice /\ unrepaired) /\ closing # "closed" =>
        /\ pc \in {"rest", "install", "start", "generate", "reconcile", "clear", "publish", "write",
                   "undo", "repoint", "drop"} => manifest = Attached
        /\ Working /\ ~Failed => job.previous = Attached
        /\ pc \in {"discard", "restore", "unwrite"} => manifest \in {Attached, Epoch}

\* The generations are of epochs up to the attached one, or of the running sync;
\* a torn one is older than the attached one, or is about to be dropped.
GenerationsRight ==
    /\ pc \in {"reconcile", "clear", "publish", "write"} /\ job.direct => generation[Epoch] = "whole"
    /\ pc = "repoint" => generation[installed] # "none"
    /\ ~twice =>
        /\ \A e \in Epochs : generation[e] # "none" =>
              (Attached \in Epochs /\ e <= Attached) \/ (Working /\ e = Epoch)
        /\ \A e \in Epochs : generation[e] = "part" =>
              (Attached \in Epochs /\ e < Attached) \/ (Failed /\ e = Epoch)
    /\ Reconciling /\ job.previous # None => (job.republish <=> generation[job.previous] # "none")

\* A pointer leads to the attached epoch or to the one that is being published;
\* the latter are in done, and the rollback removes them or points them back.
PointersRight ==
    /\ ~twice =>
      /\ \A x \in Entries, e \in Epochs : backup[x] = Pointer(e) => ~(Reconciling)
      /\ \A x \in Entries, e \in Epochs : dest[x] = Pointer(e) /\ closing # "closed" =>
        /\ generation[e] = "whole" /\ x \in Contents[e]
        /\ e = Attached \/ (pc \in {"publish", "write", "discard", "restore"} /\ e = Epoch /\ x \in job.done)
        /\ e = Attached => /\ pc = "clear" => x \in Contents[Epoch] \/ x \in job.todo
                           /\ pc \in {"publish", "write", "refresh"} => x \in Contents[Epoch] \ job.done
        /\ pc = "discard" /\ e = Epoch => x \in job.todo \/ (x \in Before /\ job.republish)
        /\ pc = "restore" /\ e = Epoch => x \in job.todo /\ job.republish
      /\ \A x \in Entries, e \in Epochs : dest[x] = Pointer(e) => generation[e] = "whole"

Whole(v) == v \in {Pointer(installed), Copy(installed)}
Kept(x) == Whole(backup[x]) \/ (backup[x] = None /\ Whole(dest[x]))

\* Each entry of the attached epoch is under its name, or in the backup, or is
\* still to be published again by the rollback.
EntriesRight ==
    (~unrepaired /\ installed \in Epochs /\ generation[installed] # "part" /\ closing # "closed") =>
      \A x \in Contents[installed] :
        /\ pc \notin {"clear", "publish", "write", "refresh", "discard", "restore"} => Whole(dest[x])
        /\ pc = "clear" =>
              IF job.republish THEN x \in Contents[Epoch] \cup job.todo => Whole(dest[x])
              ELSE IF x \in job.todo \/ (~job.direct /\ x \notin Stale)
                   THEN backup[x] = None /\ Whole(dest[x]) ELSE Whole(backup[x])
        /\ pc \in {"publish", "write"} /\ job.direct /\ ~job.republish => Whole(backup[x])
        /\ pc = "write" /\ ~job.direct /\ ~job.republish => Kept(x)
        /\ pc = "discard" /\ ~job.republish => Kept(x) /\ (x \in job.todo => Whole(backup[x]))
        /\ pc = "restore" =>
              /\ x \in job.todo \/ Whole(dest[x])
              /\ ~job.republish /\ x \in job.todo => Whole(backup[x])

IInv ==
    /\ Typed /\ Ordered /\ Staged /\ Reconciled
    /\ ManifestRight /\ GenerationsRight /\ PointersRight /\ EntriesRight

----------------------------------------------------------------------------
\* Only what is to be done changes.
SameJob == /\ job'.direct = job.direct /\ job'.previous = job.previous
           /\ job'.republish = job.republish /\ job'.backs = job.backs /\ job'.done = job.done

\* The outcome of reconcilePublishedEntries' choice between republishing and a backup.
Chosen ==
    /\ JobTyped' /\ job'.direct = job.direct /\ job'.previous = job.previous /\ job'.done = job.done
    /\ job'.republish <=> job.previous # None /\ generation[job.previous] # "none"
    /\ job'.todo = IF job'.republish \/ ~job.direct THEN Stale ELSE Before
    /\ job'.backs <=> ~job'.republish /\ job'.todo # {}

\* Pointers, copies and the absent entry are told apart.
LEMMA Distinct ==
  \A e, f \in Epochs : /\ Copy(e) # Pointer(f) /\ Copy(e) # None /\ Pointer(e) # None
                       /\ Copy(e) \in Values /\ Pointer(e) \in Values /\ None \in Values
                       /\ (Pointer(e) = Pointer(f) => e = f) /\ (Copy(e) = Copy(f) => e = f)
  BY HostAssumption DEF Copy, Pointer, Values

\* What is published under a name is a pointer or a copy.
LEMMA PublishedTyped ==
  \A e \in Epochs, x \in Entries : Published(e, x) \in Values
  BY Distinct DEF Published

\* The empty bundle is a bundle.
LEMMA NoneTyped == None \in Values /\ Nothing \in [Entries -> Values]
  BY DEF Values, Nothing

\* What Goes and FailsTo change of the sync's local state.
LEMMA Moves ==
  ASSUME Typed, NEW T \in SUBSET (Entries \cup Epochs), NEW c, FailsTo(c, T) \/ Goes(c, T)
  PROVE  pc' = c /\ JobTyped' /\ SameJob /\ job'.todo = T /\ faults' \in 0 .. MaxFaults
  <1>1. CASE Goes(c, T)
    BY <1>1 DEF Typed, TypeOK, JobTyped, SameJob, Goes
  <1>2. CASE FailsTo(c, T)
    <2>1. faults' \in 0 .. MaxFaults
      BY <1>2, HostAssumption DEF Typed, TypeOK, FailsTo
    <2> QED BY <1>2, <2>1 DEF Typed, JobTyped, SameJob, FailsTo
  <1> QED BY <1>1, <1>2

\* A publication that fails leaves one entry changed at most.
LEMMA Failures ==
  ASSUME Typed, NEW e \in Epochs, NEW x \in Entries, PublishFails(e, x)
  PROVE  \E v \in Values : dest' = [dest EXCEPT ![x] = v]
  BY Distinct, NoneTyped DEF Typed, TypeOK, PublishFails

\* A running sync has an epoch, not older than the installed one.
LEMMA EpochTyped ==
  ASSUME Typed, Ordered, Staged, pc # "rest"
  PROVE  /\ Epoch \in Epochs /\ (installed \in Epochs => installed <= Epoch)
         /\ Running => Attached # Epoch /\ (Attached \in Epochs => Attached < Epoch)
  <1>1. queue # <<>> /\ queue \in Seq(Epochs)
    BY DEF Typed, TypeOK, Staged
  <1>2. 1 \in 1 .. Len(queue) /\ Epoch = queue[1] /\ queue[1] \in Epochs
    BY <1>1 DEF Epoch
  <1>3. installed \in Epochs => installed <= Epoch
    BY <1>2 DEF Ordered
  <1>4. ASSUME Running, Attached \in Epochs
        PROVE  Attached < Epoch
    <2>1. CASE installed \in Epochs
      <3>1. installed # Epoch /\ Attached = installed
        BY <1>4, <2>1 DEF Staged, Attached
      <3> QED BY <1>2, <1>3, <2>1, <3>1, HostAssumption
    <2>2. CASE installed \notin Epochs
      BY <1>2, <1>4, <2>2, HostAssumption DEF Ordered, Attached
    <2> QED BY <2>1, <2>2
  <1>5. Attached \in Epochs => Epoch # Attached \/ ~Running
    BY <1>2, <1>4, HostAssumption
  <1>6. Attached \notin Epochs => Epoch # Attached
    BY <1>2
  <1> QED BY <1>2, <1>3, <1>4, <1>5, <1>6

\* The queue without its head.
LEMMA TailTyped ==
  ASSUME queue \in Seq(Epochs), queue # <<>>
  PROVE  Tail(queue) \in Seq(Epochs) /\ Len(Tail(queue)) = Len(queue) - 1
         /\ Len(queue) \in Nat \ {0} /\ Head(queue) = queue[1]
         /\ \A i \in 1 .. Len(Tail(queue)) : Tail(queue)[i] = queue[i + 1]
  OBVIOUS

\* The end of a sync leaves the queue in order.
LEMMA EndsOrdered ==
  ASSUME Typed, Ordered, queue # <<>>, queue' = Tail(queue), newest' = newest,
         earlier' = earlier, installed' \in {installed, Head(queue)}
  PROVE  Ordered'
  <1>1. \A i \in 1 .. Len(queue') : queue'[i] = queue[i + 1] /\ i + 1 \in 1 .. Len(queue)
    OBVIOUS
  <1>2. \A i \in 1 .. Len(queue') : queue[1] <= queue'[i] /\ queue[1] = Head(queue)
    BY DEF Ordered
  <1>3. Len(queue') \in Nat /\ 1 \in 1 .. Len(queue)
    OBVIOUS
  <1>4. Head(queue) \in Epochs
    BY <1>3 DEF Typed, TypeOK
  <1>5. /\ \A i \in 1 .. Len(queue') : queue'[i] <= newest'
        /\ \A i, j \in 1 .. Len(queue') : i <= j => queue'[i] <= queue'[j]
    BY <1>1, <1>3 DEF Ordered
  <1>6. installed' \in Epochs =>
           installed' <= newest' /\ \A i \in 1 .. Len(queue') : installed' <= queue'[i]
    BY <1>1, <1>2, <1>3 DEF Ordered
  <1>7. installed' \notin Epochs => installed \notin Epochs
    BY <1>4
  <1>8. installed' \notin Epochs /\ earlier' # None => \A i \in 1 .. Len(queue') : earlier' < queue'[i]
    BY <1>1, <1>7 DEF Ordered
  <1> QED BY <1>5, <1>6, <1>8 DEF Ordered

----------------------------------------------------------------------------
\* The first install adds no pointer.
LEMMA Replaced ==
  ASSUME dest \in [Entries -> Values], Epoch \in Epochs, NEW S \in SUBSET Entries, Replaces(S)
  PROVE  /\ dest' \in [Entries -> Values]
         /\ \A x \in Entries, e \in Epochs : dest'[x] = Pointer(e) => dest[x] = Pointer(e)
  <1>1. \A x \in Entries : Fresh[x] \in Values /\ \A e \in Epochs : Fresh[x] # Pointer(e)
    BY Distinct DEF Fresh
  <1> QED BY <1>1 DEF Replaces

\* The first install, by the manager over what there is, or by the host's installer.
LEMMA InstallKeeps ==
  ASSUME IInv, Install
  PROVE  IInv'
  <1>1. ASSUME NEW S \in SUBSET Entries, Replaces(S), pc = "install",
               installed' = 0, pc' = "start",
               UNCHANGED <<manifest, generation, job, calls, backup, faults, unrepaired, twice>>
        PROVE  IInv'
    <2>1. /\ Epoch \in Epochs /\ (installed \in Epochs => installed <= Epoch)
          /\ Running => Attached # Epoch /\ (Attached \in Epochs => Attached < Epoch)
      BY <1>1, EpochTyped DEF IInv
    <2>2. /\ dest' \in [Entries -> Values]
          /\ \A x \in Entries, e \in Epochs : dest'[x] = Pointer(e) => dest[x] = Pointer(e)
      BY <1>1, <2>1, Replaced DEF IInv, Typed, TypeOK
    <2>3. Attached' = Attached /\ installed = None /\ Epoch' = Epoch
      BY <1>1, HostAssumption DEF IInv, Staged, Attached, calls, session, Epoch
    <2>4. Typed'
      BY <1>1, <2>2 DEF IInv, calls, session, Typed, TypeOK, JobTyped, Contexts
    <2>5. Ordered'
      BY <1>1, <2>3, HostAssumption DEF IInv, calls, session, Ordered
    <2>6. Staged'
      <3>1. 0 # None /\ 0 \notin Epochs
        BY HostAssumption
      <3> QED BY <1>1, <2>1, <2>3, <3>1 DEF IInv, calls, session, Staged, Idle
    <2>7. Reconciled'
      BY <1>1 DEF Reconciled, Reconciling
    <2>8. ManifestRight'
      BY <1>1, <2>3 DEF IInv, calls, session, ManifestRight, Working
    <2>9. GenerationsRight'
      BY <1>1, <2>3 DEF IInv, GenerationsRight, Reconciling, Working, Running, Failed
    <2>10. PointersRight'
      BY <1>1, <2>2, <2>3 DEF IInv, calls, session, PointersRight, Reconciling
    <2>11. EntriesRight'
      BY <1>1, HostAssumption DEF EntriesRight
    <2> QED BY <2>4, <2>5, <2>6, <2>7, <2>8, <2>9, <2>10, <2>11 DEF IInv
  <1>2. ASSUME NEW S \in SUBSET Entries, Replaces(S), pc = "install", Ends,
               UNCHANGED <<manifest, generation, backup, installed, faults, unrepaired, twice>>
        PROVE  IInv'
    <2>1. /\ Epoch \in Epochs /\ (installed \in Epochs => installed <= Epoch)
          /\ Running => Attached # Epoch /\ (Attached \in Epochs => Attached < Epoch)
      BY <1>2, EpochTyped DEF IInv
    <2>2. /\ pc' = "rest" /\ job' = Idle /\ queue' = Tail(queue) /\ newest' = newest /\ closing' = closing
          /\ earlier' = earlier /\ late' = late
      BY <1>2 DEF Ends, session
    <2>3. /\ dest' \in [Entries -> Values]
          /\ \A x \in Entries, e \in Epochs : dest'[x] = Pointer(e) => dest[x] = Pointer(e)
      BY <1>2, <2>1, Replaced DEF IInv, Typed, TypeOK
    <2>4. Attached' = Attached /\ installed = None
      BY <1>2, <2>2 DEF IInv, Staged, Attached
    <2>5. Typed'
      BY <1>2, <2>2, <2>3 DEF IInv, Typed, TypeOK, JobTyped, Idle, Staged, Contexts
    <2>6. Ordered'
      BY <1>2, <2>2, EndsOrdered DEF IInv, Staged
    <2>7. Staged'
      BY <2>2 DEF IInv, Staged, Running
    <2>8. Reconciled'
      BY <2>2 DEF Reconciled, Reconciling
    <2>9. ManifestRight'
      BY <1>2, <2>2, <2>4 DEF IInv, ManifestRight, Running, Working
    <2>10. GenerationsRight'
      BY <1>2, <2>2, <2>4 DEF IInv, GenerationsRight, Reconciling, Working, Running, Failed
    <2>11. PointersRight'
      BY <1>2, <2>2, <2>3, <2>4 DEF IInv, PointersRight, Reconciling
    <2>12. EntriesRight'
      BY <1>2, <2>4, HostAssumption DEF EntriesRight
    <2> QED BY <2>5, <2>6, <2>7, <2>8, <2>9, <2>10, <2>11, <2>12 DEF IInv
  <1>3. ASSUME pc = "install", dest' = Fresh, manifest' = None, earlier' = None,
               generation' = [e \in Epochs |-> "none"], installed' = 0, pc' = "start",
               UNCHANGED <<job, queue, newest, closing, late, backup, faults, unrepaired, twice>>
        PROVE  IInv'
    <2>1. /\ Epoch \in Epochs /\ (installed \in Epochs => installed <= Epoch)
          /\ Running => Attached # Epoch /\ (Attached \in Epochs => Attached < Epoch)
      BY <1>3, EpochTyped DEF IInv
    <2>2. Attached' = None /\ Epoch' = Epoch
      BY <1>3, HostAssumption DEF Attached, Epoch
    <2>3. Typed'
      BY <1>3, <2>1, Distinct DEF IInv, Typed, TypeOK, JobTyped, Contexts, Fresh
    <2>4. Ordered'
      BY <1>3, HostAssumption DEF IInv, Ordered
    <2>5. Staged'
      <3>1. 0 # None /\ 0 \notin Epochs
        BY HostAssumption
      <3> QED BY <1>3, <2>1, <2>2, <3>1 DEF IInv, Staged, Idle
    <2>6. Reconciled'
      BY <1>3 DEF Reconciled, Reconciling
    <2>7. ManifestRight'
      BY <1>3, <2>2 DEF ManifestRight, Working
    <2>8. GenerationsRight'
      BY <1>3 DEF GenerationsRight, Reconciling
    <2>9. PointersRight'
      <3>1. \A x \in Entries, e \in Epochs : dest'[x] # Pointer(e)
        BY <1>3, <2>1, Distinct DEF Fresh
      <3> QED BY <1>3, <3>1 DEF PointersRight, Reconciling
    <2>10. EntriesRight'
      BY <1>3, HostAssumption DEF EntriesRight
    <2> QED BY <2>3, <2>4, <2>5, <2>6, <2>7, <2>8, <2>9, <2>10 DEF IInv
  <1> QED BY <1>1, <1>2, <1>3 DEF Install, calls, session

\* The copy of the epoch to its generation.
LEMMA GenerateKeeps ==
  ASSUME IInv, Generate
  PROVE  IInv'
  <1>1. ASSUME pc = "generate",
               generation' = [generation EXCEPT ![Epoch] = "whole"],
               Goes("reconcile", {}),
               UNCHANGED <<dest, manifest, backup, installed, calls, unrepaired, twice>>
        PROVE  IInv'
    <2>1. /\ Epoch \in Epochs /\ (installed \in Epochs => installed <= Epoch)
          /\ Running => Attached # Epoch /\ (Attached \in Epochs => Attached < Epoch)
      BY <1>1, EpochTyped DEF IInv
    <2>2. pc' = "reconcile" /\ job'.todo = {} /\ SameJob /\ JobTyped' /\ faults' \in 0 .. MaxFaults
      BY <1>1, Moves DEF IInv
    <2>3. Typed'
      BY <1>1, <2>1, <2>2, Distinct, PublishedTyped DEF IInv, calls, session, Typed,
         TypeOK, Contexts
    <2>4. Ordered'
      BY <1>1 DEF IInv, calls, session, Ordered, Staged
    <2>5. Staged'
      BY <1>1, <2>2 DEF IInv, calls, session, Staged, Running, SameJob, Epoch
    <2>6. Reconciled'
      BY <2>2 DEF Reconciled, Reconciling, Disturbed
    <2>7. ManifestRight'
      BY <1>1, <2>2 DEF IInv, calls, session, ManifestRight, Attached, Staged, Running,
         Working, Failed, SameJob, Typed
    <2>8. GenerationsRight'
      BY <1>1, <2>2, HostAssumption, Distinct DEF IInv, calls, session, GenerationsRight,
         Reconciling, Working, Failed, Running, Staged, SameJob, Epoch, Typed, TypeOK,
         Attached
    <2>9. PointersRight'
      BY <1>1, <2>2 DEF IInv, calls, session, PointersRight, Attached, Reconciling,
         Reconciled, GenerationsRight, ManifestRight, Working, Before, Disturbed
    <2>10. EntriesRight'
      BY <1>1, <2>1, <2>2, HostAssumption, Distinct DEF IInv, calls, session,
         EntriesRight, Whole, Kept, Reconciled, Reconciling, Staged, Running,
         ManifestRight, GenerationsRight, Attached, Working, Failed, Epoch, Before, Stale,
         SameJob, Typed, TypeOK, JobTyped, Disturbed
    <2> QED BY <2>3, <2>4, <2>5, <2>6, <2>7, <2>8, <2>9, <2>10 DEF IInv
  <1>2. ASSUME pc = "generate",
               generation' = [generation EXCEPT ![Epoch] = "part"],
               FailsTo("undo", {}),
               UNCHANGED <<dest, manifest, backup, installed, calls, unrepaired, twice>>
        PROVE  IInv'
    <2>1. /\ Epoch \in Epochs /\ (installed \in Epochs => installed <= Epoch)
          /\ Running => Attached # Epoch /\ (Attached \in Epochs => Attached < Epoch)
      BY <1>2, EpochTyped DEF IInv
    <2>2. pc' = "undo" /\ job'.todo = {} /\ SameJob /\ JobTyped' /\ faults' \in 0 .. MaxFaults
      BY <1>2, Moves DEF IInv
    <2>3. Typed'
      BY <1>2, <2>1, <2>2, NoneTyped DEF IInv, calls, session, Typed, TypeOK, Contexts
    <2>4. Ordered'
      BY <1>2 DEF IInv, calls, session, Ordered
    <2>5. Staged'
      BY <1>2, <2>2 DEF IInv, calls, session, Staged, Running, Epoch
    <2>6. Reconciled'
      BY <2>2 DEF Reconciled, Reconciling, Disturbed
    <2>7. ManifestRight'
      BY <1>2, <2>2, HostAssumption DEF IInv, calls, session, ManifestRight, Attached,
         Running, Failed, JobTyped
    <2>8. GenerationsRight'
      BY <1>2, <2>2, HostAssumption DEF IInv, calls, session, GenerationsRight,
         Reconciling, Working, Failed, Running, ManifestRight, Staged, Epoch, Typed,
         Attached
    <2>9. PointersRight'
      <3>1. closing # "closed" /\ Attached # Epoch
        BY <1>2, <2>1 DEF IInv, Staged, Running
      <3>2. ~twice => \A x \in Entries, e \in Epochs : dest[x] = Pointer(e) =>
                 generation[e] = "whole" /\ x \in Contents[e] /\ e = Attached
        BY <1>2, <3>1 DEF IInv, PointersRight
      <3>3. ~twice => \A x \in Entries, e \in Epochs : dest[x] = Pointer(e) => generation'[e] = "whole"
        BY <1>2, <2>1, <3>1, <3>2 DEF IInv, Typed, TypeOK
      <3>4. Attached' = Attached
        BY <1>2 DEF Attached, calls, session
      <3> QED BY <1>2, <2>2, <3>2, <3>3, <3>4 DEF PointersRight, Reconciling
    <2>10. EntriesRight'
      BY <1>2, <2>1, <2>2, Distinct DEF IInv, EntriesRight, Whole, Reconciled,
         Reconciling, Staged, ManifestRight, GenerationsRight, Attached, Epoch, JobTyped,
         Disturbed
    <2> QED BY <2>3, <2>4, <2>5, <2>6, <2>7, <2>8, <2>9, <2>10 DEF IInv
  <1> QED BY <1>1, <1>2 DEF Generate

\* The choice of what is stale, and of a backup.
LEMMA ReconcileKeeps ==
  ASSUME IInv, Reconcile
  PROVE  IInv'
  <1>1. ASSUME pc = "reconcile",
               backup' = Nothing,
               Chosen,
               pc' = "clear",
               UNCHANGED <<dest, generation, manifest, installed, faults, calls,
               unrepaired, twice>>
        PROVE  IInv'
    <2>1. /\ Epoch \in Epochs /\ (installed \in Epochs => installed <= Epoch)
          /\ Running => Attached # Epoch /\ (Attached \in Epochs => Attached < Epoch)
      BY <1>1, EpochTyped DEF IInv
    <2>2. Typed'
      BY <1>1, NoneTyped DEF IInv, calls, session, Typed, TypeOK, Contexts, Chosen
    <2>3. Ordered'
      BY <1>1 DEF IInv, calls, session, Ordered
    <2>4. Staged'
      <3>1. job'.todo \subseteq Entries
        BY <1>1, <2>1, HostAssumption DEF Chosen, Stale, Before, IInv, Typed, JobTyped
      <3> QED BY <1>1, <3>1 DEF IInv, calls, session, Staged, Running, Epoch
    <2>5. Reconciled'
      BY <1>1 DEF IInv, calls, session, Reconciled, Chosen, Reconciling, Staged, Epoch,
         Before, Stale, JobTyped, Disturbed
    <2>6. ManifestRight'
      BY <1>1 DEF IInv, calls, session, ManifestRight, Chosen, Attached, Staged, Running, Working, Failed,
         TypeOK
    <2>7. GenerationsRight'
      BY <1>1, HostAssumption DEF IInv, calls, session, GenerationsRight, Chosen,
         Reconciling, Working, Failed, Running, Epoch, Typed, TypeOK, JobTyped, Attached
    <2>8. PointersRight'
      BY <1>1, <2>1, HostAssumption, Distinct DEF IInv, calls, session, PointersRight,
         Chosen, Attached, Reconciling, Staged, Running, Reconciled, ManifestRight,
         Working, Failed, Epoch, Before, Stale, Nothing, Typed, JobTyped, Disturbed
    <2>9. EntriesRight'
      <3>1. ASSUME ~unrepaired, installed \in Epochs, generation[installed] # "part", closing # "closed"
            PROVE  /\ job.previous = installed
                   /\ \A x \in Contents[installed] : Whole(dest[x])
        BY <1>1, <3>1 DEF IInv, ManifestRight, Working, Running, Failed, Attached, EntriesRight
      <3>2. \A x \in Entries : backup'[x] = None
        BY <1>1 DEF Nothing
      <3>3. ASSUME installed \in Epochs
            PROVE  installed # None /\ Contents[installed] \subseteq Entries
        BY <3>3, HostAssumption
      <3>4. Epoch' = Epoch
        BY <1>1 DEF Epoch, calls
      <3>5. ~unrepaired /\ installed \in Epochs /\ generation[installed] # "part" /\ closing # "closed" =>
               Before = Contents[installed]
        BY <3>1, <3>3 DEF Before
      <3> QED BY <1>1, <3>1, <3>2, <3>3, <3>4, <3>5
              DEF calls, session, EntriesRight, Whole, Chosen, Stale, Before
    <2> QED BY <2>2, <2>3, <2>4, <2>5, <2>6, <2>7, <2>8, <2>9 DEF IInv
  <1>2. ASSUME pc = "reconcile",
               backup' = Nothing,
               FailsTo("undo", {}),
               UNCHANGED <<dest, generation, manifest, installed, calls, unrepaired, twice>>
        PROVE  IInv'
    <2>1. /\ Epoch \in Epochs /\ (installed \in Epochs => installed <= Epoch)
          /\ Running => Attached # Epoch /\ (Attached \in Epochs => Attached < Epoch)
      BY <1>2, EpochTyped DEF IInv
    <2>2. pc' = "undo" /\ job'.todo = {} /\ SameJob /\ JobTyped' /\ faults' \in 0 .. MaxFaults
      BY <1>2, Moves DEF IInv
    <2>3. Typed'
      BY <1>2, <2>2, TailTyped, NoneTyped DEF IInv, calls, session, Typed, TypeOK, Contexts
    <2>4. Ordered'
      BY <1>2 DEF IInv, calls, session, Ordered
    <2>5. Staged'
      BY <1>2, <2>2 DEF IInv, calls, session, Staged, Running, Epoch
    <2>6. Reconciled'
      BY <2>2 DEF Reconciled, Reconciling, Disturbed
    <2>7. ManifestRight'
      BY <1>2, <2>2 DEF IInv, calls, session, ManifestRight, Attached, Failed
    <2>8. GenerationsRight'
      BY <1>2, <2>1, <2>2 DEF IInv, calls, session, GenerationsRight, Attached,
         Reconciling, Working, Failed, Running, Epoch, TypeOK
    <2>9. PointersRight'
      BY <1>2, <2>1, <2>2, Distinct DEF IInv, calls, session, PointersRight, Attached,
         GenerationsRight, Failed, Epoch, Nothing, JobTyped
    <2>10. EntriesRight'
      BY <1>2, <2>1, <2>2, HostAssumption, Distinct DEF IInv, calls, session,
         EntriesRight, Whole, Kept, Reconciled, Reconciling, Staged, Running,
         ManifestRight, GenerationsRight, Attached, Working, Failed, Epoch, Before, Stale,
         SameJob, Nothing, Typed, TypeOK, JobTyped, Disturbed
    <2> QED BY <2>3, <2>4, <2>5, <2>6, <2>7, <2>8, <2>9, <2>10 DEF IInv
  <1> DEFINE republish == job.previous # None /\ generation[job.previous] # "none"
             victims == IF republish \/ ~job.direct THEN Stale ELSE Before
             backs == ~republish /\ victims # {}
  <1>3. ASSUME job' = [job EXCEPT !.republish = republish, !.todo = victims, !.backs = backs]
        PROVE  Chosen
    <2>1. republish \in BOOLEAN /\ backs \in BOOLEAN
      OBVIOUS
    <2>2. victims \in SUBSET (Entries \cup Epochs)
      BY HostAssumption DEF Stale, Before, IInv, Typed, JobTyped
    <2> HIDE DEF republish, victims, backs
    <2>3. /\ job'.todo = victims /\ job'.republish = republish /\ job'.backs = backs
          /\ job'.direct = job.direct /\ job'.previous = job.previous /\ job'.done = job.done
      BY <1>3
    <2>4. JobTyped'
      BY <1>3, <2>1, <2>2 DEF IInv, Typed, JobTyped
    <2>5. /\ republish <=> job.previous # None /\ generation[job.previous] # "none"
          /\ victims = IF republish \/ ~job.direct THEN Stale ELSE Before
          /\ backs <=> ~republish /\ victims # {}
      BY DEF republish, victims, backs
    <2> QED BY <2>3, <2>4, <2>5 DEF Chosen
  <1>4. ASSUME job' = [job EXCEPT !.republish = republish, !.todo = victims, !.backs = backs],
               pc' = "clear", UNCHANGED faults
        PROVE  IInv'
    BY <1>1, <1>3, <1>4, Zenon DEF Reconcile
  <1> QED BY <1>2, <1>4, Zenon DEF Reconcile

\* The removal of stale entries, or their backup.
LEMMA ClearKeeps ==
  ASSUME IInv, Clear
  PROVE  IInv'
  <1>1. ASSUME NEW c, NEW T,
               pc = "clear",
               job.todo = {},
               c = IF job.direct THEN "publish" ELSE "write",
               T = IF job.direct THEN Contents[Epoch] ELSE {},
               Goes(c, T),
               UNCHANGED <<dest, backup, generation, manifest, installed, calls,
               unrepaired, twice>>
        PROVE  IInv'
    <2>1. /\ Epoch \in Epochs /\ (installed \in Epochs => installed <= Epoch)
          /\ Running => Attached # Epoch /\ (Attached \in Epochs => Attached < Epoch)
      BY <1>1, EpochTyped DEF IInv
    <2>2. T \in SUBSET (Entries \cup Epochs)
      BY <1>1, <2>1, HostAssumption
    <2>3. pc' = c /\ job'.todo = T /\ SameJob /\ JobTyped' /\ faults' \in 0 .. MaxFaults
      BY <1>1, <2>2, Moves DEF IInv
    <2>4. Typed'
      BY <1>1, <2>3, NoneTyped DEF IInv, calls, session, Typed, TypeOK, Contexts, Idle
    <2>5. Ordered'
      BY <1>1 DEF IInv, calls, session, Ordered
    <2>6. Staged'
      <3>1. T \subseteq Entries /\ c \in {"publish", "write"}
        BY <1>1, <2>1, HostAssumption
      <3> QED BY <1>1, <2>3, <3>1 DEF IInv, calls, session, Staged, Running, Epoch
    <2>7. Reconciled'
      BY <1>1, <2>3, HostAssumption DEF IInv, calls, session, Reconciled, Reconciling,
         Running, Epoch, Before, Stale, SameJob, Disturbed
    <2>8. ManifestRight'
      BY <1>1, <2>3, HostAssumption DEF IInv, calls, session, ManifestRight, Attached, Staged, Running,
         Working, Failed, SameJob, TypeOK
    <2>9. GenerationsRight'
      BY <1>1, <2>1, <2>3, Distinct DEF IInv, calls, session, GenerationsRight, Attached,
         Reconciling, Working, Failed, Running, SameJob, Epoch, Typed, TypeOK, JobTyped
    <2>10. PointersRight'
      BY <1>1, <2>3, Distinct DEF IInv, calls, session, PointersRight, Attached,
         Reconciling, Running, Reconciled, GenerationsRight, Epoch, SameJob, Typed,
         JobTyped, Disturbed
    <2>11. EntriesRight'
      BY <1>1, <2>3 DEF IInv, calls, session, EntriesRight, Whole, Kept, Reconciled,
         Reconciling, Attached, Working, Before, Stale, Published, SameJob, JobTyped,
         Disturbed
    <2> QED BY <2>4, <2>5, <2>6, <2>7, <2>8, <2>9, <2>10, <2>11 DEF IInv
  <1>2. ASSUME NEW x \in First(job.todo),
               pc = "clear",
               dest' = [dest EXCEPT ![x] = None],
               backup' = IF job.backs THEN [backup EXCEPT ![x] = dest[x]] ELSE backup,
               Goes("clear", job.todo \ {x}),
               UNCHANGED <<generation, manifest, installed, calls, unrepaired, twice>>
        PROVE  IInv'
    <2>1. /\ Epoch \in Epochs /\ (installed \in Epochs => installed <= Epoch)
          /\ Running => Attached # Epoch /\ (Attached \in Epochs => Attached < Epoch)
      BY <1>2, EpochTyped DEF IInv
    <2>2. job.todo \ {x} \in SUBSET (Entries \cup Epochs)
      BY DEF IInv, Typed, JobTyped
    <2>3. pc' = "clear" /\ job'.todo = job.todo \ {x} /\ SameJob /\ JobTyped' /\ faults' \in 0 .. MaxFaults
      BY <1>2, <2>2, Moves DEF IInv
    <2>4. Typed'
      BY <1>2, <2>3, NoneTyped DEF IInv, calls, session, Typed, TypeOK, Staged, SameJob,
         First
    <2>5. Ordered'
      BY <1>2, Distinct DEF IInv, calls, session, Ordered
    <2>6. Staged'
      BY <1>2, <2>3 DEF IInv, calls, session, Staged, Running, Idle, SameJob, Epoch, Typed
    <2>7. Reconciled'
      BY <1>2, <2>1, <2>3 DEF IInv, calls, session, Reconciled, Reconciling, Epoch,
         Before, Stale, SameJob, Disturbed
    <2>8. ManifestRight'
      BY <1>2, <2>1, <2>3, Distinct DEF IInv, calls, session, ManifestRight, Attached,
         Running, Working, Failed, SameJob, JobTyped
    <2>9. GenerationsRight'
      BY <1>2, <2>3, Distinct DEF IInv, calls, session, GenerationsRight, Attached,
         Reconciling, Working, Failed, Running, ManifestRight, SameJob, Epoch, TypeOK
    <2>10. PointersRight'
      BY <1>2, <2>1, <2>3, Distinct DEF IInv, calls, session, PointersRight, Attached,
         Reconciling, Staged, Running, Reconciled, GenerationsRight, ManifestRight,
         Working, Failed, Epoch, Before, Stale, First, Typed, TypeOK, Disturbed
    <2>11. EntriesRight'
      BY <1>2, <2>1, <2>3, HostAssumption, Distinct DEF IInv, calls, session,
         EntriesRight, Whole, Kept, Reconciled, Reconciling, Staged, Running,
         ManifestRight, GenerationsRight, Attached, Working, Failed, Epoch, Before, Stale,
         SameJob, First, Typed, TypeOK, JobTyped, Disturbed
    <2> QED BY <2>4, <2>5, <2>6, <2>7, <2>8, <2>9, <2>10, <2>11 DEF IInv
  <1>3. ASSUME pc = "clear",
               FailsTo("discard", RollbackTodo),
               UNCHANGED <<dest, backup, generation, manifest, installed, calls,
               unrepaired, twice>>
        PROVE  IInv'
    <2>1. /\ Epoch \in Epochs /\ (installed \in Epochs => installed <= Epoch)
          /\ Running => Attached # Epoch /\ (Attached \in Epochs => Attached < Epoch)
      BY <1>3, EpochTyped DEF IInv
    <2>2. RollbackTodo \in SUBSET (Entries \cup Epochs)
      BY DEF IInv, Typed, JobTyped, RollbackTodo
    <2>3. pc' = "discard" /\ job'.todo = RollbackTodo /\ SameJob /\ JobTyped' /\ faults' \in 0 .. MaxFaults
      BY <1>3, <2>2, Moves DEF IInv
    <2>4. Typed'
      BY <1>3, <2>3 DEF IInv, calls, session, Typed, TypeOK, Contexts, Staged, SameJob
    <2>5. Ordered'
      BY <1>3 DEF IInv, calls, session, Ordered
    <2>6. Staged'
      BY <1>3, <2>1, <2>3, Distinct DEF IInv, calls, session, Staged, Running,
         RollbackTodo, Epoch, Typed, JobTyped
    <2>7. Reconciled'
      BY <1>3, <2>3, Distinct DEF IInv, calls, session, Reconciled, Reconciling, Staged,
         Running, Epoch, Before, Stale, RollbackTodo, SameJob, TypeOK, Disturbed
    <2>8. ManifestRight'
      BY <1>3, <2>1, <2>3, HostAssumption, Distinct DEF IInv, calls, session, ManifestRight, Attached,
         Staged, Running, Working, Failed, SameJob, TypeOK
    <2>9. GenerationsRight'
      BY <1>3, <2>3 DEF IInv, calls, session, GenerationsRight, Reconciling, Working,
         Failed, Running, Staged, SameJob, Epoch, Typed, JobTyped, Attached
    <2>10. PointersRight'
      BY <1>3, <2>3, HostAssumption DEF IInv, calls, session, PointersRight, Attached,
         Reconciling, Running, Reconciled, GenerationsRight, ManifestRight, Working,
         Failed, Before, RollbackTodo, SameJob, Typed, Disturbed
    <2>11. EntriesRight'
      BY <1>3, <2>3, HostAssumption, Distinct DEF IInv, calls, session, EntriesRight,
         Whole, Kept, Reconciled, Staged, Running, Attached, Working, Failed,
         RollbackTodo, SameJob, Typed, TypeOK, JobTyped, Disturbed
    <2> QED BY <2>4, <2>5, <2>6, <2>7, <2>8, <2>9, <2>10, <2>11 DEF IInv
  <1> QED BY <1>1, <1>2, <1>3, HostAssumption, Distinct DEF Clear

\* The publication of an entry.
LEMMA PublishEntryKeeps ==
  ASSUME IInv, PublishEntry
  PROVE  IInv'
  <1>1. ASSUME NEW x \in First(job.todo),
               pc = "publish",
               dest' = [dest EXCEPT ![x] = Published(Epoch, x)],
               job' = [job EXCEPT !.todo = @ \ {x}, !.done = @ \cup {x}],
               UNCHANGED <<pc, faults, twice, generation, manifest, backup, installed,
               calls, unrepaired>>
        PROVE  IInv'
    <2>1. /\ Epoch \in Epochs /\ (installed \in Epochs => installed <= Epoch)
          /\ Running => Attached # Epoch /\ (Attached \in Epochs => Attached < Epoch)
      BY <1>1, EpochTyped DEF IInv
    <2>2. /\ job'.todo = job.todo \ {x} /\ job'.done = job.done \cup {x}
          /\ job'.direct = job.direct /\ job'.previous = job.previous
          /\ job'.republish = job.republish /\ job'.backs = job.backs
          /\ x \in job.todo /\ x \in Entries /\ JobTyped'
      BY <1>1 DEF IInv, Typed, JobTyped, Staged, First
    <2>3. Typed'
      BY <1>1, <2>1, <2>2, PublishedTyped DEF IInv, calls, session, Typed, TypeOK, Contexts
    <2>4. Ordered'
      BY <1>1 DEF IInv, calls, session, Ordered
    <2>5. Staged'
      BY <1>1 DEF IInv, calls, session, Staged, Running, Epoch
    <2>6. Reconciled'
      BY <1>1, <2>1, <2>2, Distinct DEF IInv, calls, session, Reconciled, Reconciling,
         Running, Epoch, Before, Stale, Published, First, Typed, TypeOK, Disturbed
    <2>7. ManifestRight'
      BY <1>1 DEF IInv, calls, session, ManifestRight, Attached, Staged, Running, Working,
         Failed, Epoch, JobTyped
    <2>8. GenerationsRight'
      BY <1>1, <2>1, <2>2 DEF IInv, calls, session, GenerationsRight, Reconciling,
         Working, Failed, Running, Epoch, Typed, JobTyped, Attached
    <2>9. PointersRight'
      <3>1. closing # "closed" /\ Attached # Epoch /\ job.direct
        BY <1>1, <2>1 DEF IInv, Staged, Reconciled, Running
      <3>2. Epoch' = Epoch /\ Attached' = Attached
        BY <1>1 DEF Epoch, Attached, calls, session
      <3>3. generation[Epoch] = "whole" /\ x \in Contents[Epoch]
        BY <1>1, <2>2, <3>1 DEF IInv, GenerationsRight, Reconciled
      <3>4. ASSUME ~twice, NEW y \in Entries, NEW e \in Epochs, dest'[y] = Pointer(e)
            PROVE  /\ generation[e] = "whole" /\ y \in Contents[e]
                   /\ e = Attached \/ (e = Epoch /\ y \in job'.done)
                   /\ e = Attached => y \in Contents[Epoch] \ job'.done
        <4>1. CASE y = x
          <5>1. Published(Epoch, x) = Pointer(e)
            BY <1>1, <2>2, <3>4, <4>1 DEF IInv, Typed, TypeOK
          <5>2. e = Epoch
            BY <2>1, <5>1, Distinct DEF Published
          <5> QED BY <2>2, <3>1, <3>3, <4>1, <5>2
        <4>2. CASE y # x
          <5>1. dest[y] = Pointer(e)
            BY <1>1, <2>2, <3>4, <4>2 DEF IInv, Typed, TypeOK
          <5> QED BY <1>1, <2>2, <3>1, <3>4, <4>2, <5>1 DEF IInv, PointersRight
        <4> QED BY <4>1, <4>2
      <3>5. ~twice => \A y \in Entries, e \in Epochs : backup[y] # Pointer(e)
        BY <1>1 DEF IInv, PointersRight, Reconciling
      <3> QED BY <1>1, <3>2, <3>4, <3>5 DEF PointersRight
    <2>10. EntriesRight'
      BY <1>1, <2>1, HostAssumption, Distinct DEF IInv, EntriesRight, Whole, Reconciled,
         Staged, Running, ManifestRight, Working, Published, Disturbed
    <2> QED BY <2>3, <2>4, <2>5, <2>6, <2>7, <2>8, <2>9, <2>10 DEF IInv
  <1>2. ASSUME NEW x \in First(job.todo), NEW v \in Values,
               pc = "publish",
               dest' = [dest EXCEPT ![x] = v],
               twice' = (twice \/ v # dest[x]),
               FailsTo("discard", RollbackTodo),
               UNCHANGED <<generation, manifest, backup, installed, calls, unrepaired>>
        PROVE  IInv'
    <2>1. /\ Epoch \in Epochs /\ (installed \in Epochs => installed <= Epoch)
          /\ Running => Attached # Epoch /\ (Attached \in Epochs => Attached < Epoch)
      BY <1>2, EpochTyped DEF IInv
    <2>2. RollbackTodo \in SUBSET (Entries \cup Epochs)
      BY DEF IInv, Typed, JobTyped, RollbackTodo
    <2>3. pc' = "discard" /\ job'.todo = RollbackTodo /\ SameJob /\ JobTyped' /\ faults' \in 0 .. MaxFaults
      BY <1>2, <2>2, Moves, HostAssumption DEF IInv, Typed
    <2>4. Typed'
      BY <1>2, <2>3, HostAssumption DEF IInv, calls, session, Typed, TypeOK, Staged, First
    <2>5. Ordered'
      BY <1>2 DEF IInv, calls, session, Ordered
    <2>6. Staged'
      BY <1>2, <2>1, <2>3 DEF IInv, calls, session, Staged, Running, SameJob,
         RollbackTodo, Epoch, Typed, JobTyped
    <2>7. Reconciled'
      BY <1>2, <2>3 DEF IInv, Reconciled, Reconciling, Running, Before, Stale,
         RollbackTodo, SameJob, First, JobTyped, Disturbed
    <2>8. ManifestRight'
      BY <1>2, <2>3 DEF IInv, calls, session, ManifestRight, Attached, Staged, Running, Working, Failed,
         SameJob, Typed, TypeOK, JobTyped
    <2>9. GenerationsRight'
      BY <1>2, <2>3, Distinct DEF IInv, calls, session, GenerationsRight, Reconciling,
         Working, Failed, Running, ManifestRight, SameJob, Epoch, Typed, TypeOK, JobTyped,
         Attached
    <2>10. PointersRight'
      <3>1. closing # "closed" /\ Attached # Epoch /\ x \in Entries
        BY <1>2, <2>1 DEF IInv, Staged, Running, First
      <3>2. Epoch' = Epoch /\ Attached' = Attached /\ Before' = Before
        BY <1>2, <2>3 DEF Epoch, Attached, Before, calls, session, SameJob
      <3>3. ~twice' => ~twice /\ dest' = dest
        BY <1>2, <3>1 DEF IInv, Typed, TypeOK
      <3>4. \A y \in job.done : y \in RollbackTodo \/ (y \in Before /\ job.republish)
        BY <1>2 DEF IInv, Reconciled, Reconciling, RollbackTodo
      <3>5. ~twice => \A y \in Entries, e \in Epochs : dest[y] = Pointer(e) =>
               /\ generation[e] = "whole" /\ y \in Contents[e]
               /\ e = Attached \/ (e = Epoch /\ y \in job.done)
        BY <1>2, <3>1 DEF IInv, PointersRight
      <3>6. ~twice => \A y \in Entries, e \in Epochs : backup[y] # Pointer(e)
        BY <1>2 DEF IInv, PointersRight, Reconciling
      <3> QED BY <1>2, <2>3, <3>1, <3>2, <3>3, <3>4, <3>5, <3>6 DEF PointersRight, SameJob
    <2>11. EntriesRight'
      BY <1>2, <2>1, <2>3, HostAssumption, Distinct DEF IInv, calls, session,
         EntriesRight, Whole, Kept, Reconciled, Staged, Running, GenerationsRight,
         Attached, Failed, Epoch, Stale, SameJob, First, Disturbed
    <2> QED BY <2>4, <2>5, <2>6, <2>7, <2>8, <2>9, <2>10, <2>11 DEF IInv
  <1>3. Epoch \in Epochs /\ First(job.todo) \subseteq Entries
    BY EpochTyped DEF IInv, PublishEntry, Staged, First
  <1>4. ASSUME NEW x \in First(job.todo), pc = "publish",
               FailsTo("discard", RollbackTodo),
               PublishFails(Epoch, x),
               twice' = (twice \/ dest'[x] # dest[x]),
               UNCHANGED <<generation, manifest, backup, installed, calls, unrepaired>>
        PROVE  IInv'
    <2>1. PICK v \in Values : dest' = [dest EXCEPT ![x] = v]
      BY <1>3, <1>4, Failures DEF IInv
    <2>2. dest'[x] = v
      BY <1>3, <2>1 DEF IInv, Typed, TypeOK
    <2> QED BY <1>2, <1>4, <2>1, <2>2
  <1> QED BY <1>1, <1>4, Zenon DEF PublishEntry

\* The manifest, and with it the success of a direct publication.
LEMMA WriteManifestKeeps ==
  ASSUME IInv, WriteManifest
  PROVE  IInv'
  <1>1. ASSUME NEW T,
               pc = "write",
               job.direct,
               manifest' = Epoch,
               T = {e \in Epochs : generation[e] # "none"} \ {installed, Epoch},
               Goes("prune", T),
               installed' = Epoch,
               Repairs,
               backup' = Nothing,
               UNCHANGED <<dest, generation, calls, twice>>
        PROVE  IInv'
    <2>1. /\ Epoch \in Epochs /\ (installed \in Epochs => installed <= Epoch)
          /\ Running => Attached # Epoch /\ (Attached \in Epochs => Attached < Epoch)
      BY <1>1, EpochTyped DEF IInv
    <2>2. pc' = "prune" /\ job'.todo = T /\ SameJob /\ JobTyped' /\ faults' \in 0 .. MaxFaults
      BY <1>1, Moves DEF IInv
    <2>3. Typed'
      BY <1>1, <2>1, <2>2, NoneTyped
         DEF IInv, calls, session, Typed, TypeOK, Contexts, Staged, Repairs
    <2>4. Ordered'
      <3>1. /\ queue' = queue /\ newest' = newest /\ installed' \in Epochs
            /\ Len(queue) \in Nat \ {0} /\ Epoch = queue[1]
        BY <1>1, <2>1 DEF IInv, calls, session, Staged, Epoch, Typed, TypeOK
      <3> QED BY <1>1, <3>1 DEF IInv, Ordered
    <2>5. Staged'
      BY <1>1, <2>2 DEF IInv, calls, session, Staged, Running, Epoch, JobTyped
    <2>6. Reconciled'
      BY <2>2 DEF Reconciled, Reconciling, Disturbed
    <2>7. ManifestRight'
      BY <1>1, <2>2, HostAssumption DEF calls, session, ManifestRight, Running, Working,
         Epoch, SameJob
    <2>8. GenerationsRight'
      <3>1. \A e \in Epochs : e <= Epoch <=> e < Epoch \/ e = Epoch
        BY <2>1, HostAssumption
      <3>2. \A e \in Epochs : Attached \in Epochs /\ e <= Attached => e < Epoch
        BY <1>1, <2>1, HostAssumption DEF Running
      <3>3. \A e \in Epochs : Attached \in Epochs /\ e < Attached => e < Epoch
        BY <1>1, <2>1, HostAssumption DEF Running
      <3>4. /\ ~twice => \A e \in Epochs : generation[e] # "none" => e <= Epoch
            /\ ~twice => \A e \in Epochs : generation[e] = "part" => e < Epoch
        BY <1>1, <3>1, <3>2, <3>3 DEF IInv, GenerationsRight, Failed
      <3> QED BY <1>1, <2>1, <2>2, <3>4 DEF GenerationsRight, Reconciling, Attached
    <2>9. PointersRight'
      BY <1>1, <2>1, <2>2, HostAssumption, Distinct DEF IInv, calls, session,
         PointersRight, Attached, Reconciling, Reconciled, GenerationsRight, Working, Running,
         Epoch, Stale, Nothing, Disturbed
    <2>10. EntriesRight'
      BY <1>1, <2>1, <2>2, Distinct DEF IInv, EntriesRight, Whole, Reconciled, Published, Disturbed, Repairs
    <2> QED BY <2>3, <2>4, <2>5, <2>6, <2>7, <2>8, <2>9, <2>10 DEF IInv
  <1>2. ASSUME pc = "write",
               ~job.direct,
               manifest' = Epoch,
               Goes("refresh", {}),
               UNCHANGED <<backup, installed, unrepaired, dest, generation, calls, twice>>
        PROVE  IInv'
    <2>1. /\ Epoch \in Epochs /\ (installed \in Epochs => installed <= Epoch)
          /\ Running => Attached # Epoch /\ (Attached \in Epochs => Attached < Epoch)
      BY <1>2, EpochTyped DEF IInv
    <2>2. pc' = "refresh" /\ job'.todo = {} /\ SameJob /\ JobTyped' /\ faults' \in 0 .. MaxFaults
      BY <1>2, Moves DEF IInv
    <2>3. Typed'
      BY <1>2, <2>1, <2>2 DEF IInv, calls, session, Typed, TypeOK, Contexts
    <2>4. Ordered'
      BY <1>2 DEF IInv, calls, session, Ordered
    <2>5. Staged'
      BY <1>2, <2>1, <2>2 DEF IInv, calls, session, Staged, Running, Epoch
    <2>6. Reconciled'
      BY <1>2, <2>2 DEF IInv, calls, session, Reconciled, Reconciling, Epoch, Before,
         Stale, Published, SameJob, Disturbed
    <2>7. ManifestRight'
      BY <1>2, <2>1, <2>2 DEF IInv, calls, session, ManifestRight, Attached, Running,
         Working, Failed, Epoch, SameJob, Typed, TypeOK
    <2>8. GenerationsRight'
      BY <1>2, <2>1, <2>2 DEF IInv, calls, session, GenerationsRight, Reconciling,
         Working, Failed, Running, Staged, SameJob, Epoch, TypeOK, JobTyped, Attached
    <2>9. PointersRight'
      BY <1>2, <2>1, <2>2, Distinct DEF IInv, calls, session, PointersRight, Attached,
         Reconciling, Running, Reconciled, ManifestRight, Working, Epoch, Before, SameJob,
         Typed, JobTyped, Disturbed
    <2>10. EntriesRight'
      BY <1>2, <2>2 DEF EntriesRight, Attached, Failed
    <2> QED BY <2>3, <2>4, <2>5, <2>6, <2>7, <2>8, <2>9, <2>10 DEF IInv
  <1>3. ASSUME pc = "write",
               FailsTo("discard", RollbackTodo),
               UNCHANGED <<manifest, backup, installed, unrepaired, dest, generation,
               calls, twice>>
        PROVE  IInv'
    <2>1. RollbackTodo \in SUBSET (Entries \cup Epochs)
      BY DEF IInv, Typed, JobTyped, RollbackTodo
    <2>2. pc' = "discard" /\ job'.todo = RollbackTodo /\ SameJob /\ JobTyped' /\ faults' \in 0 .. MaxFaults
      BY <1>3, <2>1, Moves DEF IInv
    <2>3. Typed'
      BY <1>3, <2>2, Distinct, NoneTyped DEF IInv, calls, session, Typed, TypeOK, Staged
    <2>4. Ordered'
      BY <1>3 DEF IInv, calls, session, Ordered
    <2>5. Staged'
      BY <1>3, <2>2 DEF IInv, calls, session, Staged, Running, RollbackTodo, Epoch, Typed,
         TypeOK, JobTyped
    <2>6. Reconciled'
      BY <1>3, <2>2, HostAssumption DEF IInv, calls, session, Reconciled, Reconciling,
         Epoch, Before, Stale, RollbackTodo, SameJob, Typed, TypeOK, JobTyped, Disturbed
    <2>7. ManifestRight'
      BY <1>3, <2>2 DEF IInv, calls, session, ManifestRight, Attached, Running, Working,
         Failed, SameJob, TypeOK
    <2>8. GenerationsRight'
      BY <1>3, <2>2 DEF IInv, calls, session, GenerationsRight, Reconciling, Working,
         Failed, Running, ManifestRight, SameJob, Epoch, Typed, JobTyped, Attached
    <2>9. PointersRight'
      BY <1>3, <2>2, HostAssumption DEF IInv, calls, session, PointersRight, Attached,
         Reconciling, Running, Reconciled, GenerationsRight, ManifestRight, Working,
         Failed, Epoch, Before, RollbackTodo, Published, SameJob, Typed, TypeOK, JobTyped,
         Disturbed
    <2>10. EntriesRight'
      BY <1>3, <2>2 DEF IInv, calls, session, EntriesRight, Whole, Kept, Reconciled,
         Reconciling, Running, ManifestRight, Attached, Working, Epoch, Stale,
         RollbackTodo, SameJob, TypeOK, Disturbed
    <2> QED BY <2>3, <2>4, <2>5, <2>6, <2>7, <2>8, <2>9, <2>10 DEF IInv
  <1> QED BY <1>1, <1>2, <1>3, HostAssumption, Distinct DEF WriteManifest, Succeeds

\* The installation by the application server.
LEMMA RefreshKeeps ==
  ASSUME IInv, Refresh
  PROVE  IInv'
  <1>1. ASSUME pc = "refresh",
               dest' = [x \in Entries |-> IF x \in Contents[Epoch] THEN Copy(Epoch) ELSE dest[x]],
               installed' = Epoch,
               Repairs,
               backup' = Nothing,
               Ends,
               UNCHANGED <<faults, generation, manifest, twice>>
        PROVE  IInv'
    <2>1. /\ Epoch \in Epochs /\ (installed \in Epochs => installed <= Epoch)
          /\ Running => Attached # Epoch /\ (Attached \in Epochs => Attached < Epoch)
      BY <1>1, EpochTyped DEF IInv
    <2>2. /\ pc' = "rest" /\ job' = Idle /\ queue' = Tail(queue) /\ newest' = newest /\ closing' = closing
          /\ earlier' = earlier /\ late' = late
      BY <1>1 DEF Ends, session
    <2>3. Typed'
      BY <1>1, <2>1, <2>2, Distinct, NoneTyped
         DEF IInv, Typed, TypeOK, JobTyped, Contexts, Idle, Staged, Repairs
    <2>4. Ordered'
      BY <1>1, <2>2, EndsOrdered DEF IInv, Staged, Epoch
    <2>5. Staged'
      BY <2>2 DEF IInv, Staged, Running
    <2>6. Reconciled'
      BY <2>2 DEF Reconciled, Reconciling, Disturbed
    <2>7. ManifestRight'
      BY <1>1, <2>1, <2>2 DEF IInv, ManifestRight, Attached, Running, Working, Typed
    <2>8. GenerationsRight'
      <3>1. \A e \in Epochs : (Attached \in Epochs /\ e <= Attached) \/ (Working /\ e = Epoch) => e <= Epoch
        BY <1>1, <2>1, HostAssumption DEF Running
      <3>2. \A e \in Epochs : Attached \in Epochs /\ e < Attached => e < Epoch
        BY <1>1, <2>1, HostAssumption DEF Running
      <3>3. /\ ~twice => \A e \in Epochs : generation[e] # "none" => e <= Epoch
            /\ ~twice => \A e \in Epochs : generation[e] = "part" => e < Epoch
        BY <1>1, <3>1, <3>2 DEF IInv, GenerationsRight, Failed
      <3> QED BY <1>1, <2>1, <2>2, <3>3 DEF GenerationsRight, Reconciling, Attached
    <2>9. PointersRight'
      BY <1>1, <2>1, <2>2, Distinct DEF IInv, PointersRight, ManifestRight, Before,
         Nothing, JobTyped
    <2>10. EntriesRight'
      BY <1>1, <2>2, HostAssumption, Distinct DEF EntriesRight, Whole, Reconciled,
         Working, Disturbed
    <2> QED BY <2>3, <2>4, <2>5, <2>6, <2>7, <2>8, <2>9, <2>10 DEF IInv
  <1>2. ASSUME NEW S \in SUBSET Contents[Epoch],
               pc = "refresh",
               dest' = [x \in Entries |-> IF x \in S THEN Copy(Epoch) ELSE dest[x]],
               FailsTo("discard", RollbackTodo),
               unrepaired' = (unrepaired \/ ~job.republish),
               late' \in {late, IF late \in Epochs THEN late ELSE Epoch},
               UNCHANGED <<installed, backup, queue, newest, closing, earlier, generation,
                           manifest, twice>>
        PROVE  IInv'
    <2>1. /\ Epoch \in Epochs /\ (installed \in Epochs => installed <= Epoch)
          /\ Running => Attached # Epoch /\ (Attached \in Epochs => Attached < Epoch)
      BY <1>2, EpochTyped DEF IInv
    <2>2. RollbackTodo \in SUBSET (Entries \cup Epochs)
      BY DEF IInv, Typed, JobTyped, RollbackTodo
    <2>3. pc' = "discard" /\ job'.todo = RollbackTodo /\ SameJob /\ JobTyped' /\ faults' \in 0 .. MaxFaults
      BY <1>2, <2>2, Moves DEF IInv
    <2>4. Typed'
      BY <1>2, <2>1, <2>3, Distinct DEF IInv, calls, session, Typed, TypeOK, Idle, Staged
    <2>5. Ordered'
      BY <1>2, <2>3 DEF IInv, calls, session, Ordered
    <2>6. Staged'
      BY <1>2, <2>3 DEF IInv, calls, session, Staged, Running, RollbackTodo, Epoch, Typed,
         JobTyped
    <2>7. Reconciled'
      BY <1>2, <2>3, HostAssumption, Distinct DEF IInv, calls, session, Reconciled,
         Reconciling, Staged, Running, Epoch, Before, Stale, RollbackTodo, SameJob, Typed,
         TypeOK, Disturbed
    <2>8. ManifestRight'
      BY <1>2, <2>1, <2>3 DEF IInv, calls, session, ManifestRight, Attached, Staged,
         Running, Working, Failed, Epoch, SameJob, Typed, TypeOK
    <2>9. GenerationsRight'
      BY <1>2, <2>3, HostAssumption, Distinct DEF IInv, calls, session, GenerationsRight,
         Reconciling, Working, Failed, Running, SameJob, Epoch, TypeOK, JobTyped, Attached
    <2>10. PointersRight'
      BY <1>2, <2>1, <2>3, HostAssumption, Distinct DEF IInv, calls, session,
         PointersRight, Attached, Reconciling, Running, GenerationsRight, ManifestRight,
         Working, Failed, Before, Stale, RollbackTodo, SameJob, TypeOK, JobTyped
    <2>11. EntriesRight'
      BY <1>2, <2>1, <2>3, HostAssumption, Distinct DEF IInv, calls, session,
         EntriesRight, Whole, Kept, Reconciled, Reconciling, Staged, Running,
         ManifestRight, GenerationsRight, Attached, Working, Failed, Epoch, Before, Stale,
         RollbackTodo, SameJob, Typed, TypeOK, JobTyped, Disturbed
    <2> QED BY <2>4, <2>5, <2>6, <2>7, <2>8, <2>9, <2>10, <2>11 DEF IInv
  <1>3. PICK S \in SUBSET Contents[Epoch] :
          /\ dest' = [x \in Entries |-> IF x \in S THEN Copy(Epoch) ELSE dest[x]]
          /\ \/ /\ S = Contents[Epoch] /\ installed' = Epoch /\ Repairs
                /\ backup' = Nothing /\ Ends /\ UNCHANGED faults
             \/ /\ FailsTo("discard", RollbackTodo)
                /\ unrepaired' = (unrepaired \/ ~job.republish)
                /\ late' \in {late, IF late \in Epochs THEN late ELSE Epoch}
                /\ UNCHANGED <<installed, backup, queue, newest, closing, earlier>>
    BY DEF Refresh
  <1>4. CASE S = Contents[Epoch] /\ installed' = Epoch /\ Repairs
             /\ backup' = Nothing /\ Ends /\ UNCHANGED faults
    BY <1>1, <1>3, <1>4 DEF Refresh
  <1>5. CASE FailsTo("discard", RollbackTodo) /\ unrepaired' = (unrepaired \/ ~job.republish)
             /\ late' \in {late, IF late \in Epochs THEN late ELSE Epoch}
             /\ UNCHANGED <<installed, backup, queue, newest, closing, earlier>>
    BY <1>2, <1>5 DEF Refresh
  <1> QED BY <1>3, <1>4, <1>5

\* The removal of superseded generations.
LEMMA PruneKeeps ==
  ASSUME IInv, Prune
  PROVE  IInv'
  <1>1. ASSUME pc = "prune",
               Ends,
               UNCHANGED <<generation, faults, dest, manifest, backup, installed,
               unrepaired, twice>>
        PROVE  IInv'
    <2>1. /\ Epoch \in Epochs /\ (installed \in Epochs => installed <= Epoch)
          /\ Running => Attached # Epoch /\ (Attached \in Epochs => Attached < Epoch)
      BY <1>1, EpochTyped DEF IInv
    <2>2. /\ pc' = "rest" /\ job' = Idle /\ queue' = Tail(queue) /\ newest' = newest /\ closing' = closing
          /\ earlier' = earlier /\ late' = late
      BY <1>1 DEF Ends, session
    <2>3. Typed'
      BY <1>1, <2>2 DEF IInv, Typed, TypeOK, JobTyped, Contexts, Idle, Staged
    <2>4. Ordered'
      BY <1>1, <2>2, EndsOrdered DEF IInv, Staged
    <2>5. Staged'
      BY <2>2 DEF IInv, Staged, Running
    <2>6. Reconciled'
      BY <2>2 DEF Reconciled, Reconciling, Disturbed
    <2>7. ManifestRight'
      BY <1>1, <2>1, <2>2 DEF IInv, ManifestRight, Attached, Staged, Running, Working
    <2>8. GenerationsRight'
      BY <1>1, <2>2 DEF IInv, GenerationsRight, Reconciling, Working, Failed, Running,
         Epoch, Attached
    <2>9. PointersRight'
      BY <1>1, <2>1, <2>2, HostAssumption, Distinct DEF IInv, PointersRight, Attached,
         Reconciling, ManifestRight, Epoch, Stale
    <2>10. EntriesRight'
      BY <1>1, <2>2 DEF IInv, EntriesRight, Whole, Stale, JobTyped
    <2> QED BY <2>3, <2>4, <2>5, <2>6, <2>7, <2>8, <2>9, <2>10 DEF IInv
  <1>2. ASSUME NEW e \in job.todo,
               pc = "prune",
               generation' = [generation EXCEPT ![e] = "none"],
               Goes("prune", job.todo \ {e}),
               UNCHANGED <<dest, manifest, backup, installed, calls, unrepaired, twice>>
        PROVE  IInv'
    <2>1. /\ Epoch \in Epochs /\ (installed \in Epochs => installed <= Epoch)
          /\ Running => Attached # Epoch /\ (Attached \in Epochs => Attached < Epoch)
      BY <1>2, EpochTyped DEF IInv
    <2>2. job.todo \ {e} \in SUBSET (Entries \cup Epochs)
      BY DEF IInv, Typed, JobTyped
    <2>3. pc' = "prune" /\ job'.todo = job.todo \ {e} /\ SameJob /\ JobTyped' /\ faults' \in 0 .. MaxFaults
      BY <1>2, <2>2, Moves DEF IInv
    <2>4. Typed'
      BY <1>2, <2>3 DEF IInv, calls, session, Typed, TypeOK, Staged
    <2>5. Ordered'
      BY <1>2 DEF IInv, calls, session, Ordered
    <2>6. Staged'
      BY <1>2, <2>1, <2>3 DEF IInv, calls, session, Staged, Running, Idle, Epoch, TypeOK
    <2>7. Reconciled'
      BY <2>3 DEF Reconciled, Reconciling, Disturbed
    <2>8. ManifestRight'
      BY <1>2, <2>3, HostAssumption DEF IInv, calls, session, ManifestRight, Running,
         Working, Epoch, SameJob, Typed
    <2>9. GenerationsRight'
      BY <1>2, <2>3, HostAssumption DEF IInv, calls, session, GenerationsRight, Attached, Reconciling,
         Failed, Staged, TypeOK, JobTyped
    <2>10. PointersRight'
      BY <1>2, <2>1, <2>3, HostAssumption, Distinct DEF IInv, calls, session,
         PointersRight, Attached, Reconciling, Staged, Running, Reconciled,
         GenerationsRight, ManifestRight, Working, Failed, Epoch, Before, Stale, SameJob,
         Typed, TypeOK, JobTyped, Disturbed
    <2>11. EntriesRight'
      BY <1>2, <2>1, <2>3 DEF IInv, calls, session, EntriesRight, Whole, Staged, Attached,
         Working, Epoch, Before, SameJob, Typed
    <2> QED BY <2>4, <2>5, <2>6, <2>7, <2>8, <2>9, <2>10, <2>11 DEF IInv
  <1>3. ASSUME NEW e \in job.todo,
               pc = "prune",
               generation' = [generation EXCEPT ![e] = "part"],
               faults > 0,
               faults' = faults - 1,
               Ends,
               UNCHANGED <<dest, manifest, backup, installed, unrepaired, twice>>
        PROVE  IInv'
    <2>1. /\ Epoch \in Epochs /\ (installed \in Epochs => installed <= Epoch)
          /\ Running => Attached # Epoch /\ (Attached \in Epochs => Attached < Epoch)
      BY <1>3, EpochTyped DEF IInv
    <2>2. /\ pc' = "rest" /\ job' = Idle /\ queue' = Tail(queue) /\ newest' = newest /\ closing' = closing
          /\ earlier' = earlier /\ late' = late
      BY <1>3 DEF Ends, session
    <2>3. Typed'
      BY <1>3, <2>2, HostAssumption DEF IInv, Typed, TypeOK, JobTyped, Contexts, Idle,
         Staged
    <2>4. Ordered'
      BY <1>3, <2>2, EndsOrdered DEF IInv, Staged
    <2>5. Staged'
      BY <2>2 DEF IInv, Staged, Running
    <2>6. Reconciled'
      BY <2>2 DEF Reconciled, Reconciling, Disturbed
    <2>7. ManifestRight'
      BY <1>3, <2>1, <2>2 DEF IInv, ManifestRight, Attached, Staged, Running, Working
    <2>8. GenerationsRight'
      BY <1>3, <2>2, HostAssumption DEF IInv, GenerationsRight, Reconciling, Failed,
         Running, Staged, Epoch, Typed, TypeOK, Attached
    <2>9. PointersRight'
      BY <1>3, <2>1, <2>2 DEF IInv, PointersRight, Attached, Reconciling, Staged,
         ManifestRight
    <2>10. EntriesRight'
      BY <1>3, <2>2, Distinct DEF IInv, EntriesRight, Whole, Reconciled, Attached, Before,
         Typed, JobTyped, Disturbed
    <2> QED BY <2>3, <2>4, <2>5, <2>6, <2>7, <2>8, <2>9, <2>10 DEF IInv
  <1> QED BY <1>1, <1>2, <1>3, HostAssumption, Distinct DEF Prune

\* The rollback's removal of what was published.
LEMMA DiscardKeeps ==
  ASSUME IInv, Discard
  PROVE  IInv'
  <1>1. ASSUME NEW x \in First(job.todo),
               pc = "discard",
               dest' = [dest EXCEPT ![x] = None],
               Goes("discard", job.todo \ {x}),
               UNCHANGED <<generation, manifest, backup, installed, calls, unrepaired, twice>>
        PROVE  IInv'
    <2>1. /\ Epoch \in Epochs /\ (installed \in Epochs => installed <= Epoch)
          /\ Running => Attached # Epoch /\ (Attached \in Epochs => Attached < Epoch)
      BY <1>1, EpochTyped DEF IInv
    <2>2. job.todo \ {x} \in SUBSET (Entries \cup Epochs)
      BY DEF IInv, Typed, JobTyped
    <2>3. pc' = "discard" /\ job'.todo = job.todo \ {x} /\ SameJob /\ JobTyped' /\ faults' \in 0 .. MaxFaults
      BY <1>1, <2>2, Moves DEF IInv
    <2>4. Typed'
      BY <1>1, <2>3, TailTyped, NoneTyped DEF IInv, calls, session, Typed, TypeOK, Staged,
         SameJob, First
    <2>5. Ordered'
      BY <1>1, <2>1 DEF IInv, calls, session, Ordered
    <2>6. Staged'
      BY <1>1, <2>3 DEF IInv, calls, session, Staged, Running, Idle, Epoch
    <2>7. Reconciled'
      BY <1>1, <2>3, HostAssumption DEF IInv, Reconciled, Reconciling, Running, Before,
         RollbackTodo, SameJob, First, Typed, Disturbed
    <2>8. ManifestRight'
      BY <1>1, <2>3 DEF IInv, calls, session, ManifestRight, Attached, Running, Working,
         Failed, Epoch, SameJob
    <2>9. GenerationsRight'
      BY <1>1, <2>3, HostAssumption, Distinct DEF IInv, calls, session, GenerationsRight,
         Reconciling, Working, Failed, Running, SameJob, Epoch, TypeOK, Attached
    <2>10. PointersRight'
      BY <1>1, <2>3, HostAssumption, Distinct DEF IInv, calls, session, PointersRight,
         Attached, Reconciling, Running, Reconciled, GenerationsRight, ManifestRight,
         Working, Epoch, Before, SameJob, First, Typed, TypeOK, JobTyped, Disturbed
    <2>11. EntriesRight'
      BY <1>1, <2>1, <2>3 DEF IInv, EntriesRight, Whole, Kept, Staged, Running,
         ManifestRight, Stale, RollbackTodo, SameJob, First, Typed, JobTyped
    <2> QED BY <2>4, <2>5, <2>6, <2>7, <2>8, <2>9, <2>10, <2>11 DEF IInv
  <1>2. ASSUME pc = "discard",
               FailsAgain("undo"),
               UNCHANGED <<dest, generation, manifest, backup, installed, calls>>
        PROVE  IInv'
    <2>1. pc' = "undo" /\ job'.todo = {} /\ SameJob /\ JobTyped' /\ faults' \in 0 .. MaxFaults /\ unrepaired' /\ twice'
      BY <1>2, Moves DEF IInv, FailsAgain
    <2>2. Typed'
      BY <1>2, <2>1, NoneTyped DEF IInv, calls, session, Typed, TypeOK, Staged, SameJob
    <2>3. Ordered'
      BY <1>2 DEF IInv, calls, session, Ordered
    <2>4. Staged'
      BY <1>2, <2>1 DEF IInv, calls, session, Staged, Running, RollbackTodo, Epoch
    <2>5. Reconciled'
      BY <2>1 DEF Reconciled, Reconciling, Disturbed
    <2>6. ManifestRight'
      BY <2>1 DEF ManifestRight
    <2>7. GenerationsRight'
      BY <2>1 DEF GenerationsRight, Reconciling, Attached
    <2>8. PointersRight'
      BY <2>1 DEF PointersRight, Reconciled, Disturbed
    <2>9. EntriesRight'
      BY <2>1 DEF EntriesRight, Working, SameJob, Typed
    <2> QED BY <2>2, <2>3, <2>4, <2>5, <2>6, <2>7, <2>8, <2>9 DEF IInv
  <1>3. ASSUME NEW S \in SUBSET Entries,
               pc = "discard",
               job.todo = {},
               S \in IF job.republish THEN Listings(job.previous)
                              ELSE {{x \in Entries : backup[x] # None}},
               Goes("restore", S),
               UNCHANGED <<dest, generation, manifest, backup, installed, calls,
               unrepaired, twice>>
        PROVE  IInv'
    <2>1. /\ Epoch \in Epochs /\ (installed \in Epochs => installed <= Epoch)
          /\ Running => Attached # Epoch /\ (Attached \in Epochs => Attached < Epoch)
      BY <1>3, EpochTyped DEF IInv
    <2>2. S \in SUBSET (Entries \cup Epochs)
      OBVIOUS
    <2>3. pc' = "restore" /\ job'.todo = S /\ SameJob /\ JobTyped' /\ faults' \in 0 .. MaxFaults
      BY <1>3, <2>2, Moves, HostAssumption DEF IInv, Typed
    <2>4. Typed'
      BY <1>3, <2>1, <2>3, PublishedTyped DEF IInv, calls, session, Typed, TypeOK, Idle,
         Staged, Reconciled, Reconciling, Disturbed
    <2>5. Ordered'
      BY <1>3 DEF IInv, calls, session, Ordered
    <2>6. Staged'
      BY <1>3, <2>3 DEF IInv, calls, session, Staged, Running, Epoch, JobTyped
    <2>7. Reconciled'
      BY <1>3, <2>3, Distinct DEF IInv, calls, session, Reconciled, Reconciling, Epoch,
         Before, Stale, SameJob, Listings, Typed, Disturbed
    <2>8. ManifestRight'
      BY <1>3, <2>3, Distinct DEF IInv, calls, session, ManifestRight, Attached, Staged,
         Running, Working, Failed, Epoch, SameJob, Typed
    <2>9. GenerationsRight'
      BY <1>3, <2>3, Distinct DEF IInv, calls, session, GenerationsRight, Reconciling,
         Working, Failed, Running, SameJob, Epoch, Typed, JobTyped, Attached
    <2>10. PointersRight'
      <3>1. ~twice /\ closing # "closed" =>
              \A x \in Entries, e \in Epochs : dest[x] = Pointer(e) =>
                 /\ generation[e] = "whole" /\ x \in Contents[e]
                 /\ e = Attached \/ (e = Epoch /\ x \in job.done /\ x \in Before /\ job.republish)
        BY <1>3 DEF IInv, PointersRight
      <3>2. ASSUME ~twice, closing # "closed", job.republish
            PROVE  S = Before
        <4>1. job.previous = Attached /\ job.previous \in Epochs
          BY <1>3, <3>2 DEF IInv, Reconciled, Reconciling, ManifestRight, Working, Failed,
             Running, Disturbed
        <4>2. generation[Attached] # "none"
          BY <1>3, <3>2, <4>1, HostAssumption DEF IInv, GenerationsRight, Reconciling
        <4>3. generation[Attached] # "part"
          <5>1. \A e \in Epochs : ~(e < e)
            BY HostAssumption
          <5> QED BY <1>3, <3>2, <4>1, <5>1 DEF IInv, GenerationsRight, Failed
        <4>4. generation[Attached] = "whole"
          BY <4>1, <4>2, <4>3 DEF IInv, Typed, TypeOK
        <4> QED BY <1>3, <3>2, <4>1, <4>4, HostAssumption DEF Listings, Before
      <3>3. ~twice => \A x \in Entries, e \in Epochs :
              backup[x] # Pointer(e) /\ (dest[x] = Pointer(e) => generation[e] = "whole")
        BY <1>3 DEF IInv, PointersRight, Reconciling
      <3>4. Epoch' = Epoch /\ Attached' = Attached /\ job'.done = job.done /\ job'.republish = job.republish
        BY <1>3, <2>3 DEF Epoch, Attached, calls, session, SameJob
      <3>5. Epoch # Attached
        BY <1>3, <2>1, HostAssumption DEF IInv, Staged, Running, Attached
      <3>6. ASSUME ~twice, closing # "closed", NEW x \in Entries, NEW e \in Epochs,
                   dest[x] = Pointer(e)
            PROVE  /\ generation[e] = "whole" /\ x \in Contents[e]
                   /\ e = Attached \/ (e = Epoch /\ x \in job.done)
                   /\ e = Epoch => x \in S /\ job.republish
        BY <3>1, <3>2, <3>5, <3>6
      <3> QED BY <1>3, <2>3, <3>3, <3>4, <3>6 DEF PointersRight, calls, session
    <2>11. EntriesRight'
      BY <1>3, <2>1, <2>3, HostAssumption, Distinct DEF IInv, calls, session,
         EntriesRight, Whole, Kept, Reconciling, Staged, Running, ManifestRight,
         GenerationsRight, Attached, Working, Failed, Before, RollbackTodo, Listings,
         SameJob, Typed, TypeOK, JobTyped
    <2> QED BY <2>4, <2>5, <2>6, <2>7, <2>8, <2>9, <2>10, <2>11 DEF IInv
  <1>4. CASE job.todo # {}
    BY <1>1, <1>2, <1>4 DEF Discard
  <1>5. CASE job.todo = {}
    <2>1. PICK S \in IF job.republish THEN Listings(job.previous)
                     ELSE {{x \in Entries : backup[x] # None}} : Goes("restore", S)
      BY <1>5 DEF Discard
    <2>2. job.republish => job.previous \in Epochs
      BY DEF IInv, Reconciled, Reconciling, Discard, Disturbed
    <2>3. CASE job.republish
      <3>1. Contents[job.previous] \subseteq Entries
        BY <2>2, <2>3, HostAssumption
      <3>2. S \in SUBSET Entries
        BY <3>1 DEF Listings
      <3> QED BY <1>3, <1>5, <2>1, <3>2 DEF Discard
    <2>4. CASE ~job.republish
      <3>1. S \in SUBSET Entries
        BY <2>4
      <3> QED BY <1>3, <1>5, <2>1, <3>1 DEF Discard
    <2> QED BY <2>3, <2>4
  <1> QED BY <1>4, <1>5

\* The rollback's return of what there was.
LEMMA RestoreKeeps ==
  ASSUME IInv, Restore
  PROVE  IInv'
  <1>1. ASSUME NEW x \in First(job.todo),
               pc = "restore",
               dest' = [dest EXCEPT ![x] = IF job.republish THEN Published(job.previous, x)
                                                              ELSE backup[x]],
               Goes("restore", job.todo \ {x}),
               UNCHANGED <<generation, manifest, backup, installed, calls, unrepaired, twice>>
        PROVE  IInv'
    <2>1. /\ Epoch \in Epochs /\ (installed \in Epochs => installed <= Epoch)
          /\ Running => Attached # Epoch /\ (Attached \in Epochs => Attached < Epoch)
      BY <1>1, EpochTyped DEF IInv
    <2>2. job.todo \ {x} \in SUBSET (Entries \cup Epochs)
      BY DEF IInv, Typed, JobTyped
    <2>3. pc' = "restore" /\ job'.todo = job.todo \ {x} /\ SameJob /\ JobTyped' /\ faults' \in 0 .. MaxFaults
      BY <1>1, <2>2, Moves DEF IInv
    <2>4. Typed'
      <3>1. x \in Entries /\ (job.republish => job.previous \in Epochs)
        BY <1>1 DEF IInv, Staged, First, Reconciled, Reconciling
      <3>2. dest' \in [Entries -> Values]
        BY <1>1, <3>1, PublishedTyped DEF IInv, Typed, TypeOK
      <3> QED BY <1>1, <2>3, <3>2 DEF IInv, calls, session, Typed, TypeOK, Contexts
    <2>5. Ordered'
      BY <1>1, <2>1 DEF IInv, calls, session, Ordered
    <2>6. Staged'
      BY <1>1, <2>3 DEF IInv, calls, session, Staged, Running, Epoch
    <2>7. Reconciled'
      BY <1>1, <2>3 DEF IInv, calls, session, Reconciled, Reconciling, Staged, Epoch,
         Before, Stale, SameJob, JobTyped, Disturbed
    <2>8. ManifestRight'
      BY <1>1, <2>3 DEF IInv, calls, session, ManifestRight, Attached, Running, Working,
         Failed, Epoch, SameJob, Typed, TypeOK
    <2>9. GenerationsRight'
      BY <1>1, <2>3 DEF IInv, calls, session, GenerationsRight, Attached, Reconciling,
         Working, Failed, Running, SameJob, Epoch, Typed
    <2>10. PointersRight'
      BY <1>1, <2>1, <2>3, HostAssumption, Distinct DEF IInv, calls, session,
         PointersRight, Attached, Reconciling, Staged, Running, Reconciled,
         GenerationsRight, ManifestRight, Working, Failed, Epoch, Stale, Published,
         SameJob, First, Typed, TypeOK, JobTyped, Disturbed
    <2>11. EntriesRight'
      BY <1>1, <2>1, <2>3, HostAssumption DEF IInv, calls, session, EntriesRight, Whole,
         Kept, Reconciled, Reconciling, Running, ManifestRight, GenerationsRight,
         Attached, Working, Failed, Epoch, Stale, Published, SameJob, First, Typed,
         TypeOK, Disturbed
    <2> QED BY <2>4, <2>5, <2>6, <2>7, <2>8, <2>9, <2>10, <2>11 DEF IInv
  <1>2. ASSUME NEW x \in First(job.todo), NEW v \in Values,
               pc = "restore",
               dest' = [dest EXCEPT ![x] = v],
               FailsAgain("undo"),
               UNCHANGED <<generation, manifest, backup, installed, calls>>
        PROVE  IInv'
    <2>1. /\ Epoch \in Epochs /\ (installed \in Epochs => installed <= Epoch)
          /\ Running => Attached # Epoch /\ (Attached \in Epochs => Attached < Epoch)
      BY <1>2, EpochTyped DEF IInv
    <2>2. pc' = "undo" /\ job'.todo = {} /\ SameJob /\ JobTyped' /\ faults' \in 0 .. MaxFaults /\ unrepaired' /\ twice'
      BY <1>2, Moves DEF IInv, FailsAgain
    <2>3. Typed'
      BY <1>2, <2>1, <2>2, HostAssumption, Distinct, TailTyped, PublishedTyped, NoneTyped
         DEF IInv, calls, session, Typed, TypeOK, JobTyped, Contexts, Idle, Staged,
         SameJob, First, Reconciled, Reconciling, Disturbed
    <2>4. Ordered'
      BY <1>2 DEF IInv, calls, session, Ordered
    <2>5. Staged'
      BY <1>2, <2>2 DEF IInv, calls, session, Staged, Running, Epoch, JobTyped
    <2>6. Reconciled'
      BY <2>2 DEF Reconciled, Reconciling, Disturbed
    <2>7. ManifestRight'
      BY <2>2 DEF ManifestRight
    <2>8. GenerationsRight'
      BY <2>2 DEF GenerationsRight, Reconciling, Attached
    <2>9. PointersRight'
      BY <2>2 DEF PointersRight, First
    <2>10. EntriesRight'
      BY <2>2, Distinct DEF EntriesRight, Kept, GenerationsRight, Attached
    <2> QED BY <2>3, <2>4, <2>5, <2>6, <2>7, <2>8, <2>9, <2>10 DEF IInv
  <1>3. ASSUME pc = "restore",
               job.todo = {},
               Goes("unwrite", {}),
               UNCHANGED <<dest, generation, manifest, backup, installed, calls,
               unrepaired, twice>>
        PROVE  IInv'
    <2>1. /\ Epoch \in Epochs /\ (installed \in Epochs => installed <= Epoch)
          /\ Running => Attached # Epoch /\ (Attached \in Epochs => Attached < Epoch)
      BY <1>3, EpochTyped DEF IInv
    <2>2. pc' = "unwrite" /\ job'.todo = {} /\ SameJob /\ JobTyped' /\ faults' \in 0 .. MaxFaults
      BY <1>3, Moves DEF IInv
    <2>3. Typed'
      BY <1>3, <2>2, NoneTyped DEF IInv, calls, session, Typed, TypeOK, Staged, Reconciling
    <2>4. Ordered'
      BY <1>3 DEF IInv, calls, session, Ordered
    <2>5. Staged'
      BY <1>3, <2>2, Distinct DEF IInv, calls, session, Staged, Running, Idle, Epoch
    <2>6. Reconciled'
      BY <1>3, <2>2, HostAssumption, Distinct DEF IInv, calls, session, Reconciled,
         Reconciling, Staged, Running, Epoch, Before, Stale, SameJob, Disturbed
    <2>7. ManifestRight'
      BY <1>3, <2>1, <2>2, HostAssumption DEF IInv, calls, session, ManifestRight,
         Attached, Running, Working, Failed, Epoch, SameJob, Typed, TypeOK
    <2>8. GenerationsRight'
      BY <1>3, <2>2, HostAssumption DEF IInv, calls, session, GenerationsRight, Attached,
         Reconciling, Working, Failed, Running, ManifestRight, SameJob, Epoch, JobTyped
    <2>9. PointersRight'
      BY <1>3, <2>1, <2>2 DEF IInv, calls, session, PointersRight, Attached, Reconciling, Staged,
         Reconciled, Stale, Disturbed
    <2>10. EntriesRight'
      BY <1>3, <2>1, <2>2, HostAssumption, Distinct DEF IInv, calls, session,
         EntriesRight, Whole, Kept, Reconciled, Reconciling, Staged, Running,
         ManifestRight, GenerationsRight, Attached, Working, Failed, Epoch, Before, Stale,
         SameJob, Typed, TypeOK, JobTyped, Disturbed
    <2> QED BY <2>3, <2>4, <2>5, <2>6, <2>7, <2>8, <2>9, <2>10 DEF IInv
  <1>4. CASE job.todo = {}
    BY <1>3, <1>4 DEF Restore
  <1>5. CASE job.todo # {}
    <2>1. First(job.todo) \subseteq Entries /\ (job.republish => job.previous \in Epochs)
      BY DEF IInv, Staged, Reconciled, Reconciling, Restore, First, Disturbed
    <2>2. PICK x \in First(job.todo) :
            \/ /\ dest' = [dest EXCEPT ![x] = IF job.republish THEN Published(job.previous, x)
                                                              ELSE backup[x]]
               /\ Goes("restore", job.todo \ {x}) /\ UNCHANGED <<unrepaired, twice>>
            \/ /\ FailsAgain("undo")
               /\ IF job.republish THEN PublishFails(job.previous, x) ELSE UNCHANGED dest
      BY <1>5 DEF Restore
    <2>3. CASE FailsAgain("undo")
      <3>1. \E v \in Values : dest' = [dest EXCEPT ![x] = v]
        <4>1. CASE UNCHANGED dest
          BY <2>1, <4>1 DEF IInv, Typed, TypeOK
        <4>2. CASE job.republish /\ PublishFails(job.previous, x)
          BY <2>1, <4>2, Failures DEF IInv
        <4>3. CASE Goes("restore", job.todo \ {x})
          BY <2>3, <4>3 DEF FailsAgain, FailsTo, Goes
        <4> QED BY <2>2, <4>1, <4>2, <4>3
      <3> QED BY <1>2, <2>3, <3>1 DEF Restore
    <2> QED BY <1>1, <2>2, <2>3 DEF Restore
  <1> QED BY <1>4, <1>5

\* The rollback of the manifest.
LEMMA UnwriteKeeps ==
  ASSUME IInv, Unwrite
  PROVE  IInv'
  <1>1. ASSUME pc = "unwrite",
               manifest' = IF manifest = Epoch THEN job.previous ELSE manifest,
               backup' = Nothing,
               Goes("undo", {}),
               UNCHANGED <<dest, generation, installed, calls, unrepaired, twice>>
        PROVE  IInv'
    <2>1. pc' = "undo" /\ job'.todo = {} /\ SameJob /\ JobTyped' /\ faults' \in 0 .. MaxFaults
      BY <1>1, Moves DEF IInv
    <2>2. Typed'
      BY <1>1, <2>1, HostAssumption, Distinct, NoneTyped DEF IInv, calls, session, Typed,
         TypeOK, JobTyped, Contexts, Idle, SameJob
    <2>3. Ordered'
      BY <1>1 DEF IInv, calls, session, Ordered
    <2>4. Staged'
      BY <1>1, <2>1 DEF IInv, calls, session, Staged, Running, Epoch, Typed
    <2>5. Reconciled'
      BY <2>1 DEF Reconciled, Reconciling, Disturbed
    <2>6. ManifestRight'
      BY <1>1, <2>1 DEF IInv, calls, session, ManifestRight, Attached, Staged, Running, Working, Failed,
         Typed
    <2>7. GenerationsRight'
      BY <1>1, <2>1 DEF IInv, calls, session, GenerationsRight, Reconciling, Working,
         Failed, Running, Epoch, TypeOK, Attached
    <2>8. PointersRight'
      BY <1>1, <2>1, Distinct DEF IInv, calls, session, PointersRight, Attached, Reconciling, Staged,
         Working, Failed, Stale, Nothing, Typed, TypeOK, JobTyped
    <2>9. EntriesRight'
      BY <1>1, <2>1 DEF IInv, EntriesRight, Whole, Kept, Reconciling, Staged,
         ManifestRight, Before, Stale, JobTyped
    <2> QED BY <2>2, <2>3, <2>4, <2>5, <2>6, <2>7, <2>8, <2>9 DEF IInv
  <1>2. ASSUME pc = "unwrite",
               FailsAgain("undo"),
               UNCHANGED <<dest, generation, manifest, backup, installed, calls>>
        PROVE  IInv'
    <2>1. pc' = "undo" /\ job'.todo = {} /\ SameJob /\ JobTyped' /\ faults' \in 0 .. MaxFaults /\ unrepaired' /\ twice'
      BY <1>2, Moves DEF IInv, FailsAgain
    <2>2. Typed'
      BY <1>2, <2>1, NoneTyped DEF IInv, calls, session, Typed, TypeOK, Staged
    <2>3. Ordered'
      BY <1>2 DEF IInv, calls, session, Ordered
    <2>4. Staged'
      BY <1>2, <2>1 DEF IInv, calls, session, Staged, Running, Epoch
    <2>5. Reconciled'
      BY <2>1 DEF Reconciled, Reconciling, Disturbed
    <2>6. ManifestRight'
      BY <2>1 DEF ManifestRight
    <2>7. GenerationsRight'
      BY <2>1 DEF GenerationsRight, Reconciling, Attached
    <2>8. PointersRight'
      BY <2>1 DEF PointersRight
    <2>9. EntriesRight'
      BY <2>1 DEF EntriesRight, Working, Typed
    <2> QED BY <2>2, <2>3, <2>4, <2>5, <2>6, <2>7, <2>8, <2>9 DEF IInv
  <1> QED BY <1>1, <1>2 DEF Unwrite

\* The start of the second publication of the installed epoch.
LEMMA UndoKeeps ==
  ASSUME IInv, Undo
  PROVE  IInv'
  <1>1. ASSUME NEW S \in SUBSET Entries,
               pc = "undo",
               installed \in Epochs,
               generation[installed] # "none",
               S \in Listings(installed),
               Goes("repoint", S),
               UNCHANGED <<bundle, installed, calls, unrepaired, twice>>
        PROVE  IInv'
    <2>1. /\ Epoch \in Epochs /\ (installed \in Epochs => installed <= Epoch)
          /\ Running => Attached # Epoch /\ (Attached \in Epochs => Attached < Epoch)
      BY <1>1, EpochTyped DEF IInv
    <2>2. pc' = "repoint" /\ job'.todo = S /\ SameJob /\ JobTyped' /\ faults' \in 0 .. MaxFaults
      BY <1>1, Moves DEF IInv
    <2>3. Typed'
      BY <1>1, <2>1, <2>2, PublishedTyped DEF IInv, calls, session, bundle, Typed, TypeOK,
         JobTyped, Contexts
    <2>4. Ordered'
      BY <1>1 DEF IInv, calls, session, Ordered
    <2>5. Staged'
      BY <1>1, <2>2 DEF IInv, calls, session, Staged, Running, Listings, Epoch
    <2>6. Reconciled'
      BY <2>2 DEF Reconciled, Reconciling, Disturbed
    <2>7. ManifestRight'
      BY <1>1, <2>1, <2>2, HostAssumption, Distinct DEF IInv, calls, session, bundle,
         ManifestRight, Attached, Failed, Epoch, TypeOK, JobTyped
    <2>8. GenerationsRight'
      BY <1>1, <2>1, <2>2 DEF IInv, calls, session, bundle, GenerationsRight, Attached,
         Reconciling, Working, Failed, Running, ManifestRight, Epoch, Typed, JobTyped
    <2>9. PointersRight'
      BY <1>1, <2>1, <2>2, HostAssumption, Distinct DEF IInv, calls, session, bundle,
         PointersRight, Attached, Reconciling, ManifestRight, Failed, Epoch, SameJob,
         Typed
    <2>10. EntriesRight'
      BY <1>1, <2>2, HostAssumption DEF IInv, bundle, EntriesRight, Whole, Kept,
         Reconciling, Staged, Running, ManifestRight, GenerationsRight, Failed, Epoch,
         Listings, JobTyped, Attached
    <2> QED BY <2>3, <2>4, <2>5, <2>6, <2>7, <2>8, <2>9, <2>10 DEF IInv
  <1>2. ASSUME pc = "undo",
               Goes("drop", {}),
               UNCHANGED <<bundle, installed, calls, unrepaired, twice>>
        PROVE  IInv'
    <2>1. /\ Epoch \in Epochs /\ (installed \in Epochs => installed <= Epoch)
          /\ Running => Attached # Epoch /\ (Attached \in Epochs => Attached < Epoch)
      BY <1>2, EpochTyped DEF IInv
    <2>2. pc' = "drop" /\ job'.todo = {} /\ SameJob /\ JobTyped' /\ faults' \in 0 .. MaxFaults
      BY <1>2, Moves DEF IInv
    <2>3. Typed'
      BY <1>2, <2>2, TailTyped DEF IInv, calls, session, bundle, Typed, TypeOK, Contexts
    <2>4. Ordered'
      BY <1>2 DEF IInv, calls, session, Ordered
    <2>5. Staged'
      BY <1>2, <2>2 DEF IInv, calls, session, Staged, Running, Epoch, JobTyped
    <2>6. Reconciled'
      BY <2>2 DEF Reconciled, Reconciling, Disturbed
    <2>7. ManifestRight'
      BY <1>2, <2>1, <2>2, HostAssumption DEF IInv, calls, session, bundle, ManifestRight,
         Attached, Running, Failed, SameJob
    <2>8. GenerationsRight'
      BY <1>2, <2>2, HostAssumption, Distinct DEF IInv, calls, session, bundle,
         GenerationsRight, Attached, Reconciling, Working, Failed, Running, ManifestRight,
         Epoch
    <2>9. PointersRight'
      BY <1>2, <2>1, <2>2, HostAssumption DEF IInv, calls, session, bundle, PointersRight, Attached,
         Reconciling, Staged, ManifestRight, Epoch, Stale, SameJob, TypeOK, JobTyped
    <2>10. EntriesRight'
      BY <1>2, <2>1, <2>2 DEF IInv, bundle, EntriesRight, Whole, Kept, Staged, Attached,
         Stale
    <2> QED BY <2>3, <2>4, <2>5, <2>6, <2>7, <2>8, <2>9, <2>10 DEF IInv
  <1> QED BY <1>1, <1>2, HostAssumption, Distinct DEF Undo, Listings

\* The second publication itself.
LEMMA RepointKeeps ==
  ASSUME IInv, Repoint
  PROVE  IInv'
  <1>1. ASSUME NEW x \in First(job.todo),
               pc = "repoint",
               dest' = [dest EXCEPT ![x] = Published(installed, x)],
               Goes("repoint", job.todo \ {x}),
               UNCHANGED <<generation, manifest, backup, installed, calls, unrepaired, twice>>
        PROVE  IInv'
    <2>1. /\ Epoch \in Epochs /\ (installed \in Epochs => installed <= Epoch)
          /\ Running => Attached # Epoch /\ (Attached \in Epochs => Attached < Epoch)
      BY <1>1, EpochTyped DEF IInv
    <2>2. job.todo \ {x} \in SUBSET (Entries \cup Epochs)
      BY DEF IInv, Typed, JobTyped
    <2>3. pc' = "repoint" /\ job'.todo = job.todo \ {x} /\ SameJob /\ JobTyped' /\ faults' \in 0 .. MaxFaults
      BY <1>1, <2>2, Moves DEF IInv
    <2>4. Typed'
      BY <1>1, <2>1, <2>3, HostAssumption, Distinct, TailTyped, PublishedTyped DEF IInv,
         calls, session, Typed, TypeOK, JobTyped, Idle, Staged, First
    <2>5. Ordered'
      BY <1>1 DEF IInv, calls, session, Ordered
    <2>6. Staged'
      BY <1>1, <2>1, <2>3 DEF IInv, calls, session, Staged, Running, Epoch
    <2>7. Reconciled'
      BY <2>3 DEF Reconciled, Reconciling, Disturbed
    <2>8. ManifestRight'
      BY <1>1, <2>3 DEF IInv, ManifestRight, Attached, Staged, Failed
    <2>9. GenerationsRight'
      BY <1>1, <2>3 DEF IInv, calls, session, GenerationsRight, Reconciling, Working,
         Failed, Running, ManifestRight, Staged, Epoch, Attached
    <2>10. PointersRight'
      BY <1>1, <2>1, <2>3, HostAssumption, Distinct DEF IInv, calls, session,
         PointersRight, Attached, Reconciling, Staged, Running, Reconciled,
         GenerationsRight, ManifestRight, Working, Failed, Epoch, Before, Stale,
         Published, SameJob, First, Typed, TypeOK, JobTyped, Disturbed
    <2>11. EntriesRight'
      BY <1>1, <2>1, <2>3, HostAssumption, Distinct DEF IInv, EntriesRight, Whole,
         Reconciled, Reconciling, Staged, Running, ManifestRight, GenerationsRight,
         Attached, Published, SameJob, First, Typed, TypeOK, JobTyped, Disturbed
    <2> QED BY <2>4, <2>5, <2>6, <2>7, <2>8, <2>9, <2>10, <2>11 DEF IInv
  <1>2. ASSUME NEW x \in First(job.todo), NEW v \in Values,
               pc = "repoint",
               dest' = [dest EXCEPT ![x] = v],
               faults > 0,
               faults' = faults - 1,
               unrepaired' = TRUE,
               twice' = TRUE,
               Ends,
               UNCHANGED <<generation, manifest, backup, installed>>
        PROVE  IInv'
    <2>1. /\ pc' = "rest" /\ job' = Idle /\ queue' = Tail(queue) /\ newest' = newest /\ closing' = closing
          /\ earlier' = earlier /\ late' = late
      BY <1>2 DEF Ends, session
    <2>2. Typed'
      <3>1. dest' \in [Entries -> Values]
        BY <1>2 DEF IInv, Typed, TypeOK
      <3>2. faults \in Nat /\ faults <= MaxFaults /\ faults' \in 0 .. MaxFaults
        BY <1>2, HostAssumption DEF IInv, Typed, TypeOK
      <3>3. queue' \in Seq(Epochs)
        BY <1>2, <2>1, TailTyped DEF IInv, Typed, TypeOK, Staged
      <3>4. JobTyped'
        BY <2>1 DEF JobTyped, Idle
      <3> QED BY <1>2, <2>1, <3>1, <3>2, <3>3, <3>4 DEF IInv, Typed, TypeOK, Contexts
    <2>3. Ordered'
      BY <1>2, <2>1, EndsOrdered DEF IInv, Staged
    <2>4. Staged'
      BY <2>1 DEF IInv, Staged, Running
    <2>5. Reconciled'
      BY <2>1 DEF Reconciled, Reconciling, Disturbed
    <2>6. ManifestRight'
      BY <1>2, <2>1 DEF ManifestRight
    <2>7. GenerationsRight'
      BY <1>2, <2>1 DEF GenerationsRight, Attached, Reconciling, ManifestRight
    <2>8. PointersRight'
      BY <1>2 DEF PointersRight
    <2>9. EntriesRight'
      BY <1>2 DEF EntriesRight, Running
    <2> QED BY <2>2, <2>3, <2>4, <2>5, <2>6, <2>7, <2>8, <2>9 DEF IInv
  <1>3. ASSUME pc = "repoint",
               job.todo = {},
               Goes("drop", {}),
               UNCHANGED <<bundle, installed, calls, unrepaired, twice>>
        PROVE  IInv'
    <2>1. /\ Epoch \in Epochs /\ (installed \in Epochs => installed <= Epoch)
          /\ Running => Attached # Epoch /\ (Attached \in Epochs => Attached < Epoch)
      BY <1>3, EpochTyped DEF IInv
    <2>2. pc' = "drop" /\ job'.todo = {} /\ SameJob /\ JobTyped' /\ faults' \in 0 .. MaxFaults
      BY <1>3, Moves DEF IInv
    <2>3. Typed'
      BY <1>3, <2>2, Distinct, NoneTyped DEF IInv, calls, session, bundle, Typed, TypeOK,
         Contexts, Idle, SameJob
    <2>4. Ordered'
      BY <1>3 DEF IInv, calls, session, Ordered
    <2>5. Staged'
      BY <1>3, <2>1, <2>2 DEF IInv, calls, session, Staged, Running, Epoch
    <2>6. Reconciled'
      BY <2>2 DEF Reconciled, Reconciling, Disturbed
    <2>7. ManifestRight'
      BY <1>3, <2>1, <2>2 DEF IInv, bundle, ManifestRight, Attached, Staged, Running,
         Failed, JobTyped
    <2>8. GenerationsRight'
      BY <1>3, <2>2, Distinct DEF IInv, calls, session, bundle, GenerationsRight,
         Attached, Reconciling, Working, Failed, Running, Staged, Epoch, Typed
    <2>9. PointersRight'
      BY <1>3, <2>2, Distinct DEF IInv, bundle, PointersRight, Attached, Reconciling,
         Staged, Running, GenerationsRight, Failed, Epoch, Stale, SameJob, JobTyped
    <2>10. EntriesRight'
      BY <1>3, <2>1, <2>2, HostAssumption, Distinct DEF IInv, calls, session, bundle,
         EntriesRight, Whole, Kept, Reconciled, ManifestRight, Stale, SameJob, JobTyped,
         Disturbed
    <2> QED BY <2>3, <2>4, <2>5, <2>6, <2>7, <2>8, <2>9, <2>10 DEF IInv
  <1>4. CASE job.todo = {}
    BY <1>3, <1>4 DEF Repoint, bundle
  <1>5. CASE job.todo # {}
    <2>1. First(job.todo) \subseteq Entries /\ installed \in Epochs
      BY HostAssumption DEF IInv, Staged, Repoint, First
    <2>2. PICK x \in First(job.todo) :
            \/ /\ dest' = [dest EXCEPT ![x] = Published(installed, x)]
               /\ Goes("repoint", job.todo \ {x})
               /\ UNCHANGED <<calls, unrepaired, twice>>
            \/ /\ faults > 0 /\ faults' = faults - 1
               /\ unrepaired' = TRUE /\ twice' = TRUE
               /\ PublishFails(installed, x)
               /\ Ends
      BY <1>5 DEF Repoint
    <2>3. CASE PublishFails(installed, x) /\ Ends /\ faults > 0 /\ faults' = faults - 1
               /\ unrepaired' = TRUE /\ twice' = TRUE
      <3>1. \E v \in Values : dest' = [dest EXCEPT ![x] = v]
        BY <2>1, <2>3, Failures DEF IInv
      <3> QED BY <1>2, <2>3, <3>1 DEF Repoint
    <2> QED BY <1>1, <2>2, <2>3 DEF Repoint
  <1> QED BY <1>4, <1>5

\* The removal of the generation that failed.
LEMMA DropKeeps ==
  ASSUME IInv, Drop
  PROVE  IInv'
  <1>1. ASSUME pc = "drop",
               generation' = [generation EXCEPT ![Epoch] = "none"],
               Ends,
               UNCHANGED <<dest, manifest, backup, installed, faults, unrepaired, twice>>
        PROVE  IInv'
    <2>1. /\ Epoch \in Epochs /\ (installed \in Epochs => installed <= Epoch)
          /\ Running => Attached # Epoch /\ (Attached \in Epochs => Attached < Epoch)
      BY <1>1, EpochTyped DEF IInv
    <2>2. /\ pc' = "rest" /\ job' = Idle /\ queue' = Tail(queue) /\ newest' = newest /\ closing' = closing
          /\ earlier' = earlier /\ late' = late
      BY <1>1 DEF Ends, session
    <2>3. Typed'
      BY <1>1, <2>1, <2>2, Distinct, PublishedTyped, NoneTyped DEF IInv, Typed, TypeOK,
         JobTyped, Idle, Staged
    <2>4. Ordered'
      BY <1>1, <2>2, EndsOrdered DEF IInv, Staged
    <2>5. Staged'
      BY <2>2 DEF IInv, Staged, Running
    <2>6. Reconciled'
      BY <2>2 DEF Reconciled, Reconciling, Disturbed
    <2>7. ManifestRight'
      BY <1>1, <2>2 DEF IInv, ManifestRight, Attached, Running, Working
    <2>8. GenerationsRight'
      BY <1>1, <2>2 DEF IInv, GenerationsRight, Attached, Reconciling, Failed, Running,
         Staged, Typed, TypeOK
    <2>9. PointersRight'
      <3>1. closing # "closed" /\ Attached # Epoch
        BY <1>1, <2>1 DEF IInv, Staged, Running
      <3>2. Attached' = Attached
        BY <1>1, <2>2 DEF Attached
      <3>3. ~twice => \A x \in Entries, e \in Epochs : dest[x] = Pointer(e) =>
               generation[e] = "whole" /\ x \in Contents[e] /\ e = Attached
        BY <1>1, <3>1 DEF IInv, PointersRight
      <3>4. ~twice => \A x \in Entries, e \in Epochs : dest[x] = Pointer(e) => generation'[e] = "whole"
        BY <1>1, <3>1, <3>3 DEF IInv, Typed, TypeOK
      <3> QED BY <1>1, <2>2, <3>2, <3>3, <3>4 DEF PointersRight, Reconciling
    <2>10. EntriesRight'
      BY <1>1, <2>2, Distinct DEF IInv, EntriesRight, Whole, Staged, Running, Stale, TypeOK
    <2> QED BY <2>3, <2>4, <2>5, <2>6, <2>7, <2>8, <2>9, <2>10 DEF IInv
  <1>2. ASSUME NEW v \in {"none", "part"},
               pc = "drop",
               generation' = [generation EXCEPT ![Epoch] = v],
               faults > 0,
               faults' = faults - 1,
               twice' = TRUE,
               Ends,
               UNCHANGED <<dest, manifest, backup, installed, unrepaired>>
        PROVE  IInv'
    <2>1. /\ Epoch \in Epochs /\ (installed \in Epochs => installed <= Epoch)
          /\ Running => Attached # Epoch /\ (Attached \in Epochs => Attached < Epoch)
      BY <1>2, EpochTyped DEF IInv
    <2>2. /\ pc' = "rest" /\ job' = Idle /\ queue' = Tail(queue) /\ newest' = newest /\ closing' = closing
          /\ earlier' = earlier /\ late' = late
      BY <1>2 DEF Ends, session
    <2>3. Typed'
      BY <1>2, <2>1, <2>2, HostAssumption DEF IInv, Typed, TypeOK, JobTyped, Idle, Staged
    <2>4. Ordered'
      BY <1>2, <2>2, EndsOrdered DEF IInv, Staged
    <2>5. Staged'
      BY <2>2 DEF IInv, Staged, Running
    <2>6. Reconciled'
      BY <2>2 DEF Reconciled, Reconciling, Disturbed
    <2>7. ManifestRight'
      BY <1>2, <2>1, <2>2 DEF IInv, ManifestRight, Attached, Staged, Running, Working, Epoch
    <2>8. GenerationsRight'
      BY <1>2, <2>2 DEF GenerationsRight, Reconciling, Attached
    <2>9. PointersRight'
      BY <1>2 DEF PointersRight
    <2>10. EntriesRight'
      BY <1>2, <2>2 DEF IInv, EntriesRight, Whole, Reconciled, Reconciling, Staged,
         Running, ManifestRight, Before, Stale, Typed, TypeOK, Disturbed
    <2> QED BY <2>3, <2>4, <2>5, <2>6, <2>7, <2>8, <2>9, <2>10 DEF IInv
  <1> QED BY <1>1, <1>2, HostAssumption, Distinct DEF Drop

\* The removal of the bundle by close().
LEMMA UninstallKeeps ==
  ASSUME IInv, Uninstall
  PROVE  IInv'
  <1>1. ASSUME closing = "waiting",
               queue = <<>>,
               closing' = "closed",
               dest' = Nothing,
               manifest' = None,
               backup' = Nothing,
               generation' = [e \in Epochs |-> "none"],
               UNCHANGED <<installed, queue, newest, earlier, late, pc, job, faults,
               unrepaired, twice>>
        PROVE  IInv'
    <2>1. Typed'
      BY <1>1, NoneTyped DEF IInv, Typed, TypeOK, JobTyped
    <2>2. Ordered'
      BY <1>1 DEF IInv, Ordered
    <2>3. Staged'
      BY <1>1 DEF IInv, Staged, Running
    <2>4. Reconciled'
      BY <1>1 DEF IInv, Reconciled, Reconciling, Staged, Disturbed
    <2>5. ManifestRight'
      BY <1>1 DEF IInv, ManifestRight, Staged
    <2>6. GenerationsRight'
      BY <1>1, Distinct DEF IInv, GenerationsRight, Reconciling, Running, Staged, Epoch,
         Attached
    <2>7. PointersRight'
      BY <1>1, Distinct DEF PointersRight, Staged, Nothing, JobTyped
    <2>8. EntriesRight'
      BY <1>1 DEF EntriesRight
    <2> QED BY <2>1, <2>2, <2>3, <2>4, <2>5, <2>6, <2>7, <2>8 DEF IInv
  <1>2. ASSUME closing = "waiting",
               queue = <<>>,
               closing' = "closed",
               UNCHANGED <<bundle, installed, queue, newest, earlier, late, pc, job,
               faults, unrepaired, twice>>
        PROVE  IInv'
    <2>1. Typed'
      BY <1>2 DEF IInv, bundle, Typed, TypeOK, JobTyped
    <2>2. Ordered'
      BY <1>2 DEF IInv, Ordered
    <2>3. Staged'
      BY <1>2 DEF IInv, Staged, Running
    <2>4. Reconciled'
      BY <1>2 DEF IInv, Reconciled, Reconciling, Staged, Disturbed
    <2>5. ManifestRight'
      BY <1>2 DEF IInv, ManifestRight, Staged
    <2>6. GenerationsRight'
      BY <1>2, Distinct DEF IInv, bundle, GenerationsRight, Attached, Reconciling,
         Working, Failed, Running, ManifestRight, Epoch, Typed
    <2>7. PointersRight'
      BY <1>2, HostAssumption, Distinct DEF IInv, bundle, PointersRight, Attached,
         Reconciling, Staged, Running, Reconciled, GenerationsRight, ManifestRight,
         Working, Failed, Epoch, Before, Stale, Typed, TypeOK, JobTyped, Disturbed
    <2>8. EntriesRight'
      BY <1>2 DEF EntriesRight
    <2> QED BY <2>1, <2>2, <2>3, <2>4, <2>5, <2>6, <2>7, <2>8 DEF IInv
  <1> QED BY <1>1, <1>2 DEF Uninstall

\* A sync is asked for.
LEMMA SyncKeeps ==
  ASSUME IInv, NEW e \in Epochs, Sync(e)
  PROVE  IInv'
  <1>1. queue \in Seq(Epochs) /\ Len(queue) \in Nat
    BY DEF IInv, Typed, TypeOK
  <1>2. /\ queue' \in Seq(Epochs) /\ queue' # <<>> /\ Len(queue') = Len(queue) + 1
        /\ queue'[Len(queue) + 1] = e
        /\ \A i \in 1 .. Len(queue) : queue'[i] = queue[i] /\ queue[i] \in Epochs
    BY <1>1 DEF Sync
  <1>3. queue # <<>> => Epoch' = Epoch
    BY <1>2 DEF Epoch
  <1>4. newest \in Nat /\ newest <= e /\ e \in Nat /\ newest' = e
    BY HostAssumption DEF Sync, IInv, Typed, TypeOK
  <1>5. /\ UNCHANGED <<bundle, installed, pc, job, closing, earlier, late, faults, unrepaired, twice>>
        /\ closing = "open"
    BY DEF Sync
  <1>6. pc # "rest" => queue # <<>>
    BY DEF IInv, Staged
  <1>7. Typed'
    BY <1>2, <1>4, <1>5 DEF IInv, bundle, Typed, TypeOK, JobTyped
  <1>8. Ordered'
    <2>1. \A i \in 1 .. Len(queue') : i \in 1 .. Len(queue) \/ (i = Len(queue) + 1 /\ queue'[i] = e)
      BY <1>2
    <2>2. \A i \in 1 .. Len(queue) : queue[i] \in Nat /\ queue[i] <= newest
      BY <1>2, HostAssumption DEF IInv, Ordered
    <2>3. \A i \in 1 .. Len(queue') : queue'[i] <= e
      BY <1>2, <1>4, <2>2
    <2>4. ASSUME NEW i \in 1 .. Len(queue'), NEW j \in 1 .. Len(queue'), i <= j
          PROVE  queue'[i] <= queue'[j]
      <3>1. CASE j = Len(queue) + 1
        BY <1>2, <2>3, <3>1
      <3>2. CASE j \in 1 .. Len(queue)
        <4>1. i \in 1 .. Len(queue)
          BY <2>4, <3>2
        <4> QED BY <1>2, <2>4, <3>2 DEF IInv, Ordered
      <3> QED BY <2>1, <3>1, <3>2
    <2>5. ASSUME installed \in Epochs
          PROVE  installed <= e /\ \A i \in 1 .. Len(queue') : installed <= queue'[i]
      <3>1. installed \in Nat /\ installed <= newest
        BY <2>5, HostAssumption DEF IInv, Ordered
      <3>2. installed <= e
        BY <1>4, <3>1
      <3> QED BY <1>2, <2>5, <3>2 DEF IInv, Ordered
    <2>6. ASSUME installed \notin Epochs, earlier # None
          PROVE  \A i \in 1 .. Len(queue') : earlier < queue'[i]
      <3>1. earlier < e
        BY <1>4, <2>6, HostAssumption DEF Sync, IInv, Typed, TypeOK
      <3> QED BY <1>2, <2>6, <3>1 DEF IInv, Ordered
    <2> QED BY <1>4, <1>5, <2>3, <2>4, <2>5, <2>6 DEF Ordered
  <1>9. Staged'
    BY <1>2, <1>3, <1>5 DEF IInv, bundle, Staged, Running
  <1>10. Reconciled'
    BY <1>3, <1>5 DEF IInv, bundle, Reconciled, Reconciling, Staged, Idle, Epoch, Before,
       Stale, RollbackTodo, TypeOK, JobTyped, Disturbed
  <1>11. ManifestRight'
    BY <1>2, <1>3, <1>5, HostAssumption DEF IInv, bundle, ManifestRight, Attached, Staged,
       Running, Working, Failed
  <1>12. GenerationsRight'
    BY <1>3, <1>5, HostAssumption DEF IInv, bundle, GenerationsRight, Reconciling,
       Working, Failed, Running, Staged, Attached
  <1>13. PointersRight'
    BY <1>3, <1>5, <1>6 DEF IInv, bundle, PointersRight, Attached, Reconciling,
       GenerationsRight, Epoch, Before, Typed, JobTyped
  <1>14. EntriesRight'
    BY <1>3, <1>5, <1>6, Distinct DEF IInv, bundle, EntriesRight, Whole, Kept, Running,
       ManifestRight, Attached, Before, Stale, TypeOK, JobTyped
  <1> QED BY <1>7, <1>8, <1>9, <1>10, <1>11, <1>12, <1>13, <1>14 DEF IInv

\* A sync that has nothing to do.
LEMMA SkipKeeps ==
  ASSUME IInv, Skip
  PROVE  IInv'
  <1>1. /\ pc = "rest" /\ queue # <<>> /\ pc' = "rest" /\ job' = Idle /\ queue' = Tail(queue)
        /\ UNCHANGED <<bundle, installed, newest, closing, earlier, late, faults, unrepaired, twice>>
    BY DEF Skip, Ends, session
  <1>2. Typed'
    BY <1>1 DEF IInv, bundle, Typed, TypeOK, JobTyped, Idle
  <1>3. Ordered'
    BY <1>1, EndsOrdered DEF IInv
  <1>4. Staged'
    BY <1>1 DEF IInv, Staged, Running
  <1>5. Reconciled'
    BY <1>1 DEF Reconciled, Reconciling, Disturbed
  <1>6. ManifestRight'
    BY <1>1, TailTyped DEF IInv, bundle, ManifestRight, Attached, Running, Working, Failed
  <1>7. GenerationsRight'
    BY <1>1, TailTyped, Distinct DEF IInv, bundle, GenerationsRight, Reconciling, Working,
       Failed, Running, Staged, Epoch, Attached
  <1>8. PointersRight'
    BY <1>1 DEF IInv, bundle, PointersRight, Attached, Reconciling, Running, Reconciled,
       GenerationsRight, ManifestRight, Disturbed
  <1>9. EntriesRight'
    BY <1>1, TailTyped, HostAssumption, Distinct DEF IInv, bundle, EntriesRight, Whole,
       Kept, Reconciled, Reconciling, Staged, Running, ManifestRight, GenerationsRight,
       Attached, Working, Failed, Epoch, Before, Stale, Typed, TypeOK, JobTyped, Disturbed
  <1> QED BY <1>2, <1>3, <1>4, <1>5, <1>6, <1>7, <1>8, <1>9 DEF IInv

\* A sync starts.
LEMMA BeginKeeps ==
  ASSUME IInv, Begin
  PROVE  IInv'
  <1>1. /\ pc = "rest" /\ queue # <<>> /\ installed # Epoch /\ job = Idle
        /\ pc' = IF installed = None THEN "install" ELSE "start"
        /\ UNCHANGED <<bundle, installed, calls, job, faults, unrepaired, twice>>
    BY DEF Begin, IInv, Staged
  <1>2. Typed'
    BY <1>1 DEF IInv, bundle, calls, session, Typed, TypeOK, JobTyped
  <1>3. Ordered'
    BY <1>1 DEF IInv, calls, session, Ordered
  <1>4. Staged'
    BY <1>1 DEF IInv, calls, session, Staged, Running, Idle, Epoch
  <1>5. Reconciled'
    BY <1>1 DEF Reconciled, Reconciling, Disturbed
  <1>6. ManifestRight'
    BY <1>1 DEF IInv, bundle, calls, session, ManifestRight, Attached, Running, Working
  <1>7. GenerationsRight'
    BY <1>1 DEF IInv, bundle, calls, session, GenerationsRight, Reconciling, Working, Failed,
       Running, Attached
  <1>8. PointersRight'
    BY <1>1, Distinct DEF IInv, bundle, calls, session, PointersRight, Attached,
       Reconciling, Failed, Before, JobTyped
  <1>9. EntriesRight'
    BY <1>1 DEF IInv, bundle, calls, session, EntriesRight, Whole, ManifestRight, Epoch,
       Stale
  <1> QED BY <1>2, <1>3, <1>4, <1>5, <1>6, <1>7, <1>8, <1>9 DEF IInv

\* The manifest is read and the way of the host chosen.
LEMMA StartKeeps ==
  ASSUME IInv, Start
  PROVE  IInv'
  <1>1. /\ pc = "start" /\ pc' \in {"generate", "reconcile"} /\ Epoch \in Epochs
        /\ late' = IF late = 0 THEN None ELSE late
        /\ UNCHANGED <<bundle, installed, queue, newest, closing, earlier, faults, unrepaired,
                       twice>>
    BY EpochTyped DEF Start, IInv
  <1>2. PICK direct \in {TRUE, ~AppServer} :
          /\ job' = [job EXCEPT !.previous = manifest, !.direct = direct]
          /\ pc' = IF direct THEN "generate" ELSE "reconcile"
    BY Zenon DEF Start
  <1>3. direct \in BOOLEAN
    BY <1>2, HostAssumption
  <1>4. /\ job'.direct = direct /\ job'.previous = manifest /\ job'.republish = job.republish
        /\ job'.backs = job.backs /\ job'.todo = job.todo /\ job'.done = job.done /\ JobTyped'
    BY <1>2, <1>3 DEF IInv, Typed, TypeOK, JobTyped
  <1>5. Typed'
    BY <1>1, <1>4 DEF IInv, bundle, calls, session, Typed, TypeOK, Contexts
  <1>6. Ordered'
    BY <1>1 DEF IInv, calls, session, Ordered
  <1>7. Staged'
    BY <1>1, <1>2 DEF IInv, calls, session, Staged, Running, Epoch, Typed, JobTyped
  <1>8. Reconciled'
    BY <1>1 DEF Reconciled, Reconciling, Disturbed
  <1>9. ManifestRight'
    BY <1>1, <1>4 DEF IInv, bundle, calls, session, ManifestRight, Attached, Staged
  <1>10. GenerationsRight'
    BY <1>1, <1>2, HostAssumption DEF IInv, bundle, GenerationsRight, Attached,
       Reconciling, Working, Failed, ManifestRight, Staged, TypeOK, JobTyped
  <1>11. PointersRight'
    BY <1>1, <1>2, HostAssumption DEF IInv, bundle, calls, session, PointersRight,
       Attached, Reconciling, Staged
  <1>12. EntriesRight'
    BY <1>1, <1>2, HostAssumption DEF IInv, bundle, EntriesRight, Whole, Kept, Staged,
       GenerationsRight, Stale, TypeOK, JobTyped, Attached
  <1> QED BY <1>5, <1>6, <1>7, <1>8, <1>9, <1>10, <1>11, <1>12 DEF IInv

\* All entries are published.
LEMMA EntriesPublishedKeeps ==
  ASSUME IInv, EntriesPublished
  PROVE  IInv'
  <1>1. /\ pc = "publish" /\ job.todo = {} /\ pc' = "write" /\ Epoch \in Epochs
        /\ UNCHANGED <<bundle, installed, calls, faults, unrepaired, twice>>
    BY EpochTyped DEF EntriesPublished, Goes, IInv
  <1>2. JobTyped' /\ SameJob /\ job'.todo = {}
    BY Moves DEF EntriesPublished, IInv
  <1>3. Typed'
    BY <1>1, <1>2 DEF IInv, bundle, calls, session, Typed, TypeOK, Staged
  <1>4. Ordered'
    BY <1>1 DEF IInv, calls, session, Ordered, JobTyped
  <1>5. Staged'
    BY <1>1, <1>2 DEF IInv, calls, session, Staged, Running, Epoch
  <1>6. Reconciled'
    BY <1>1, <1>2 DEF IInv, bundle, calls, session, SameJob, Reconciled, Reconciling,
       Running, Epoch, Before, Stale, TypeOK, Disturbed
  <1>7. ManifestRight'
    BY <1>1, <1>2 DEF IInv, bundle, calls, session, SameJob, ManifestRight, Attached,
       Running, Working, Failed
  <1>8. GenerationsRight'
    BY <1>1, <1>2, Distinct DEF IInv, bundle, calls, session, SameJob, GenerationsRight,
       Attached, Reconciling, Working, Failed, Running, Epoch
  <1>9. PointersRight'
    BY <1>1, <1>2 DEF IInv, bundle, calls, session, SameJob, PointersRight, Attached,
       Reconciling, Staged, Failed, Epoch, Before, TypeOK, JobTyped
  <1>10. EntriesRight'
    BY <1>1, <1>2, HostAssumption DEF IInv, bundle, calls, session, SameJob, EntriesRight,
       Whole, Kept, Reconciled, Reconciling, Staged, ManifestRight, GenerationsRight,
       Working, Failed, Stale, Attached, Disturbed
  <1> QED BY <1>3, <1>4, <1>5, <1>6, <1>7, <1>8, <1>9, <1>10 DEF IInv

\* close() is called.
LEMMA CloseKeeps ==
  ASSUME IInv, Close
  PROVE  IInv'
  <1>1. /\ closing = "open" /\ closing' = "waiting"
        /\ UNCHANGED <<bundle, installed, queue, newest, earlier, late, pc, job, faults, unrepaired, twice>>
    BY DEF Close
  <1>2. Typed'
    BY <1>1 DEF IInv, bundle, Typed, TypeOK, JobTyped
  <1>3. Ordered'
    BY <1>1 DEF IInv, Ordered
  <1>4. Staged'
    BY <1>1 DEF IInv, bundle, Staged, Running, Epoch
  <1>5. Reconciled'
    BY <1>1 DEF IInv, bundle, Reconciled, Reconciling, Epoch, Before, Stale, RollbackTodo,
       TypeOK, JobTyped, Disturbed
  <1>6. ManifestRight'
    BY <1>1, HostAssumption DEF IInv, bundle, ManifestRight, Attached, Running, Working,
       Failed, Epoch
  <1>7. GenerationsRight'
    BY <1>1, Distinct DEF IInv, bundle, GenerationsRight, Reconciling, Working, Failed,
       Running, Epoch, Attached
  <1>8. PointersRight'
    BY <1>1 DEF IInv, bundle, PointersRight, Attached, Reconciling, Staged, Epoch, Before,
       Typed
  <1>9. EntriesRight'
    BY <1>1, HostAssumption, Distinct DEF IInv, bundle, EntriesRight, Whole, Kept,
       Reconciled, Reconciling, Staged, Working, Epoch, Before, Stale, Disturbed
  <1> QED BY <1>2, <1>3, <1>4, <1>5, <1>6, <1>7, <1>8, <1>9 DEF IInv

\* An application server that was given up copies an entry.
LEMMA LateCopyKeeps ==
  ASSUME IInv, LateCopy
  PROVE  IInv'
  <1>1. /\ late \in Epochs /\ unrepaired' = TRUE
        /\ UNCHANGED <<generation, manifest, backup, installed, queue, newest, closing, earlier,
                       late, pc, job, faults, twice>>
    BY DEF LateCopy, calls, session
  <1>2. PICK e \in Epochs, x \in Entries : dest' = [dest EXCEPT ![x] = Copy(e)]
    BY HostAssumption DEF LateCopy
  <1>3. /\ dest' \in [Entries -> Values]
        /\ \A y \in Entries, f \in Epochs : dest'[y] = Pointer(f) => dest[y] = Pointer(f)
    BY <1>2, Distinct DEF IInv, Typed, TypeOK
  <1>4. Disturbed' /\ Attached' = Attached /\ Epoch' = Epoch
    BY <1>1, HostAssumption DEF Disturbed, Attached, Epoch
  <1>5. Typed'
    BY <1>1, <1>3 DEF IInv, Typed, TypeOK, JobTyped
  <1>6. Ordered'
    BY <1>1 DEF IInv, Ordered
  <1>7. Staged'
    BY <1>1, <1>4 DEF IInv, Staged, Running
  <1>8. Reconciled'
    BY <1>1, <1>4 DEF IInv, Reconciled, Reconciling, Before, Stale, RollbackTodo
  <1>9. ManifestRight'
    BY <1>1, <1>4 DEF IInv, ManifestRight, Working, Running, Failed
  <1>10. GenerationsRight'
    BY <1>1, <1>4 DEF IInv, GenerationsRight, Reconciling, Working, Running, Failed
  <1>11. PointersRight'
    BY <1>1, <1>3, <1>4 DEF IInv, PointersRight, Reconciling, Before
  <1>12. EntriesRight'
    BY <1>1 DEF EntriesRight
  <1> QED BY <1>5, <1>6, <1>7, <1>8, <1>9, <1>10, <1>11, <1>12 DEF IInv

\* It ends.
LEMMA LateEndsKeeps ==
  ASSUME IInv, LateEnds
  PROVE  IInv'
  <1>1. /\ late \in Epochs /\ late' = 0
        /\ UNCHANGED <<dest, generation, manifest, backup, installed, queue, newest, closing,
                       earlier, pc, job, faults, unrepaired, twice>>
    BY DEF LateEnds, bundle
  <1>2. Disturbed' = Disturbed /\ Attached' = Attached /\ Epoch' = Epoch
    BY <1>1, HostAssumption DEF Disturbed, Attached, Epoch
  <1>3. Typed'
    BY <1>1 DEF IInv, Typed, TypeOK, JobTyped
  <1>4. Ordered'
    BY <1>1 DEF IInv, Ordered
  <1>5. Staged'
    BY <1>1, <1>2 DEF IInv, Staged, Running
  <1>6. Reconciled'
    BY <1>1, <1>2 DEF IInv, Reconciled, Reconciling, Before, Stale, RollbackTodo
  <1>7. ManifestRight'
    BY <1>1, <1>2 DEF IInv, ManifestRight, Working, Running, Failed
  <1>8. GenerationsRight'
    BY <1>1, <1>2 DEF IInv, GenerationsRight, Reconciling, Working, Running, Failed
  <1>9. PointersRight'
    BY <1>1, <1>2 DEF IInv, PointersRight, Reconciling, Before
  <1>10. EntriesRight'
    BY <1>1, <1>2 DEF IInv, EntriesRight, Whole, Kept, Stale, Before
  <1> QED BY <1>3, <1>4, <1>5, <1>6, <1>7, <1>8, <1>9, <1>10 DEF IInv

\* A step that changes nothing keeps the invariant.
LEMMA StutterKeeps ==
  ASSUME IInv, UNCHANGED vars
  PROVE  IInv'
  <1>1. UNCHANGED <<dest, generation, manifest, backup, installed, queue, newest, closing, earlier, late, pc, job,
                    faults, unrepaired, twice>>
    BY DEF vars, bundle, calls, session
  <1>2. Typed'
    BY <1>1 DEF IInv, Typed, TypeOK, JobTyped
  <1>3. Ordered'
    BY <1>1 DEF IInv, Ordered
  <1>4. Staged'
    BY <1>1 DEF IInv, Staged, Running, Epoch
  <1>5. Reconciled'
    BY <1>1 DEF IInv, Reconciled, Reconciling, Running, Epoch, Before, Stale,
       RollbackTodo, Published, Disturbed
  <1>6. ManifestRight'
    BY <1>1 DEF IInv, ManifestRight, Attached, Running, Working, Failed, Epoch
  <1>7. GenerationsRight'
    BY <1>1 DEF IInv, GenerationsRight, Reconciling, Working, Failed, Running, Epoch,
       Attached
  <1>8. PointersRight'
    BY <1>1 DEF IInv, PointersRight, Attached, Reconciling, Failed, Epoch, Before, TypeOK
  <1>9. EntriesRight'
    BY <1>1 DEF IInv, EntriesRight, Whole, Kept, Reconciled, Reconciling, Running,
       GenerationsRight, Epoch, Before, Stale, TypeOK, Attached, Disturbed
  <1> QED BY <1>2, <1>3, <1>4, <1>5, <1>6, <1>7, <1>8, <1>9 DEF IInv

----------------------------------------------------------------------------
\* The initial states satisfy the invariant.
LEMMA InitOK ==
  ASSUME Init
  PROVE  IInv
  <1>1. PICK e \in Epochs \cup {None} : Left(e)
    BY DEF Init
  <1>2. /\ manifest = e /\ earlier = e /\ generation \in [Epochs -> {"none", "part", "whole"}]
        /\ installed = None /\ queue = <<>> /\ pc = "rest" /\ job = Idle /\ unrepaired = FALSE
        /\ backup = Nothing /\ None \notin Epochs
    BY <1>1, HostAssumption DEF Left, Init
  <1>3. Attached = e
    BY <1>2 DEF Attached
  <1>4. dest \in [Entries -> Values]
    BY <1>1, <1>2, NoneTyped, Distinct, PublishedTyped DEF Left
  <1>5. \A f \in Epochs : generation[f] # "none" => e \in Epochs /\ f <= e
    BY <1>1 DEF Left
  <1>6. \A f \in Epochs : generation[f] = "part" => f # e
    BY <1>1, <1>2 DEF Left
  <1>7. \A x \in Entries, f \in Epochs :
           dest[x] = Pointer(f) => f = e /\ x \in Contents[e] /\ generation[f] = "whole"
    BY <1>1, <1>2, Distinct DEF Left, Published, Nothing
  <1>8. Typed
    <2>1. queue \in Seq(Epochs) /\ faults \in 0 .. MaxFaults
      BY HostAssumption DEF Init
    <2>2. backup \in [Entries -> Values]
      BY NoneTyped DEF Init
    <2>3. JobTyped
      BY DEF Init, JobTyped, Idle
    <2> QED BY <1>2, <1>4, <2>1, <2>2, <2>3 DEF Init, Typed, TypeOK, Contexts
  <1>9. Ordered
    BY <1>2, HostAssumption DEF Init, Ordered
  <1>10. Staged
    BY DEF Init, Staged, Running
  <1>11. Reconciled
    BY DEF Init, Reconciled, Reconciling
  <1>12. ManifestRight
    BY <1>2, <1>3 DEF Init, ManifestRight, Running, Working
  <1>13. GenerationsRight
    <2>1. \A f \in Epochs : generation[f] = "part" => e \in Epochs /\ f < e
      BY <1>5, <1>6, HostAssumption
    <2> QED BY <1>2, <1>3, <1>5, <2>1 DEF GenerationsRight, Reconciling
  <1>14. PointersRight
    BY <1>2, <1>3, <1>7 DEF PointersRight, Reconciling
  <1>15. EntriesRight
    BY <1>2, HostAssumption DEF EntriesRight
  <1> QED BY <1>8, <1>9, <1>10, <1>11, <1>12, <1>13, <1>14, <1>15 DEF IInv

\* Every step keeps the invariant.
LEMMA StepKeeps ==
  ASSUME IInv, [Next]_vars
  PROVE  IInv'
  <1>1. CASE \E e \in Epochs : Sync(e)
    BY <1>1, SyncKeeps
  <1>2. CASE Close
    BY <1>2, CloseKeeps
  <1>3. CASE Skip
    BY <1>3, SkipKeeps
  <1>4. CASE Begin
    BY <1>4, BeginKeeps
  <1>5. CASE Install
    BY <1>5, InstallKeeps
  <1>6. CASE Start
    BY <1>6, StartKeeps
  <1>7. CASE Generate
    BY <1>7, GenerateKeeps
  <1>8. CASE Reconcile
    BY <1>8, ReconcileKeeps
  <1>9. CASE Clear
    BY <1>9, ClearKeeps
  <1>10. CASE PublishEntry
    BY <1>10, PublishEntryKeeps
  <1>11. CASE EntriesPublished
    BY <1>11, EntriesPublishedKeeps
  <1>12. CASE WriteManifest
    BY <1>12, WriteManifestKeeps
  <1>13. CASE Refresh
    BY <1>13, RefreshKeeps
  <1>14. CASE Prune
    BY <1>14, PruneKeeps
  <1>15. CASE Discard
    BY <1>15, DiscardKeeps
  <1>16. CASE Restore
    BY <1>16, RestoreKeeps
  <1>17. CASE Unwrite
    BY <1>17, UnwriteKeeps
  <1>18. CASE Undo
    BY <1>18, UndoKeeps
  <1>19. CASE Repoint
    BY <1>19, RepointKeeps
  <1>20. CASE Drop
    BY <1>20, DropKeeps
  <1>21. CASE Uninstall
    BY <1>21, UninstallKeeps
  <1>22. CASE UNCHANGED vars
    BY <1>22, StutterKeeps
  <1>23. CASE LateCopy
    BY <1>23, LateCopyKeeps
  <1>24. CASE LateEnds
    BY <1>24, LateEndsKeeps
  <1> QED
    BY <1>1, <1>2, <1>3, <1>4, <1>5, <1>6, <1>7, <1>8, <1>9, <1>10, <1>11, <1>12, <1>13,
       <1>14, <1>15, <1>16, <1>17, <1>18, <1>19, <1>20, <1>21, <1>22, <1>23, <1>24 DEF Next, Step

----------------------------------------------------------------------------
\* At every step of every sync, rollback and close, manifest, pointers,
\* generations and backup agree (host-install-manager.ts).
THEOREM Invariance == Spec => []IInv
  <1>1. Init => IInv
    BY InitOK
  <1>2. IInv /\ [Next]_vars => IInv'
    BY StepKeeps
  <1> QED BY <1>1, <1>2, PTL DEF Spec

\* Every variable keeps its type.
THEOREM TypeCorrect == Spec => []TypeOK
  <1>1. IInv => TypeOK
    BY DEF IInv, Typed
  <1> QED BY <1>1, Invariance, PTL

\* A host that reads the bundle in the middle of a sync or of its rollback finds a
\* whole generation behind every pointer (publishDirectoryPointer).
THEOREM PointersAlwaysLead == Spec => []PointersLead
  <1>1. IInv => PointersLead
    BY DEF IInv, PointersRight, PointersLead
  <1> QED BY <1>1, Invariance, PTL

\* Between syncs the manifest names every pointer, so that the next sync removes
\* the stale ones (reconcilePublishedEntries, writePublishedEntries).
THEOREM PointersAlwaysKnown == Spec => []PointersKnown
  <1>1. ASSUME IInv, closing # "closed"
        PROVE  PointersKnown
    BY <1>1, HostAssumption DEF IInv, PointersRight, ManifestRight, PointersKnown
  <1>2. Init => PointersKnown
    BY <1>1, InitOK DEF Init
  <1>3. ASSUME IInv, PointersKnown, [Next]_vars
        PROVE  PointersKnown'
    <2>1. CASE closing' # "closed"
      <3>1. IInv'
        BY <1>3, StepKeeps
      <3>2. \A x \in Entries, e \in Epochs : ~twice' /\ dest'[x] = Pointer(e) =>
              (e = Attached /\ x \in Contents[e])' \/ pc' # "rest"
        BY <2>1, <3>1 DEF IInv, PointersRight
      <3>3. pc' = "rest" /\ ~twice' => manifest' = Attached'
        BY <2>1, <3>1 DEF IInv, ManifestRight
      <3> QED BY <3>2, <3>3, HostAssumption DEF PointersKnown
    <2>2. CASE closing' = "closed"
      <3>1. Uninstall \/ LateCopy \/ LateEnds \/ UNCHANGED vars
        <4>1. pc # "rest" => queue # <<>>
          BY <1>3 DEF IInv, Staged
        <4>2. closing = "closed" => queue = <<>>
          BY <1>3 DEF IInv, Staged
        <4>3. CASE (\E e \in Epochs : Sync(e)) \/ Close
          BY <2>2, <4>3 DEF Sync, Close
        <4>4. CASE Skip \/ Begin
          <5>1. closing' = closing /\ queue # <<>>
            BY <4>4 DEF Skip, Begin, Ends, calls, session
          <5> QED BY <2>2, <4>2, <5>1
        <4>5. ASSUME pc # "rest", closing' = closing
              PROVE  FALSE
          BY <2>2, <4>1, <4>2, <4>5
        <4>6. CASE Install
          BY <4>5, <4>6 DEF Install, Ends, calls, session
        <4>7. CASE Start
          BY <4>5, <4>7 DEF Start, calls, session
        <4>8. CASE Generate
          BY <4>5, <4>8 DEF Generate, calls, session
        <4>9. CASE Reconcile
          BY <4>5, <4>9 DEF Reconcile, calls, session
        <4>10. CASE Clear
          BY <4>5, <4>10 DEF Clear, calls, session
        <4>11. CASE PublishEntry
          BY <4>5, <4>11 DEF PublishEntry, calls, session
        <4>12. CASE EntriesPublished
          BY <4>5, <4>12 DEF EntriesPublished, calls, session
        <4>13. CASE WriteManifest
          BY <4>5, <4>13 DEF WriteManifest, calls, session
        <4>14. CASE Refresh
          BY <4>5, <4>14 DEF Refresh, Ends, calls, session
        <4>15. CASE Prune
          BY <4>5, <4>15 DEF Prune, Ends, calls, session
        <4>16. CASE Discard
          BY <4>5, <4>16 DEF Discard, calls, session
        <4>17. CASE Restore
          BY <4>5, <4>17 DEF Restore, calls, session
        <4>18. CASE Unwrite
          BY <4>5, <4>18 DEF Unwrite, calls, session
        <4>19. CASE Undo
          BY <4>5, <4>19 DEF Undo, calls, session
        <4>20. CASE Repoint
          BY <4>5, <4>20 DEF Repoint, Ends, calls, session
        <4>21. CASE Drop
          BY <4>5, <4>21 DEF Drop, Ends, session
        <4> QED BY <1>3, <4>3, <4>4, <4>6, <4>7, <4>8, <4>9, <4>10, <4>11, <4>12, <4>13,
                   <4>14, <4>15, <4>16, <4>17, <4>18, <4>19, <4>20, <4>21 DEF Next, Step
      <3>2. CASE Uninstall
        BY <1>3, <3>2, Distinct DEF Uninstall, PointersKnown, Nothing, bundle
      <3>3. CASE UNCHANGED vars
        BY <1>3, <3>3 DEF vars, bundle, PointersKnown
      <3>4. CASE LateCopy
        <4>1. PICK e \in Epochs, x \in Entries : dest' = [dest EXCEPT ![x] = Copy(e)]
          BY <3>4, HostAssumption DEF LateCopy
        <4>2. \A y \in Entries, f \in Epochs : dest'[y] = Pointer(f) => dest[y] = Pointer(f)
          BY <1>3, <4>1, Distinct DEF IInv, Typed, TypeOK
        <4>3. UNCHANGED <<manifest, pc, twice>>
          BY <3>4 DEF LateCopy
        <4> QED BY <1>3, <4>2, <4>3 DEF PointersKnown
      <3>5. CASE LateEnds
        BY <1>3, <3>5 DEF LateEnds, PointersKnown, bundle
      <3> QED BY <3>1, <3>2, <3>3, <3>4, <3>5
    <2> QED BY <2>1, <2>2
  <1> QED BY <1>2, <1>3, Invariance, StepKeeps, PTL DEF Spec

\* Whatever step of a sync failed, the epoch that attached() names is the one whose
\* entries and manifest the host has (the catch of #syncHost and its rollback); until
\* the next success not if the rollback failed too, or if the application server
\* went on copying after its request was given up.
THEOREM AttachedAlwaysIntact == Spec => []AttachedIntact
  <1>1. ASSUME IInv, pc = "rest", closing # "closed", ~unrepaired, installed \in Epochs,
               generation[installed] # "part"
        PROVE  /\ manifest = installed
               /\ \A x \in Contents[installed] : dest[x] \in {Pointer(installed), Copy(installed)}
    BY <1>1 DEF IInv, ManifestRight, EntriesRight, Attached, Whole
  <1>2. IInv => AttachedIntact
    BY <1>1 DEF AttachedIntact
  <1> QED BY <1>2, Invariance, PTL
=============================================================================
