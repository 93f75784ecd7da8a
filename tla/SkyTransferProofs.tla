-------------------------- MODULE SkyTransferProofs --------------------------
(***************************************************************************)
(* Proofs about module SkyTransfer: however many paths, contents and       *)
(* fetches there are, recovered.json holds a state the outputs were in.    *)
(*                                                                         *)
(* The argument: a path that the second snapshot lists holds, at that      *)
(* moment, the last content it was given, which is no older than what the  *)
(* first snapshot read and no newer than what the second one will read.    *)
(* When the two agree, so does the content of that moment.                 *)
(*                                                                         *)
(* With one fetch at a time the target is what the receipt says, and the   *)
(* verified copy of a finished run can only be lost with the receipt.      *)
(***************************************************************************)
EXTENDS SkyTransfer, TLAPS

\* A path on the cluster holds the last content it was given.
RemoteLatest == \A f \in Files : remote[f] \in {0, latest[f]}

\* The first snapshot never reads what is yet to be written.
ReadsOld(c) ==
    /\ at[c] = "walk" => \A f \in Files : seen[c][f] <= latest[f]
    /\ at[c] \in {"listCopy", "copying", "listAgain"} =>
           \A f \in Files : before[c][f] <= latest[f]

\* What the second snapshot listed lies between what the two of them read.
Between(c) ==
    at[c] = "walkAgain" =>
        \A f \in Files :
            /\ moment[c][f] <= latest[f]
            /\ moment[c][f] = 0 => seen[c][f] = 0 /\ f \notin todo[c]
            /\ moment[c][f] # 0 => /\ before[c][f] <= moment[c][f]
                                   /\ f \in todo[c] \/ moment[c][f] <= seen[c][f]

\* A manifest that passed the comparison is the state of that moment.
Agreed(c) ==
    at[c] \in {"listTarget", "walkTarget", "receipt", "writing"} => before[c] = moment[c]

FetchInv == \A c \in Fetchers : ReadsOld(c) /\ Between(c) /\ Agreed(c)

IInv == TypeOK /\ RemoteLatest /\ FetchInv /\ ReceiptIsSnapshot

-----------------------------------------------------------------------------

LEMMA InitIInv == Init => IInv
  BY TransferAssumption
     DEF TransferAssumption, Init, IInv, TypeOK, RemoteLatest, FetchInv, ReadsOld, Between,
         Agreed, ReceiptIsSnapshot, Nothing, Unreadable, Kept, Manifests, Contents, Phases

\* The job's writes and removals leave every manifest as it was.
LEMMA JobIInv ==
    ASSUME IInv, NEW f \in Files, Write(f) \/ Remove(f) \/ Down PROVE IInv'
<1>1. CASE Write(f)
  <2>1. /\ latest' = [latest EXCEPT ![f] = latest[f] + 1]
        /\ remote' = [remote EXCEPT ![f] = latest[f] + 1]
        /\ latest[f] < MaxVersion
        /\ UNCHANGED <<up, copy, receipt, at, todo, seen, before, moment>>
    BY <1>1 DEF Write, fetches
  <2>2. TypeOK'
    <3>1. latest[f] + 1 \in Contents
      BY <2>1, TransferAssumption DEF TransferAssumption, IInv, TypeOK, Manifests, Contents
    <3>2. latest' \in Manifests /\ remote' \in Manifests
      BY <2>1, <3>1 DEF IInv, TypeOK, Manifests
    <3>3. QED
      BY <2>1, <3>2 DEF IInv, TypeOK
  <2>3. RemoteLatest'
    BY <2>1 DEF IInv, TypeOK, Manifests, RemoteLatest
  <2>4. latest \in [Files -> Nat] /\ latest' \in [Files -> Nat]
    BY <2>2 DEF IInv, TypeOK, Manifests, Contents
  <2>5. \A g \in Files : latest[g] <= latest'[g]
    BY <2>1, <2>4
  <2>6. FetchInv'
    <3> SUFFICES ASSUME NEW c \in Fetchers PROVE ReadsOld(c)' /\ Between(c)' /\ Agreed(c)'
      BY DEF FetchInv
    <3>1. /\ seen[c] \in [Files -> Nat] /\ before[c] \in [Files -> Nat]
          /\ moment[c] \in [Files -> Nat]
      BY DEF IInv, TypeOK, Manifests, Contents
    <3>2. ReadsOld(c) /\ Between(c) /\ Agreed(c)
      BY DEF IInv, FetchInv
    <3>3. ReadsOld(c)'
      BY <2>1, <2>4, <2>5, <3>1, <3>2 DEF ReadsOld
    <3>4. Between(c)'
      BY <2>1, <2>4, <2>5, <3>1, <3>2 DEF Between
    <3>5. Agreed(c)'
      BY <2>1, <3>2 DEF Agreed
    <3>6. QED
      BY <3>3, <3>4, <3>5
  <2>7. ReceiptIsSnapshot'
    BY <2>1 DEF IInv, ReceiptIsSnapshot
  <2>8. QED
    BY <2>2, <2>3, <2>6, <2>7 DEF IInv
<1>2. CASE Remove(f) \/ Down
  <2>1. /\ latest' = latest
        /\ \/ remote' = [remote EXCEPT ![f] = 0] /\ up' = up
           \/ remote' = remote /\ up' = FALSE
        /\ UNCHANGED <<copy, receipt, at, todo, seen, before, moment>>
    BY <1>2 DEF Remove, Down, fetches
  <2>2. TypeOK'
    <3>1. 0 \in Contents
      BY TransferAssumption DEF TransferAssumption, Contents
    <3>2. remote' \in Manifests
      BY <2>1, <3>1 DEF IInv, TypeOK, Manifests
    <3>3. QED
      BY <2>1, <3>2 DEF IInv, TypeOK
  <2>3. RemoteLatest'
    BY <2>1 DEF IInv, TypeOK, Manifests, RemoteLatest
  <2>4. FetchInv' /\ ReceiptIsSnapshot'
    BY <2>1 DEF IInv, FetchInv, ReadsOld, Between, Agreed, ReceiptIsSnapshot
  <2>5. QED
    BY <2>2, <2>3, <2>4 DEF IInv
<1>3. QED
  BY <1>1, <1>2

\* A step of one fetch changes nothing another fetch relies on.
LEMMA OneFetch ==
    ASSUME IInv, NEW c \in Fetchers, UNCHANGED cluster, TypeOK', ReceiptIsSnapshot',
           \A d \in Fetchers \ {c} : /\ at'[d] = at[d] /\ todo'[d] = todo[d]
                                     /\ seen'[d] = seen[d] /\ before'[d] = before[d]
                                     /\ moment'[d] = moment[d],
           (ReadsOld(c) /\ Between(c) /\ Agreed(c))'
    PROVE  IInv'
<1>1. RemoteLatest'
  BY DEF IInv, RemoteLatest, cluster
<1>2. ASSUME NEW d \in Fetchers PROVE (ReadsOld(d) /\ Between(d) /\ Agreed(d))'
  <2>1. CASE d = c
    BY <2>1
  <2>2. CASE d # c
    BY <2>2 DEF IInv, FetchInv, ReadsOld, Between, Agreed, cluster
  <2>3. QED
    BY <2>1, <2>2
<1>3. QED
  BY <1>1, <1>2 DEF IInv, FetchInv

\* The steps of one fetch. Its own facts are what the step is about: the second
\* listing puts the moment between the two snapshots, and the comparison closes
\* the gap.
LEMMA FetchIInv ==
    ASSUME IInv, NEW c \in Fetchers, FetchStep(c),
           ~(OpenReceipt(c) \/ WriteReceipt(c) \/ FetchFails(c))
    PROVE  IInv'
<1> DEFINE Frame == \A d \in Fetchers \ {c} :
                       /\ at'[d] = at[d] /\ todo'[d] = todo[d] /\ seen'[d] = seen[d]
                       /\ before'[d] = before[d] /\ moment'[d] = moment[d]
           Own == ReadsOld(c) /\ Between(c) /\ Agreed(c)
<1>1. /\ at \in [Fetchers -> Phases] /\ todo \in [Fetchers -> SUBSET Files]
      /\ seen \in [Fetchers -> Manifests] /\ before \in [Fetchers -> Manifests]
      /\ moment \in [Fetchers -> Manifests]
  BY DEF IInv, TypeOK
<1>2. /\ remote \in [Files -> Nat] /\ latest \in [Files -> Nat]
      /\ seen[c] \in [Files -> Nat] /\ before[c] \in [Files -> Nat]
      /\ moment[c] \in [Files -> Nat]
  BY DEF IInv, TypeOK, Manifests, Contents
<1>3. Own /\ RemoteLatest
  BY DEF IInv, FetchInv
<1>4. CASE StartFetch(c)
  <2>1. TypeOK'
    BY <1>4, TransferAssumption DEF TransferAssumption, IInv, TypeOK, Manifests, Contents, Phases, cluster, fetches,
       StartFetch, Target
  <2>2. Frame /\ ReceiptIsSnapshot' /\ UNCHANGED cluster
    BY <1>1, <1>4 DEF StartFetch, Target, IInv, ReceiptIsSnapshot, fetches, cluster
  <2>3. Own'
    BY <1>1, <1>2, <1>3, <1>4 DEF StartFetch, Target, ReadsOld, Between, Agreed, cluster
  <2>4. QED
    BY <2>1, <2>2, <2>3, OneFetch
<1>5. CASE ListRemote(c)
  <2>1. TypeOK'
    <3>1. Nothing \in Manifests /\ Present(remote) \in SUBSET Files
      BY TransferAssumption DEF TransferAssumption, Nothing, Manifests, Contents, Present
    <3>2. at' \in [Fetchers -> Phases] /\ moment' \in [Fetchers -> Manifests]
      BY <1>1, <1>5 DEF ListRemote, IInv, TypeOK, Phases
    <3>3. todo' \in [Fetchers -> SUBSET Files] /\ seen' \in [Fetchers -> Manifests]
      BY <1>1, <1>5, <3>1 DEF ListRemote
    <3>4. QED
      BY <1>5, <3>2, <3>3 DEF ListRemote, IInv, TypeOK, cluster
  <2>2. Frame /\ ReceiptIsSnapshot' /\ UNCHANGED cluster
    BY <1>1, <1>5 DEF ListRemote, Present, Nothing, IInv, ReceiptIsSnapshot, fetches, cluster
  <2>3. Own'
    <3>1. /\ \/ at[c] = "list" /\ at'[c] = "walk"
             \/ at[c] = "listAgain" /\ at'[c] = "walkAgain" /\ moment'[c] = remote
          /\ todo'[c] = Present(remote) /\ seen'[c] = Nothing
          /\ before' = before /\ latest' = latest
      BY <1>1, <1>5 DEF ListRemote, cluster
    <3>2. CASE at[c] = "list"
      BY <1>2, <1>3, <3>1, <3>2 DEF ReadsOld, Between, Agreed, Nothing
    <3>3. CASE at[c] = "listAgain"
      <4>1. \A f \in Files : /\ remote[f] <= latest[f]
                             /\ remote[f] = 0 => f \notin Present(remote)
                             /\ remote[f] # 0 => f \in Present(remote) /\ before[c][f] <= remote[f]
        BY <1>2, <1>3, <3>3 DEF RemoteLatest, ReadsOld, Present
      <4>2. QED
        BY <3>1, <3>3, <4>1 DEF ReadsOld, Between, Agreed, Nothing
    <3>4. QED
      BY <3>1, <3>2, <3>3
  <2>4. QED
    BY <2>1, <2>2, <2>3, OneFetch
<1>6. CASE \E f \in Files : IdentifyRemote(c, f)
  <2>1. TypeOK'
    BY <1>6, TransferAssumption DEF TransferAssumption, IInv, TypeOK, Manifests, Contents, Phases, cluster, fetches,
       IdentifyRemote, IsNext
  <2>2. Frame /\ ReceiptIsSnapshot' /\ UNCHANGED cluster
    BY <1>1, <1>6 DEF IdentifyRemote, IsNext, IInv, ReceiptIsSnapshot, fetches, cluster
  <2>3. Own'
    <3>1. PICK f \in Files : IdentifyRemote(c, f)
      BY <1>6
    <3>2. /\ at[c] \in {"walk", "walkAgain"} /\ at' = at /\ before' = before
          /\ moment' = moment /\ latest' = latest
          /\ f \in todo[c] /\ todo'[c] = todo[c] \ {f}
          /\ seen'[c] = [seen[c] EXCEPT ![f] = remote[f]]
          /\ remote[f] = latest[f]
      BY <1>1, <1>3, <3>1 DEF IdentifyRemote, IsNext, cluster, RemoteLatest
    <3>3. ReadsOld(c)'
      BY <1>2, <1>3, <3>2 DEF ReadsOld
    <3>4. Between(c)'
      BY <1>2, <1>3, <3>2 DEF Between
    <3>5. QED
      BY <3>2, <3>3, <3>4 DEF Agreed
  <2>4. QED
    BY <2>1, <2>2, <2>3, OneFetch
<1>7. CASE TakeBefore(c)
  <2>1. TypeOK'
    BY <1>7, TransferAssumption DEF TransferAssumption, IInv, TypeOK, Manifests, Contents, Phases, cluster, fetches,
       TakeBefore
  <2>2. Frame /\ ReceiptIsSnapshot' /\ UNCHANGED cluster
    BY <1>1, <1>7 DEF TakeBefore, IInv, ReceiptIsSnapshot, fetches, cluster
  <2>3. Own'
    BY <1>1, <1>2, <1>3, <1>7 DEF TakeBefore, ReadsOld, Between, Agreed, cluster
  <2>4. QED
    BY <2>1, <2>2, <2>3, OneFetch
<1>8. CASE ListCopy(c)
  <2>1. TypeOK'
    BY <1>8, TransferAssumption DEF TransferAssumption, IInv, TypeOK, Manifests, Contents, Phases, cluster, fetches,
       ListCopy, Present
  <2>2. Frame /\ ReceiptIsSnapshot' /\ UNCHANGED cluster
    BY <1>1, <1>8 DEF ListCopy, Present, IInv, ReceiptIsSnapshot, fetches, cluster
  <2>3. Own'
    BY <1>1, <1>2, <1>3, <1>8 DEF ListCopy, Present, ReadsOld, Between, Agreed, cluster
  <2>4. QED
    BY <2>1, <2>2, <2>3, OneFetch
<1>9. CASE \E f \in Files : CopyFile(c, f)
  <2>1. TypeOK'
    <3>1. PICK f \in Files : CopyFile(c, f)
      BY <1>9
    <3>2. copy' = copy \/ copy' = [copy EXCEPT ![f] = remote[f]]
      BY <3>1 DEF CopyFile
    <3>3. copy' \in Manifests
      BY <3>2 DEF IInv, TypeOK, Manifests
    <3>4. todo' \in [Fetchers -> SUBSET Files]
      BY <1>1, <3>1 DEF CopyFile
    <3>5. QED
      BY <3>1, <3>3, <3>4 DEF CopyFile, IInv, TypeOK, cluster
  <2>2. Frame /\ ReceiptIsSnapshot' /\ UNCHANGED cluster
    BY <1>1, <1>9 DEF CopyFile, IInv, ReceiptIsSnapshot, fetches, cluster
  <2>3. Own'
    BY <1>1, <1>2, <1>3, <1>9 DEF CopyFile, ReadsOld, Between, Agreed, cluster
  <2>4. QED
    BY <2>1, <2>2, <2>3, OneFetch
<1>10. CASE CopyDone(c)
  <2>1. TypeOK'
    BY <1>10, TransferAssumption DEF TransferAssumption, IInv, TypeOK, Manifests, Contents, Phases, cluster, fetches,
       CopyDone
  <2>2. Frame /\ ReceiptIsSnapshot' /\ UNCHANGED cluster
    BY <1>1, <1>10 DEF CopyDone, IInv, ReceiptIsSnapshot, fetches, cluster
  <2>3. Own'
    BY <1>1, <1>2, <1>3, <1>10 DEF CopyDone, ReadsOld, Between, Agreed, cluster
  <2>4. QED
    BY <2>1, <2>2, <2>3, OneFetch
<1>11. CASE CompareAgain(c)
  <2>1. TypeOK'
    BY <1>11, TransferAssumption DEF TransferAssumption, IInv, TypeOK, Manifests, Contents, Phases, cluster, fetches,
       CompareAgain, Unchanged, Same
  <2>2. Frame /\ ReceiptIsSnapshot' /\ UNCHANGED cluster
    BY <1>1, <1>11 DEF CompareAgain, Unchanged, Same, IInv, ReceiptIsSnapshot, fetches, cluster
  <2>3. Own'
    <3>0. /\ at[c] = "walkAgain" /\ todo[c] = {} /\ before' = before /\ moment' = moment
          /\ at' = [at EXCEPT ![c] = IF Unchanged(c) THEN "listTarget" ELSE "idle"]
      BY <1>11 DEF CompareAgain
    <3>1. \/ at'[c] = "idle"
          \/ at'[c] = "listTarget" /\ seen[c] = before[c]
      BY <1>1, <3>0 DEF Unchanged, Same
    <3>2. CASE at'[c] = "idle"
      BY <3>2 DEF ReadsOld, Between, Agreed
    <3>3. CASE at'[c] = "listTarget"
      <4>1. \A f \in Files : before[c][f] = moment[c][f]
        BY <1>2, <1>3, <3>0, <3>1, <3>3 DEF Between
      <4>2. before[c] = moment[c]
        BY <1>2, <4>1
      <4>3. QED
        BY <3>0, <3>3, <4>2 DEF ReadsOld, Between, Agreed
    <3>4. QED
      BY <3>1, <3>2, <3>3
  <2>4. QED
    BY <2>1, <2>2, <2>3, OneFetch
<1>12. CASE ListTarget(c)
  <2>1. TypeOK'
    BY <1>12, TransferAssumption DEF TransferAssumption, IInv, TypeOK, Manifests, Contents, Phases, cluster, fetches,
       ListTarget, Present, Nothing
  <2>2. Frame /\ ReceiptIsSnapshot' /\ UNCHANGED cluster
    BY <1>1, <1>12 DEF ListTarget, Present, Nothing, IInv, ReceiptIsSnapshot, fetches, cluster
  <2>3. Own'
    BY <1>1, <1>2, <1>3, <1>12 DEF ListTarget, Present, Nothing, ReadsOld, Between, Agreed, cluster
  <2>4. QED
    BY <2>1, <2>2, <2>3, OneFetch
<1>13. CASE \E f \in Files : IdentifyTarget(c, f)
  <2>1. TypeOK'
    BY <1>13, TransferAssumption DEF TransferAssumption, IInv, TypeOK, Manifests, Contents, Phases, cluster, fetches,
       IdentifyTarget
  <2>2. Frame /\ ReceiptIsSnapshot' /\ UNCHANGED cluster
    BY <1>1, <1>13 DEF IdentifyTarget, IInv, ReceiptIsSnapshot, fetches, cluster
  <2>3. Own'
    BY <1>1, <1>2, <1>3, <1>13 DEF IdentifyTarget, ReadsOld, Between, Agreed, cluster
  <2>4. QED
    BY <2>1, <2>2, <2>3, OneFetch
<1>14. CASE Verify(c)
  <2>1. TypeOK'
    BY <1>14, TransferAssumption DEF TransferAssumption, IInv, TypeOK, Manifests, Contents, Phases, cluster, fetches,
       Verify
  <2>2. Frame /\ ReceiptIsSnapshot' /\ UNCHANGED cluster
    BY <1>1, <1>14 DEF Verify, IInv, ReceiptIsSnapshot, fetches, cluster
  <2>3. Own'
    BY <1>1, <1>2, <1>3, <1>14 DEF Verify, ReadsOld, Between, Agreed, cluster
  <2>4. QED
    BY <2>1, <2>2, <2>3, OneFetch
<1>15. QED
  BY <1>4, <1>5, <1>6, <1>7, <1>8, <1>9, <1>10, <1>11, <1>12, <1>13, <1>14 DEF FetchStep

\* The receipt takes the manifest and the moment, which have agreed since the
\* comparison; a file that is emptied or torn holds neither.
LEMMA ReceiptIInv ==
    ASSUME IInv, NEW c \in Fetchers, OpenReceipt(c) \/ WriteReceipt(c) \/ FetchFails(c)
    PROVE  IInv'
<1>1. /\ at \in [Fetchers -> Phases] /\ at[c] # "idle"
      /\ at' = [at EXCEPT ![c] = IF at[c] = "receipt" /\ OpenReceipt(c) THEN "writing" ELSE "idle"]
      /\ UNCHANGED <<up, latest, remote, copy, todo, seen, before, moment>>
  BY DEF OpenReceipt, WriteReceipt, FetchFails, IInv, TypeOK, cluster
<1>2. /\ before[c] \in Manifests /\ moment[c] \in Manifests
      /\ Agreed(c) /\ receipt.manifest = receipt.moment /\ receipt \in [kept: Kept, manifest: Manifests, moment: Manifests]
  BY DEF IInv, TypeOK, FetchInv, ReceiptIsSnapshot
<1>3. Nothing \in Manifests
  BY TransferAssumption DEF TransferAssumption, Nothing, Manifests, Contents
<1>4. ASSUME NEW k \in Kept
      PROVE  /\ Unreadable(k) \in [kept: Kept, manifest: Manifests, moment: Manifests]
             /\ Unreadable(k).manifest = Unreadable(k).moment
  BY <1>3 DEF Unreadable
<1>5. /\ receipt' \in [kept: Kept, manifest: Manifests, moment: Manifests]
      /\ receipt'.manifest = receipt'.moment
  <2>1. CASE OpenReceipt(c)
    BY <1>4, <2>1 DEF OpenReceipt, Kept
  <2>2. CASE WriteReceipt(c)
    <3>1. before[c] = moment[c]
      BY <1>2, <2>2 DEF WriteReceipt, Agreed
    <3>2. \/ receipt' = [kept |-> "whole", manifest |-> before[c], moment |-> moment[c]]
          \/ receipt' = Unreadable("torn")
      BY <2>2 DEF WriteReceipt, Written
    <3>3. QED
      BY <1>2, <1>4, <3>1, <3>2 DEF Kept
  <2>3. CASE FetchFails(c)
    <3>1. receipt' = receipt \/ receipt' = Unreadable("torn")
      BY <2>3 DEF FetchFails
    <3>2. QED
      BY <1>2, <1>4, <3>1 DEF Kept
  <2>4. QED
    BY <2>1, <2>2, <2>3
<1>6. TypeOK'
  BY <1>1, <1>5 DEF IInv, TypeOK, Phases
<1>7. ReceiptIsSnapshot'
  BY <1>5 DEF ReceiptIsSnapshot
<1>8. (ReadsOld(c) /\ Between(c) /\ Agreed(c))'
  BY <1>1, <1>2 DEF ReadsOld, Between, Agreed
<1>9. QED
  BY <1>1, <1>6, <1>7, <1>8, OneFetch DEF cluster

LEMMA StepIInv == IInv /\ [Next]_vars => IInv'
<1> SUFFICES ASSUME IInv, [Next]_vars PROVE IInv'
  OBVIOUS
<1>1. CASE UNCHANGED vars
  BY <1>1 DEF vars, cluster, fetches, IInv, TypeOK, RemoteLatest, FetchInv, ReadsOld, Between,
     Agreed, ReceiptIsSnapshot
<1>2. CASE Down
  <2>1. 1 \in Files
    BY TransferAssumption DEF TransferAssumption, Files
  <2>2. QED
    BY <1>2, <2>1, JobIInv
<1>3. CASE \E f \in Files : Write(f) \/ Remove(f)
  BY <1>3, JobIInv
<1>4. CASE \E c \in Fetchers : FetchStep(c)
  BY <1>4, FetchIInv, ReceiptIInv
<1>5. QED
  BY <1>1, <1>2, <1>3, <1>4 DEF Next

-----------------------------------------------------------------------------

\* Every behaviour of the transfer keeps the inductive invariant.
THEOREM Invariance == Spec => []IInv
<1>1. Init => IInv
  BY InitIInv
<1>2. IInv /\ [Next]_vars => IInv'
  BY StepIInv
<1>3. QED
  BY <1>1, <1>2, PTL DEF Spec

\* Every variable keeps its type (CopyTransport.fetch and sky_transfer).
THEOREM TypeCorrect == Spec => []TypeOK
<1>1. IInv => TypeOK
  BY DEF IInv
<1>2. QED
  BY <1>1, Invariance, PTL

\* What recovered.json holds is a state of the outputs as a whole, however many
\* paths are read one by one while the job writes, and however many fetches run
\* (CopyTransport.fetch: the manifests before and after the copy are compared).
THEOREM ReceiptsAreSnapshots == Spec => []ReceiptIsSnapshot
<1>1. IInv => ReceiptIsSnapshot
  BY DEF IInv
<1>2. QED
  BY <1>1, Invariance, PTL

-----------------------------------------------------------------------------
(* One fetch at a time. The receipt is then true of the target, and once   *)
(* it is one of a finished run nothing a later fetch brings is different.  *)

OneAtATime == \A c, d \in Fetchers : c = d

\* A state with a finished manifest is the last one the outputs are in.
Last(m) == Finished(m) => Finished(latest) /\ remote = m

\* What a fetch knows of the target from its own snapshot of it.
Checked(c) ==
    /\ at[c] = "walkTarget" => \A f \in Files \ todo[c] : seen[c][f] = copy[f]
    /\ at[c] \in {"receipt", "writing"} => copy = before[c]
    /\ at[c] \in {"walkAgain", "listTarget", "walkTarget", "receipt", "writing"} =>
           Last(moment[c])

AloneInv == Last(receipt.manifest) /\ \A c \in Fetchers : Checked(c)

\* A receipt that cannot be read says nothing of a finished run.
LEMMA UnreadableLast == \A k \in Kept : Last(Unreadable(k).manifest)
  BY TransferAssumption
     DEF TransferAssumption, Last, Finished, Unreadable, Nothing, MANIFEST, Files

LEMMA InitAlone == Init => AloneInv
<1> SUFFICES ASSUME Init PROVE AloneInv
  OBVIOUS
<1>1. receipt = Unreadable("none")
  BY DEF Init
<1>2. Last(receipt.manifest)
  BY <1>1, UnreadableLast DEF Kept
<1>3. QED
  BY <1>2 DEF Init, AloneInv, Checked

\* The job stops changing its outputs once the manifest is finished.
LEMMA JobAlone ==
    ASSUME AloneInv, NEW f \in Files, Write(f) \/ Remove(f) \/ Down PROVE AloneInv'
<1>1. UNCHANGED <<copy, receipt, at, todo, seen, before, moment>>
  BY DEF Write, Remove, Down, fetches
<1>2. ASSUME NEW m, Last(m) PROVE Last(m)'
  <2>1. CASE Down
    BY <1>2, <2>1 DEF Down, Last, Finished
  <2>2. CASE Write(f) \/ Remove(f)
    <3>1. ~Finished(m)
      BY <1>2, <2>2 DEF Write, Remove, Last
    <3>2. QED
      BY <3>1 DEF Last, Finished
  <2>3. QED
    BY <2>1, <2>2
<1>3. Last(receipt.manifest)'
  BY <1>1, <1>2 DEF AloneInv, Last
<1>4. ASSUME NEW c \in Fetchers PROVE Checked(c)'
  <2>1. Checked(c)
    BY DEF AloneInv
  <2>2. Last(moment[c]) => Last(moment[c])'
    BY <1>1, <1>2 DEF Last
  <2>3. QED
    BY <1>1, <2>1, <2>2 DEF Checked
<1>5. QED
  BY <1>3, <1>4 DEF AloneInv

\* The steps of the only fetch.
LEMMA FetchAlone ==
    ASSUME OneAtATime, IInv, AloneInv, NEW c \in Fetchers, FetchStep(c) PROVE AloneInv'
<1>1. /\ at \in [Fetchers -> Phases] /\ todo \in [Fetchers -> SUBSET Files]
      /\ seen \in [Fetchers -> Manifests] /\ before \in [Fetchers -> Manifests]
      /\ moment \in [Fetchers -> Manifests] /\ copy \in Manifests
  BY DEF IInv, TypeOK
<1>2. Checked(c) /\ Agreed(c) /\ Last(receipt.manifest)
  BY DEF IInv, FetchInv, AloneInv
<1>3. UNCHANGED cluster
  BY DEF FetchStep, StartFetch, ListRemote, TakeBefore, ListCopy, CopyDone, CompareAgain, ListTarget,
     Verify, OpenReceipt, WriteReceipt, FetchFails, IdentifyRemote, CopyFile, IdentifyTarget
<1>4. \A m : Last(m)' <=> Last(m)
  BY <1>3 DEF cluster, Last, Finished
<1>5. ASSUME Checked(c)', receipt' = receipt \/ Last(receipt'.manifest) PROVE AloneInv'
  <2>1. \A d \in Fetchers : Checked(d)'
    BY <1>5 DEF OneAtATime
  <2>2. Last(receipt'.manifest)
    BY <1>2, <1>5
  <2>3. QED
    BY <1>4, <2>1, <2>2 DEF AloneInv
<1>6. CASE StartFetch(c) \/ TakeBefore(c) \/ ListCopy(c) \/ CopyDone(c)
           \/ \E f \in Files : CopyFile(c, f)
  <2>1. /\ at'[c] \notin {"walkTarget", "receipt", "writing", "walkAgain", "listTarget"}
        /\ receipt' = receipt
    BY <1>1, <1>6 DEF StartFetch, TakeBefore, ListCopy, CopyDone, CopyFile
  <2>2. QED
    BY <1>5, <2>1 DEF Checked
<1>7. CASE ListRemote(c)
  <2>1. receipt' = receipt /\ at'[c] \in {"walk", "walkAgain"}
    BY <1>1, <1>7 DEF ListRemote
  <2>2. at'[c] = "walkAgain" => moment'[c] = remote
    BY <1>1, <1>7 DEF ListRemote
  <2>3. Last(remote)
    <3>1. MANIFEST \in Files /\ MaxVersion # 0
      BY TransferAssumption DEF TransferAssumption, MANIFEST, Files
    <3>2. QED
      BY <3>1 DEF IInv, RemoteLatest, Last, Finished
  <2>4. Checked(c)'
    BY <1>4, <2>1, <2>2, <2>3 DEF Checked
  <2>5. QED
    BY <1>5, <2>1, <2>4
<1>8. CASE \E f \in Files : IdentifyRemote(c, f)
  <2>1. receipt' = receipt /\ at' = at /\ moment' = moment /\ at[c] \in {"walk", "walkAgain"}
    BY <1>8 DEF IdentifyRemote
  <2>2. Checked(c)'
    BY <1>2, <1>4, <2>1 DEF Checked
  <2>3. QED
    BY <1>5, <2>1, <2>2
<1>9. CASE CompareAgain(c)
  <2>1. receipt' = receipt /\ at[c] = "walkAgain" /\ at'[c] \in {"listTarget", "idle"} /\ moment' = moment
    BY <1>1, <1>9 DEF CompareAgain
  <2>2. Checked(c)'
    BY <1>2, <1>4, <2>1 DEF Checked
  <2>3. QED
    BY <1>5, <2>1, <2>2
<1>10. CASE ListTarget(c)
  <2>1. /\ receipt' = receipt /\ at[c] = "listTarget" /\ at'[c] = "walkTarget" /\ moment' = moment
        /\ todo'[c] = Present(copy) /\ seen'[c] = Nothing /\ copy' = copy
    BY <1>1, <1>10 DEF ListTarget
  <2>2. \A f \in Files \ todo'[c] : seen'[c][f] = copy'[f]
    BY <2>1 DEF Present, Nothing
  <2>3. Checked(c)'
    BY <1>2, <1>4, <2>1, <2>2 DEF Checked
  <2>4. QED
    BY <1>5, <2>1, <2>3
<1>11. CASE \E f \in Files : IdentifyTarget(c, f)
  <2>1. PICK f \in Files : IdentifyTarget(c, f)
    BY <1>11
  <2>2. /\ receipt' = receipt /\ at[c] = "walkTarget" /\ at' = at /\ moment' = moment /\ copy' = copy
        /\ todo'[c] = todo[c] \ {f} /\ seen'[c] = [seen[c] EXCEPT ![f] = copy[f]]
    BY <1>1, <2>1 DEF IdentifyTarget
  <2>3. seen[c] \in [Files -> Contents]
    BY <1>1 DEF Manifests
  <2>4. \A g \in Files \ todo'[c] : seen'[c][g] = copy'[g]
    BY <1>2, <2>2, <2>3 DEF Checked
  <2>5. Checked(c)'
    BY <1>2, <1>4, <2>2, <2>4 DEF Checked
  <2>6. QED
    BY <1>5, <2>2, <2>5
<1>12. CASE Verify(c)
  <2>1. /\ receipt' = receipt /\ at[c] = "walkTarget" /\ moment' = moment /\ copy' = copy /\ before' = before
        /\ todo[c] = {} /\ at'[c] = IF Verified(c) THEN "receipt" ELSE "idle"
    BY <1>1, <1>12 DEF Verify
  <2>2. seen[c] = copy
    <3>1. \A f \in Files : seen[c][f] = copy[f]
      BY <1>2, <2>1 DEF Checked
    <3>2. QED
      BY <1>1, <3>1 DEF Manifests
  <2>3. at'[c] = "receipt" => copy' = before'[c]
    BY <2>1, <2>2 DEF Verified, Same
  <2>4. Checked(c)'
    BY <1>2, <1>4, <2>1, <2>3 DEF Checked
  <2>5. QED
    BY <1>5, <2>1, <2>4
<1>13. CASE OpenReceipt(c)
  <2>1. /\ at[c] = "receipt" /\ at'[c] = "writing" /\ receipt' = Unreadable("empty")
        /\ copy' = copy /\ before' = before /\ moment' = moment
    BY <1>1, <1>13 DEF OpenReceipt
  <2>2. Last(receipt'.manifest)
    BY <2>1, UnreadableLast DEF Kept
  <2>3. Checked(c)'
    BY <1>2, <1>4, <2>1 DEF Checked
  <2>4. QED
    BY <1>5, <2>2, <2>3
<1>14. CASE WriteReceipt(c)
  <2>1. /\ at[c] = "writing" /\ at'[c] = "idle"
        /\ receipt'.manifest = before[c] \/ receipt' = Unreadable("torn")
    BY <1>1, <1>14 DEF WriteReceipt, Written
  <2>2. Last(before[c])
    BY <1>2, <2>1 DEF Checked, Agreed
  <2>3. Last(receipt'.manifest)
    BY <2>1, <2>2, UnreadableLast DEF Kept
  <2>4. Checked(c)'
    BY <2>1 DEF Checked
  <2>5. QED
    BY <1>5, <2>3, <2>4
<1>15. CASE FetchFails(c)
  <2>1. at'[c] = "idle" /\ (receipt' = receipt \/ receipt' = Unreadable("torn"))
    BY <1>1, <1>15 DEF FetchFails
  <2>2. receipt' = receipt \/ Last(receipt'.manifest)
    BY <2>1, UnreadableLast DEF Kept
  <2>3. Checked(c)'
    BY <2>1 DEF Checked
  <2>4. QED
    BY <1>5, <2>2, <2>3
<1>16. QED
  BY <1>6, <1>7, <1>8, <1>9, <1>10, <1>11, <1>12, <1>13, <1>14, <1>15 DEF FetchStep

LEMMA StepAlone == OneAtATime /\ IInv /\ AloneInv /\ [Next]_vars => AloneInv'
<1> SUFFICES ASSUME OneAtATime, IInv, AloneInv, [Next]_vars PROVE AloneInv'
  OBVIOUS
<1>1. CASE UNCHANGED vars
  BY <1>1 DEF vars, cluster, fetches, AloneInv, Checked, Last, Finished
<1>2. CASE Down
  <2>1. 1 \in Files
    BY TransferAssumption DEF TransferAssumption, Files
  <2>2. QED
    BY <1>2, <2>1, JobAlone
<1>3. CASE \E f \in Files : Write(f) \/ Remove(f)
  BY <1>3, JobAlone
<1>4. CASE \E c \in Fetchers : FetchStep(c)
  BY <1>4, FetchAlone
<1>5. QED
  BY <1>1, <1>2, <1>3, <1>4 DEF Next

LEMMA Alone == ASSUME OneAtATime PROVE Spec => []AloneInv
<1>1. Init => AloneInv
  BY InitAlone
<1>2. IInv /\ AloneInv /\ [Next]_vars => AloneInv'
  BY StepAlone
<1>3. QED
  BY <1>1, <1>2, Invariance, PTL DEF Spec

\* Only one step completes a receipt, and only one writes the target.
LEMMA Writes ==
    ASSUME [Next]_vars
    PROVE  /\ \/ receipt' = receipt
              \/ receipt'.kept # "whole"
              \/ \E c \in Fetchers : /\ WriteReceipt(c)
                                     /\ receipt'.manifest = before[c]
           /\ copy' # copy => \E c \in Fetchers, f \in Files : CopyFile(c, f)
<1> DEFINE Completes(c) == WriteReceipt(c) /\ receipt'.manifest = before[c]
<1>1. ASSUME NEW f \in Files, Write(f) \/ Remove(f) \/ Down PROVE receipt' = receipt /\ copy' = copy
  BY <1>1 DEF Write, Remove, Down
<1>2. ASSUME NEW c \in Fetchers, FetchStep(c)
      PROVE  /\ receipt' = receipt \/ receipt'.kept # "whole" \/ Completes(c)
             /\ copy' = copy \/ \E f \in Files : CopyFile(c, f)
  <2>1. CASE \E f \in Files : CopyFile(c, f)
    BY <2>1 DEF CopyFile
  <2>2. CASE OpenReceipt(c) \/ WriteReceipt(c) \/ FetchFails(c)
    <3>1. copy' = copy
      BY <2>2 DEF OpenReceipt, WriteReceipt, FetchFails
    <3>2. \A k \in Kept : Unreadable(k).kept = k
      BY DEF Unreadable
    <3>3. \/ receipt' = receipt \/ receipt' = Unreadable("empty") \/ receipt' = Unreadable("torn")
          \/ WriteReceipt(c)
             /\ receipt' = [kept |-> "whole", manifest |-> before[c], moment |-> moment[c]]
      BY <2>2 DEF OpenReceipt, WriteReceipt, Written, FetchFails
    <3>4. QED
      BY <3>1, <3>2, <3>3 DEF Kept
  <2>3. CASE ~(OpenReceipt(c) \/ WriteReceipt(c) \/ FetchFails(c) \/ \E f \in Files : CopyFile(c, f))
    BY <1>2, <2>3 DEF FetchStep, StartFetch, Target, ListRemote, TakeBefore, ListCopy, CopyDone, CompareAgain,
       ListTarget, Verify, IdentifyRemote, IdentifyTarget
  <2>4. QED
    BY <2>1, <2>2, <2>3
<1>3. 1 \in Files
  BY TransferAssumption DEF TransferAssumption, Files
<1>4. CASE UNCHANGED vars
  BY <1>4 DEF vars
<1>5. QED
  BY <1>1, <1>2, <1>3, <1>4 DEF Next

\* With one fetch at a time a receipt is only written for a target that is, at that
\* moment, exactly what it says (CopyTransport.fetch, verify).
THEOREM ReceiptsMatchTargets == ASSUME OneAtATime PROVE Spec => ReceiptMatchesTarget
<1>1. AloneInv /\ [Next]_vars =>
         (receipt' # receipt /\ receipt'.kept = "whole" => copy' = receipt'.manifest)
  <2> SUFFICES ASSUME AloneInv, [Next]_vars, receipt' # receipt, receipt'.kept = "whole"
               PROVE  copy' = receipt'.manifest
    OBVIOUS
  <2>1. PICK c \in Fetchers : WriteReceipt(c) /\ receipt'.manifest = before[c]
    BY Writes
  <2>2. Checked(c)
    BY DEF AloneInv
  <2>3. QED
    BY <2>1, <2>2 DEF WriteReceipt, Checked
<1>2. AloneInv /\ [Next]_vars =>
         [receipt' # receipt /\ receipt'.kept = "whole" => copy' = receipt'.manifest]_vars
  BY <1>1
<1>3. QED
  BY <1>2, Alone, PTL DEF Spec, ReceiptMatchesTarget

\* What stays true once a verified copy answered for a finished run: the outputs and
\* the target are the same for good, and a receipt that can be read says so.
Recovered ==
    /\ copy = remote
    /\ Finished(latest) /\ Finished(copy)
    /\ receipt.kept = "whole" => receipt.manifest = copy

LEMMA RecoveredStays ==
    ASSUME IInv, AloneInv, Recovered, [Next]_vars PROVE Recovered'
<1>1. remote' = remote /\ latest' = latest
  <2>1. ASSUME NEW f \in Files PROVE ~(Write(f) \/ Remove(f))
    BY DEF Recovered, Write, Remove
  <2>2. ASSUME NEW c \in Fetchers, FetchStep(c) PROVE UNCHANGED cluster
    BY <2>2 DEF FetchStep, StartFetch, ListRemote, TakeBefore, ListCopy, CopyDone, CompareAgain,
       ListTarget, Verify, OpenReceipt, WriteReceipt, FetchFails, IdentifyRemote, CopyFile, IdentifyTarget
  <2>3. QED
    BY <2>1, <2>2 DEF Next, Down, cluster, vars
<1>2. copy' = copy
  <2> SUFFICES ASSUME copy' # copy PROVE FALSE
    OBVIOUS
  <2>1. PICK c \in Fetchers, f \in Files : CopyFile(c, f)
    BY Writes
  <2>2. copy' = [copy EXCEPT ![f] = remote[f]]
    BY <2>1 DEF CopyFile
  <2>3. copy \in [Files -> Contents]
    BY DEF IInv, TypeOK, Manifests
  <2>4. QED
    BY <2>2, <2>3 DEF Recovered
<1>3. receipt'.kept = "whole" => receipt'.manifest = copy
  <2> SUFFICES ASSUME receipt'.kept = "whole", receipt' # receipt PROVE receipt'.manifest = copy
    BY DEF Recovered
  <2>1. PICK c \in Fetchers : WriteReceipt(c) /\ receipt'.manifest = before[c]
    BY Writes
  <2>2. QED
    BY <2>1 DEF WriteReceipt, AloneInv, Checked
<1>4. QED
  BY <1>1, <1>2, <1>3 DEF Recovered, Finished

\* With one fetch at a time a verified copy that answers for a finished run does so
\* for as long as its receipt can be read: no later fetch changes the target or
\* records another state, wherever it fails, and what may come between is a receipt
\* emptied for a writer or torn by one that died (CopyTransport.fetch,
\* state_from_outputs).
THEOREM VerifiedCopiesLast == ASSUME OneAtATime PROVE Spec => RecoveryLasts
<1>1. AloneInv /\ Recoverable => Recovered
  BY DEF AloneInv, Last, Recoverable, Recovered
<1>2. IInv /\ AloneInv /\ Recovered /\ [Next]_vars => Recovered'
  BY RecoveredStays
<1>3. Recovered => (receipt.kept = "whole" => Recoverable)
  BY DEF Recovered, Recoverable
<1>4. QED
  BY <1>1, <1>2, <1>3, Alone, Invariance, PTL DEF Spec, RecoveryLasts
=============================================================================
