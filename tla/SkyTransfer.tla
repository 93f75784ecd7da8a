---------------------------- MODULE SkyTransfer ----------------------------
(***************************************************************************)
(* fetch of SkyPilot's copy transport (substrax/compute/sky_transfer.py    *)
(* and CopyTransport in skypilot_transports.py): the outputs of a run are  *)
(* snapshotted on the cluster, copied with rsync, snapshotted again and    *)
(* the copy verified, file by file, while the job goes on writing. Several *)
(* fetches share one target, and the cluster may go away at any moment.    *)
(***************************************************************************)
EXTENDS Naturals

CONSTANTS
    F,           \* how many paths the outputs may have; the first is manifest.json
    MaxVersion,  \* BOUND: how many contents one path has in turn
    Removes,     \* whether the job removes outputs it wrote
    Fetchers     \* processes that call fetch, one after another or at once

ASSUME TransferAssumption ==
    /\ F \in Nat \ {0}
    /\ MaxVersion \in Nat \ {0}
    /\ Removes \in BOOLEAN

VARIABLES
    up,       \* the cluster is there
    latest,   \* per path: the last content it was given
    remote,   \* per path: its content on the cluster, 0 when it is not there
    copy,     \* per path: its content in the fetches' target
    receipt,  \* recovered.json: how much of it is there, its manifest and a ghost `moment`
    at,       \* per fetch: where it is
    todo,     \* per fetch: the paths listed and not yet looked at
    seen,     \* per fetch: the manifest being taken
    before,   \* per fetch: the manifest taken before the copy
    moment    \* per fetch: a ghost, the outputs as its second snapshot listed them

cluster == <<up, latest, remote>>
fetches == <<at, todo, seen, before, moment>>
vars == <<cluster, copy, receipt, fetches>>

Files == 1..F
MANIFEST == 1
Contents == 0..MaxVersion
Manifests == [Files -> Contents]
Nothing == [f \in Files |-> 0]

\* The receipt's file as it is kept: there is none, it is emptied for a writer, it
\* holds a piece or a mixture that is no JSON, or it is whole.
Kept == {"none", "empty", "torn", "whole"}
Unreadable(k) == [kept |-> k, manifest |-> Nothing, moment |-> Nothing]

Phases == {"idle", "list", "walk", "listCopy", "copying", "listAgain", "walkAgain",
           "listTarget", "walkTarget", "receipt", "writing"}

TypeOK ==
    /\ up \in BOOLEAN
    /\ latest \in Manifests
    /\ remote \in Manifests
    /\ copy \in Manifests
    /\ receipt \in [kept: Kept, manifest: Manifests, moment: Manifests]
    /\ at \in [Fetchers -> Phases]
    /\ todo \in [Fetchers -> SUBSET Files]
    /\ seen \in [Fetchers -> Manifests]
    /\ before \in [Fetchers -> Manifests]
    /\ moment \in [Fetchers -> Manifests]

Init ==
    /\ up = TRUE
    /\ latest = Nothing
    /\ remote = Nothing
    /\ copy = Nothing
    /\ receipt = Unreadable("none")
    /\ at = [c \in Fetchers |-> "idle"]
    /\ todo = [c \in Fetchers |-> {}]
    /\ seen = [c \in Fetchers |-> Nothing]
    /\ before = [c \in Fetchers |-> Nothing]
    /\ moment = [c \in Fetchers |-> Nothing]

\* The last content of manifest.json is the one that says finished.
Finished(m) == m[MANIFEST] = MaxVersion

-----------------------------------------------------------------------------
(* The job on the cluster.                                                 *)

\* Each path is written anew with a content it never had. The worker marks the
\* manifest finished when every process of the job has ended (module Worker).
Write(f) ==
    /\ up
    /\ ~Finished(latest)
    /\ latest[f] < MaxVersion
    /\ latest' = [latest EXCEPT ![f] = @ + 1]
    /\ remote' = [remote EXCEPT ![f] = latest[f] + 1]
    /\ UNCHANGED <<up, copy, receipt, fetches>>

\* A task removes what it wrote before, an old checkpoint for one.
Remove(f) ==
    /\ up
    /\ Removes
    /\ f # MANIFEST
    /\ ~Finished(latest)
    /\ remote[f] # 0
    /\ remote' = [remote EXCEPT ![f] = 0]
    /\ UNCHANGED <<up, latest, copy, receipt, fetches>>

\* teardown, or the cluster's own timer.
Down ==
    /\ up
    /\ up' = FALSE
    /\ UNCHANGED <<latest, remote, copy, receipt, fetches>>

-----------------------------------------------------------------------------
(* fetch.                                                                  *)

\* What root.rglob lists.
Present(m) == {f \in Files : m[f] # 0}

\* sorted(): the paths are looked at in their order.
IsNext(f, c) == f \in todo[c] /\ \A g \in todo[c] : f <= g

\* A mutant of Target: what an earlier fetch left is removed first.
EmptiedTarget == Nothing

\* target.mkdir(exist_ok=True): what an earlier fetch left stays.
Target == copy

StartFetch(c) ==
    /\ at[c] = "idle"
    /\ at' = [at EXCEPT ![c] = "list"]
    /\ copy' = Target
    /\ UNCHANGED <<cluster, receipt, todo, seen, before, moment>>

\* snapshot: the directory is listed, and then each path identified.
ListRemote(c) ==
    /\ up
    /\ \/ at[c] = "list" /\ at' = [at EXCEPT ![c] = "walk"] /\ UNCHANGED moment
       \/ /\ at[c] = "listAgain"
          /\ at' = [at EXCEPT ![c] = "walkAgain"]
          /\ moment' = [moment EXCEPT ![c] = remote]
    /\ todo' = [todo EXCEPT ![c] = Present(remote)]
    /\ seen' = [seen EXCEPT ![c] = Nothing]
    /\ UNCHANGED <<cluster, copy, receipt, before>>

\* _identity: the size and digest of one file.
IdentifyRemote(c, f) ==
    /\ up
    /\ at[c] \in {"walk", "walkAgain"}
    /\ IsNext(f, c)
    /\ remote[f] # 0
    /\ seen' = [seen EXCEPT ![c][f] = remote[f]]
    /\ todo' = [todo EXCEPT ![c] = @ \ {f}]
    /\ UNCHANGED <<cluster, copy, receipt, at, before, moment>>

\* The first manifest is in, as `before`.
TakeBefore(c) ==
    /\ at[c] = "walk"
    /\ todo[c] = {}
    /\ before' = [before EXCEPT ![c] = seen[c]]
    /\ at' = [at EXCEPT ![c] = "listCopy"]
    /\ UNCHANGED <<cluster, copy, receipt, todo, seen, moment>>

\* rsync lists what there is; it removes nothing from the target.
ListCopy(c) ==
    /\ up
    /\ at[c] = "listCopy"
    /\ todo' = [todo EXCEPT ![c] = Present(remote)]
    /\ at' = [at EXCEPT ![c] = "copying"]
    /\ UNCHANGED <<cluster, copy, receipt, seen, before, moment>>

\* One file is transferred, or taken for the one already there, or has vanished.
CopyFile(c, f) ==
    /\ up
    /\ at[c] = "copying"
    /\ IsNext(f, c)
    /\ \/ remote[f] # 0 /\ copy' = [copy EXCEPT ![f] = remote[f]]
       \/ copy[f] # 0 /\ UNCHANGED copy
    /\ todo' = [todo EXCEPT ![c] = @ \ {f}]
    /\ UNCHANGED <<cluster, receipt, at, seen, before, moment>>

CopyDone(c) ==
    /\ at[c] = "copying"
    /\ todo[c] = {}
    /\ at' = [at EXCEPT ![c] = "listAgain"]
    /\ UNCHANGED <<cluster, copy, receipt, todo, seen, before, moment>>

Same(m, n) == m = n

\* A mutant of Unchanged: the second manifest is taken and not compared.
UnchangedUnchecked(c) == TRUE

\* The outputs did not change between the two manifests.
Unchanged(c) == Same(seen[c], before[c])

CompareAgain(c) ==
    /\ at[c] = "walkAgain"
    /\ todo[c] = {}
    /\ at' = [at EXCEPT ![c] = IF Unchanged(c) THEN "listTarget" ELSE "idle"]
    /\ UNCHANGED <<cluster, copy, receipt, todo, seen, before, moment>>

\* verify: a snapshot of the target, taken the same way.
ListTarget(c) ==
    /\ at[c] = "listTarget"
    /\ todo' = [todo EXCEPT ![c] = Present(copy)]
    /\ seen' = [seen EXCEPT ![c] = Nothing]
    /\ at' = [at EXCEPT ![c] = "walkTarget"]
    /\ UNCHANGED <<cluster, copy, receipt, before, moment>>

IdentifyTarget(c, f) ==
    /\ at[c] = "walkTarget"
    /\ IsNext(f, c)
    /\ seen' = [seen EXCEPT ![c][f] = copy[f]]
    /\ todo' = [todo EXCEPT ![c] = @ \ {f}]
    /\ UNCHANGED <<cluster, copy, receipt, at, before, moment>>

\* A mutant of Verified: the copy is trusted because rsync succeeded.
VerifiedUnchecked(c) == TRUE

\* The target holds exactly what the manifest describes.
Verified(c) == Same(seen[c], before[c])

Verify(c) ==
    /\ at[c] = "walkTarget"
    /\ todo[c] = {}
    /\ at' = [at EXCEPT ![c] = IF Verified(c) THEN "receipt" ELSE "idle"]
    /\ UNCHANGED <<cluster, copy, receipt, todo, seen, before, moment>>

\* write_text opens recovered.json, which empties the one of an earlier fetch.
OpenReceipt(c) ==
    /\ at[c] = "receipt"
    /\ receipt' = Unreadable("empty")
    /\ at' = [at EXCEPT ![c] = "writing"]
    /\ UNCHANGED <<cluster, copy, todo, seen, before, moment>>

\* What the file holds after this fetch wrote it: its own record, or a mixture when
\* another fetch wrote since the file was last emptied.
Written(c) ==
    {[kept |-> "whole", manifest |-> before[c], moment |-> moment[c]]}
        \union (IF receipt.kept = "empty" THEN {} ELSE {Unreadable("torn")})

WriteReceipt(c) ==
    /\ at[c] = "writing"
    /\ receipt' \in Written(c)
    /\ at' = [at EXCEPT ![c] = "idle"]
    /\ UNCHANGED <<cluster, copy, todo, seen, before, moment>>

\* ssh or rsync fails, a file changes while its digest is computed or is gone
\* when its turn comes, the disk is full or the caller is interrupted: the call
\* raises or dies, within the receipt with a piece of it written or nothing.
FetchFails(c) ==
    /\ at[c] # "idle"
    /\ at' = [at EXCEPT ![c] = "idle"]
    /\ receipt' \in {receipt}
                      \union (IF at[c] = "writing" THEN {Unreadable("torn")} ELSE {})
    /\ UNCHANGED <<cluster, copy, todo, seen, before, moment>>

FetchStep(c) ==
    \/ StartFetch(c) \/ ListRemote(c) \/ TakeBefore(c) \/ ListCopy(c)
    \/ CopyDone(c) \/ CompareAgain(c) \/ ListTarget(c) \/ Verify(c)
    \/ OpenReceipt(c) \/ WriteReceipt(c) \/ FetchFails(c)
    \/ \E f \in Files : IdentifyRemote(c, f) \/ CopyFile(c, f) \/ IdentifyTarget(c, f)

Next ==
    \/ Down
    \/ \E f \in Files : Write(f) \/ Remove(f)
    \/ \E c \in Fetchers : FetchStep(c)

Spec == Init /\ [][Next]_vars

-----------------------------------------------------------------------------
(* Properties.                                                             *)

\* What recovered.json holds is a state of the outputs as a whole: at one moment
\* every path had exactly the content the receipt gives it, although each was
\* read at a moment of its own and the job wrote between them (CopyTransport,
\* "verified against complete manifests of the remote directory taken before and
\* after the copy").
ReceiptIsSnapshot == receipt.manifest = receipt.moment

\* What state_from_outputs needs: a receipt it can read, of a finished job, and a
\* target that verifies.
Recoverable ==
    /\ receipt.kept = "whole"
    /\ copy = receipt.manifest
    /\ Finished(receipt.manifest)

\* A receipt is only ever written for a target that is, at that moment, exactly
\* what it says; with one fetch at a time nobody can have touched it since it was
\* verified.
ReceiptMatchesTarget ==
    [][receipt' # receipt /\ receipt'.kept = "whole" => copy' = receipt'.manifest]_vars

\* "Verified local outputs remain usable after the cluster disappears": once the
\* verified copy answers for a finished run, no later fetch spoils the target or
\* records anything else, wherever it fails. All that can keep the copy from
\* answering is the receipt itself, while a fetch writes it anew or when one died
\* doing so; a fetch that writes it restores the answer. (Violated when two fetches
\* of one run overlap.)
RecoveryLasts == [](Recoverable => [](receipt.kept = "whole" => Recoverable))
=============================================================================
