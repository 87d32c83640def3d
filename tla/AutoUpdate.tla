------------------------------ MODULE AutoUpdate ------------------------------
(***************************************************************************)
(* DockerComposeConfiguration and UpdateProcessManager of                  *)
(* EventPi.AutoUpdate: the versions of a package are the tags of its git   *)
(* repository, fetched at most every ten seconds into a list that all      *)
(* sessions share.  A session either shows the packages, which fetches, or *)
(* updates them all, which fetches, decides, checks out, starts docker     *)
(* compose on the host over ssh, and records the version in a file.        *)
(*                                                                         *)
(* The list is cleared and filled tag by tag, without a lock, and nothing  *)
(* keeps two sessions, which are circuits of the same page, from updating  *)
(* the same package at once.  The file, the working copy and the           *)
(* containers survive the process, as do the composes that were started in *)
(* the background; each of them is a process of its own that reads the     *)
(* files when it comes up and ends when it ends.  Versions are numbered in *)
(* their order; 0 is the branch a clone starts with, or no record.         *)
(***************************************************************************)
EXTENDS Integers

CONSTANTS
  PackageCount,
  Sessions,       \* the circuits of the page
  MaxComposes,    \* how many composes run at once (bounds the runs)
  MaxVersion      \* how many versions are ever tagged (bounds the runs)

ASSUME PackageCountAssumption == PackageCount \in Nat \ {0}
ASSUME MaxVersionAssumption == MaxVersion \in Nat \ {0}

ASSUME MaxComposesAssumption == MaxComposes \in Nat

Packages == 0 .. PackageCount - 1
Composes == 0 .. MaxComposes - 1

VARIABLES
  updTags,        \* per package: its newest tag in the remote repository
  updLocal,       \* per package: the newest tag in the local repository
  updVersions,    \* per package: _versions
  updFresh,       \* packages whose _versionChecked is less than 10 s ago
  updCopy,        \* per package: the version that is checked out
  updRecord,      \* per package: the version in deployment.state.json
  updContainers,  \* per package: the version that runs
  updCompose,     \* per process on the host: what compose it is
  updSessions,    \* per session: where it is
  updDoubtful,    \* history: packages whose last update was not decided on a
                  \* complete list, or met another update of the same package
  updFailed       \* history: packages whose last compose failed

updDisk == <<updCopy, updRecord>>
updList == <<updLocal, updVersions, updFresh>>
updHost == <<updContainers, updCompose, updFailed>>
updVars == <<updTags, updList, updDisk, updHost, updSessions, updDoubtful>>

Idle == [at |-> "idle", pkg |-> 0, latest |-> 0, left |-> {}]
NoCompose == [at |-> "none", pkg |-> 0, files |-> 0]

UpdInit ==
  /\ updTags = [p \in Packages |-> 1]
  /\ updLocal = [p \in Packages |-> 0]
  /\ updVersions = [p \in Packages |-> {}]
  /\ updFresh = {}
  /\ updCopy = [p \in Packages |-> 0]
  /\ updRecord = [p \in Packages |-> 0]
  /\ updContainers = [p \in Packages |-> 0]
  /\ updCompose = [c \in Composes |-> NoCompose]
  /\ updSessions = [s \in Sessions |-> Idle]
  /\ updDoubtful = {} /\ updFailed = {}

-----------------------------------------------------------------------------
(* The world around.                                                       *)

TagVersion(p) ==
  /\ updTags[p] < MaxVersion
  /\ updTags' = [updTags EXCEPT ![p] = @ + 1]
  /\ UNCHANGED <<updList, updDisk, updHost, updSessions, updDoubtful>>

TenSecondsPass(p) ==
  /\ p \in updFresh
  /\ updFresh' = updFresh \ {p}
  /\ UNCHANGED <<updTags, updLocal, updVersions, updDisk, updHost, updSessions,
                 updDoubtful>>

\* A compose reads the files of the working copy as they are when it comes up.
ComposeReads(c) ==
  /\ updCompose[c].at = "starting"
  /\ updCompose' = [updCompose EXCEPT ![c].at = "running",
                                      ![c].files = updCopy[updCompose[c].pkg]]
  /\ UNCHANGED <<updTags, updList, updDisk, updContainers, updFailed, updSessions,
                 updDoubtful>>

\* It installs what it has read, whatever others have done since, or it fails,
\* of which nobody hears.
ComposeEnds(c) ==
  LET p == updCompose[c].pkg IN
    /\ updCompose[c].at # "none"
    /\ updCompose' = [updCompose EXCEPT ![c] = NoCompose]
    /\ \/ /\ updCompose[c].at = "running"
          /\ updContainers' = [updContainers EXCEPT ![p] = updCompose[c].files]
          /\ updFailed' = updFailed \ {p}
       \/ /\ updFailed' = updFailed \union {p}
          /\ UNCHANGED updContainers
    /\ UNCHANGED <<updTags, updList, updDisk, updSessions, updDoubtful>>

\* The process dies, for instance because it updates itself, and starts again.
Restart ==
  /\ updVersions' = [p \in Packages |-> {}]
  /\ updFresh' = {}
  /\ updSessions' = [s \in Sessions |-> Idle]
  /\ UNCHANGED <<updTags, updLocal, updDisk, updHost, updDoubtful>>

-----------------------------------------------------------------------------
(* Versions.                                                               *)

At(s, at) == updSessions[s].at = at
Pkg(s) == updSessions[s].pkg
Goto(s, at) == updSessions' = [updSessions EXCEPT ![s].at = at]
GiveUp(s) == updSessions' = [updSessions EXCEPT ![s] = Idle]

\* A session shows all packages, or updates them all, one after the other from the
\* first; either asks for the versions, so that it is chosen later which it is.
Begin(s) ==
  /\ At(s, "idle")
  /\ Goto(s, "versions")
  /\ UNCHANGED <<updTags, updList, updDisk, updHost, updDoubtful>>

\* The list is taken as it is for ten seconds after a check was begun.
CheckVersions(s) ==
  /\ At(s, "versions")
  /\ IF Pkg(s) \in updFresh
       THEN /\ Goto(s, "listed")
            /\ UNCHANGED updFresh
       ELSE /\ Goto(s, "fetch")
            /\ updFresh' = updFresh \union {Pkg(s)}
  /\ UNCHANGED <<updTags, updLocal, updVersions, updDisk, updHost, updDoubtful>>

\* The tags are fetched and the list is cleared to be filled again.
Fetch(s) ==
  /\ At(s, "fetch")
  /\ updLocal' = [updLocal EXCEPT ![Pkg(s)] = updTags[Pkg(s)]]
  /\ updVersions' = [updVersions EXCEPT ![Pkg(s)] = {}]
  /\ updSessions' = [updSessions EXCEPT ![s].at = "fill",
                                        ![s].left = 1 .. updTags[Pkg(s)]]
  /\ UNCHANGED <<updTags, updFresh, updDisk, updHost, updDoubtful>>

\* The fetch throws, and with it the update of all packages or the page.
FetchFails(s) ==
  /\ At(s, "fetch")
  /\ GiveUp(s)
  /\ UNCHANGED <<updTags, updList, updDisk, updHost, updDoubtful>>

NextPackage(s) ==
  updSessions' = [updSessions EXCEPT ![s] =
    IF Pkg(s) + 1 < PackageCount THEN [Idle EXCEPT !.at = "versions", !.pkg = Pkg(s) + 1]
    ELSE Idle]

\* Another session fills the list of p.
OtherFills(s, p) == \E t \in Sessions \ {s} : At(t, "fill") /\ Pkg(t) = p

\* The tags are added in the order of their names, not of their versions.  An
\* addition may be lost to one that another session makes at the same time.
AddVersion(s) ==
  /\ At(s, "fill")
  /\ IF updSessions[s].left = {}
       THEN /\ Goto(s, "listed")
            /\ UNCHANGED updVersions
       ELSE \E v \in updSessions[s].left :
              /\ \/ updVersions' = [updVersions EXCEPT ![Pkg(s)] = @ \union {v}]
                 \/ OtherFills(s, Pkg(s)) /\ UNCHANGED updVersions
              /\ updSessions' = [updSessions EXCEPT ![s].left = @ \ {v}]
  /\ UNCHANGED <<updTags, updLocal, updFresh, updDisk, updHost, updDoubtful>>

\* The page shows the package.
Show(s) ==
  /\ At(s, "listed")
  /\ NextPackage(s)
  /\ UNCHANGED <<updTags, updList, updDisk, updHost, updDoubtful>>

-----------------------------------------------------------------------------
(* Update, one package after the other.                                    *)

Filled(p) == \E s \in Sessions : At(s, "fill") /\ Pkg(s) = p
\* The list does not hold all tags, or may not for long.
Incomplete(p) == Filled(p) \/ updVersions[p] # 1 .. updLocal[p]

\* The sessions between the decision and the record of an update of p, and the
\* composes of p on the host.
Working(p) ==
  {s \in Sessions : Pkg(s) = p /\ updSessions[s].at \in {"checkout", "compose", "record"}}
UnderWay(p) == {c \in Composes : updCompose[c].at # "none" /\ updCompose[c].pkg = p}

\* History: what an update decided about now makes of the doubts about p.  Only
\* one that is alone, and decided on all the tags, dispels them.
Doubts(p) ==
  IF Incomplete(p) \/ Working(p) # {} THEN updDoubtful \union {p}
  ELSE IF UnderWay(p) = {} THEN updDoubtful \ {p} ELSE updDoubtful

\* The record is compared with the version that is wanted.
DecideOn(s, latest) ==
  IF updRecord[Pkg(s)] = latest
    THEN NextPackage(s) /\ UNCHANGED updDoubtful
    ELSE /\ updSessions' = [updSessions EXCEPT ![s].at = "checkout",
                                               ![s].latest = latest]
         /\ updDoubtful' = Doubts(Pkg(s))

\* Mutant: the versions are not ordered.
Decide_AnyVersion(s) ==
  /\ At(s, "listed")
  /\ \E latest \in updVersions[Pkg(s)] : DecideOn(s, latest)
  /\ UNCHANGED <<updTags, updList, updDisk, updHost>>

\* The highest version of the list is wanted, unless it is the recorded one.
Decide(s) ==
  /\ At(s, "listed")
  /\ \E latest \in updVersions[Pkg(s)] :
       /\ \A v \in updVersions[Pkg(s)] : v <= latest
       /\ DecideOn(s, latest)
  /\ UNCHANGED <<updTags, updList, updDisk, updHost>>

\* There is no latest version in an empty list: a null reference.  And a list
\* that is being filled may not be enumerated.
DecideThrows(s) ==
  /\ At(s, "listed")
  /\ updVersions[Pkg(s)] = {} \/ Filled(Pkg(s))
  /\ GiveUp(s)
  /\ UNCHANGED <<updTags, updList, updDisk, updHost, updDoubtful>>

Checkout(s) ==
  /\ At(s, "checkout")
  /\ updCopy' = [updCopy EXCEPT ![Pkg(s)] = updSessions[s].latest]
  /\ Goto(s, "compose")
  /\ UNCHANGED <<updTags, updList, updRecord, updHost, updDoubtful>>

\* Mutant: the state is recorded whether the host was reached or not.
RunCompose_RecordsAnyway(s) ==
  /\ At(s, "compose")
  /\ Goto(s, "record")
  /\ UNCHANGED <<updTags, updList, updDisk, updHost, updDoubtful>>

\* The command is sent; the shell on the host puts compose in the background,
\* beside those that are there.
RunCompose(s) ==
  /\ At(s, "compose")
  /\ \E c \in Composes :
       /\ updCompose[c].at = "none"
       /\ \A d \in 0 .. c - 1 : updCompose[d].at # "none"
       /\ updCompose' = [updCompose EXCEPT ![c] = [at |-> "starting", pkg |-> Pkg(s),
                                                   files |-> 0]]
  /\ updDoubtful' = IF UnderWay(Pkg(s)) = {} THEN updDoubtful
                    ELSE updDoubtful \union {Pkg(s)}
  /\ Goto(s, "record")
  /\ UNCHANGED <<updTags, updList, updDisk, updContainers, updFailed>>

\* Checkout, the search for the files, ssh or the state file throws: what was
\* done stays done, and the packages behind this one are not updated.
UpdateFails(s) ==
  /\ updSessions[s].at \in {"checkout", "compose", "record"}
  /\ GiveUp(s)
  /\ UNCHANGED <<updTags, updList, updDisk, updHost, updDoubtful>>

Record(s) ==
  /\ At(s, "record")
  /\ updRecord' = [updRecord EXCEPT ![Pkg(s)] = updSessions[s].latest]
  /\ NextPackage(s)
  /\ UNCHANGED <<updTags, updList, updCopy, updHost, updDoubtful>>

-----------------------------------------------------------------------------
Versions(s) ==
  Begin(s) \/ CheckVersions(s) \/ Fetch(s) \/ FetchFails(s) \/ AddVersion(s) \/ Show(s)
Update(s) ==
  Decide(s) \/ DecideThrows(s) \/ Checkout(s) \/ RunCompose(s) \/ UpdateFails(s)
    \/ Record(s)

UpdNext ==
  \/ \E p \in Packages : TagVersion(p) \/ TenSecondsPass(p)
  \/ \E c \in Composes : ComposeReads(c) \/ ComposeEnds(c)
  \/ Restart
  \/ \E s \in Sessions : Versions(s) \/ Update(s)

UpdSpec == UpdInit /\ [][UpdNext]_updVars

-----------------------------------------------------------------------------
(* Properties, for any number of sessions that update.                     *)

\* The containers of p are of version v, or have failed to become so, or the one
\* compose under way will install v unless it fails.
Runs(p, v) ==
  IF UnderWay(p) = {} THEN updContainers[p] = v \/ p \in updFailed
  ELSE \A c \in UnderWay(p) : updCompose[c].at = "running" => updCompose[c].files = v

\* An update does nothing if the record says the newest version.  The record can
\* be trusted that far if the last update of the package met no other one and no
\* older compose, whatever failed or died before and on the way: that version is
\* checked out, and it runs or its compose is under way, unless compose failed.
RecordTrusted ==
  \A p \in Packages \ updDoubtful :
    (updRecord[p] > 0 /\ updRecord[p] = updLocal[p] /\ Working(p) = {})
      => updCopy[p] = updRecord[p] /\ Runs(p, updRecord[p])

\* A package goes back to an older version only if the version was taken from a
\* list that was not complete, or if two sessions updated the package at once.
GoesBackIfDoubtful ==
  [][\A p \in Packages : updRecord'[p] < updRecord[p] => p \in updDoubtful]_updVars
=============================================================================
