------------------------------ MODULE Installer ------------------------------
(***************************************************************************)
(* Installing, updating and uninstalling the managed files in a repository *)
(* (toolkit/ztad/installer.py).                                            *)
(*                                                                         *)
(* A call first plans: it compares every file with what it would ship and  *)
(* with the manifest of the last call.  It then writes the files one by    *)
(* one, merges its block into AGENTS.md and writes the manifest last.  It  *)
(* can die between any two of these steps, and a user edits files before,  *)
(* after and in the middle.  An operator repeats the call for the version  *)
(* wanted.  One installer runs at a time.                                  *)
(*                                                                         *)
(* A file is its content.  Symbolic links and anything else that makes a   *)
(* plan BLOCK, which changes nothing, are left out.                        *)
(***************************************************************************)
EXTENDS Integers, FiniteSets

CONSTANTS
  Versions,
  Ships,          \* Ships[v][p]: the content version v ships as file p, or None
  Block,          \* Block[v]: its block of AGENTS.md
  UserContents,   \* what a user writes
  None,
  MaxWishes, MaxEdits, MaxCrashes   \* bounds

AGENTS == 0
Paths == UNION {DOMAIN Ships[v] : v \in Versions}      \* in their sorted order
Places == Paths \cup {AGENTS}
Shipped(v) == {p \in Paths : v # None /\ Ships[v][p] # None}
Desired(v, place) == IF place = AGENTS THEN Block[v] ELSE Ships[v][place]
Contents == {Desired(v, place) : v \in Versions, place \in Places} \cup UserContents

Actions == {"CREATE", "UPDATE", "NOOP", "PRESERVE_CONFLICT", "PRESERVE_CONFLICT_NOOP"}

ASSUME InstallerAssumption ==
  /\ \A v \in Versions : DOMAIN Ships[v] = Paths /\ Block[v] # None
  /\ Paths \subseteq Nat \ {AGENTS}
  /\ MaxWishes \in Nat /\ MaxEdits \in Nat /\ MaxCrashes \in Nat
  /\ UserContents \cap {Desired(v, place) : v \in Versions, place \in Places} = {}
  /\ None \notin UserContents \cup Actions

VARIABLES
  disk,        \* disk[place]: the content of the file, or of the block; None if there is none
  candidates,  \* the .ztad.new files: <<place, content>>
  manifest,    \* manifest[place]: the content on record; None where there is none
  recorded,    \* there is a manifest
  call,        \* the running call, or None
  wish,        \* the version the operator wants; None: uninstalled
  own,         \* auxiliary: places that hold what a user wrote while no call was running, other
               \* than what is on record for them
  strays,      \* auxiliary: places that hold what a call wrote that died before its manifest,
               \* and that no manifest has recorded since
  wishes, edits, crashes

vars == <<disk, candidates, manifest, recorded, call, wish, own, strays, wishes, edits, crashes>>

\* What apply_install and uninstall keep in local variables.
Calls ==
  [ version : Versions \cup {None},           \* None: uninstall
    plan : [Places -> Actions \cup {None}],
    todo : SUBSET Places,                     \* places not dealt with yet
    managed : [Places -> Contents \cup {None}],
    applied : BOOLEAN ]                       \* something has been written

InstallerTypeOK ==
  /\ disk \in [Places -> Contents \cup {None}]
  /\ candidates \subseteq Places \X Contents
  /\ manifest \in [Places -> Contents \cup {None}]
  /\ ~recorded => manifest = [place \in Places |-> None]
  /\ recorded \in BOOLEAN
  /\ call \in Calls \cup {None}
  /\ wish \in Versions \cup {None}
  /\ own \subseteq Places /\ strays \subseteq Places
  /\ wishes \in 0..MaxWishes /\ edits \in 0..MaxEdits /\ crashes \in 0..MaxCrashes

\* A repository without the product; what is there is a user's.
Init ==
  /\ disk \in [Places -> UserContents \cup {None}]
  /\ own = {place \in Places : disk[place] # None} /\ strays = {}
  /\ candidates = {} /\ recorded = FALSE
  /\ manifest = [place \in Places |-> None]
  /\ call = None
  /\ wish \in Versions
  /\ wishes = 0 /\ edits = 0 /\ crashes = 0

-----------------------------------------------------------------------------
\* Mutant: a file on record is taken to be as it was recorded.
PlannedByName(v, place) ==
  CASE disk[place] = None -> "CREATE"
    [] disk[place] = Desired(v, place) -> "NOOP"
    [] disk[place] # None /\ disk[place] # Desired(v, place) /\ manifest[place] # None -> "UPDATE"
    [] OTHER -> IF <<place, Desired(v, place)>> \in candidates
                THEN "PRESERVE_CONFLICT_NOOP" ELSE "PRESERVE_CONFLICT"

\* The action for a file that is shipped (plan), and for the block (_agents_plan, whose MERGE and
\* UPDATE_BLOCK are CREATE and UPDATE here).  An identical candidate is not written again.
Planned(v, place) ==
  CASE disk[place] = None -> "CREATE"
    [] disk[place] = Desired(v, place) -> "NOOP"
    [] disk[place] \notin {None, Desired(v, place)} /\ disk[place] = manifest[place] -> "UPDATE"
    [] OTHER -> IF <<place, Desired(v, place)>> \in candidates
                THEN "PRESERVE_CONFLICT_NOOP" ELSE "PRESERVE_CONFLICT"

OnRecord == {p \in Paths : manifest[p] # None}

\* plan and _load_manifest at the start of apply_install, _load_manifest at that of uninstall.
Begin ==
  /\ call = None
  /\ call' =
       [ version |-> wish,
         plan |-> [place \in Places |->
                     IF wish # None /\ place \in Shipped(wish) \cup {AGENTS}
                     THEN Planned(wish, place) ELSE None],
         todo |-> OnRecord \cup {AGENTS} \cup Shipped(wish),
         managed |-> [place \in Places |-> None],
         applied |-> FALSE ]
  /\ UNCHANGED <<disk, candidates, manifest, recorded, wish, own, strays, wishes, edits, crashes>>

\* The files that are shipped in their order, then the others on record, AGENTS.md last.
Turn(place) ==
  /\ call # None /\ place \in call.todo
  /\ LET first == Shipped(call.version)
         next == IF call.todo \cap first # {} THEN call.todo \cap first
                 ELSE IF call.todo # {AGENTS} THEN call.todo \ {AGENTS} ELSE {AGENTS}
     IN  \A other \in next : place \in next /\ place <= other

\* The place is dealt with.
Done(place, content, applied) ==
  call' = [call EXCEPT !.todo = @ \ {place}, !.managed[place] = content,
                       !.applied = @ \/ applied]

Write(place) ==
  /\ disk' = [disk EXCEPT ![place] = Desired(call.version, place)]
  /\ Done(place, Desired(call.version, place), TRUE)
  /\ strays' = strays \ {place}
  /\ UNCHANGED candidates

\* The call is over before its manifest: what it wrote is on no record.
Die ==
  /\ call' = None
  /\ strays' = strays \cup
       {place \in Places \ call.todo : /\ call.plan[place] \in {"CREATE", "UPDATE"}
                                       /\ disk[place] = Desired(call.version, place)}

\* What was to stay is recorded as it is now.  A file that has been deleted in the meantime
\* cannot be read, and the call dies.
Keep(place) ==
  /\ IF disk[place] = None /\ place # AGENTS THEN Die
     ELSE Done(place, disk[place], FALSE) /\ UNCHANGED strays
  /\ UNCHANGED <<disk, candidates>>

WriteCandidate(place) ==
  /\ candidates' = candidates \cup {<<place, Desired(call.version, place)>>}
  /\ Done(place, manifest[place], TRUE)
  /\ UNCHANGED <<disk, strays>>

KeepCandidate(place) ==
  /\ Done(place, manifest[place], FALSE)
  /\ UNCHANGED <<disk, candidates, strays>>

\* apply_install: one file that is shipped, or the block, as planned.
Apply(place) ==
  /\ Turn(place) /\ call.version # None
  /\ CASE call.plan[place] \in {"CREATE", "UPDATE"} -> Write(place)
       [] call.plan[place] = "NOOP" -> Keep(place)
       [] call.plan[place] = "PRESERVE_CONFLICT" -> WriteCandidate(place)
       [] call.plan[place] = "PRESERVE_CONFLICT_NOOP" -> KeepCandidate(place)
       [] OTHER -> FALSE
  /\ UNCHANGED <<manifest, recorded, wish, own, wishes, edits, crashes>>

\* What is on record is removed, unless it has been changed.
Unlink(place, preserved) ==
  IF disk[place] # None /\ disk[place] = manifest[place]
  THEN /\ disk' = [disk EXCEPT ![place] = None]
       /\ strays' = strays \ {place}
       /\ Done(place, None, TRUE)
  ELSE /\ Done(place, IF disk[place] = None THEN None ELSE preserved, FALSE)
       /\ UNCHANGED <<disk, strays>>

\* Mutant: a file that is gone stays on record.
RemoveAllOnRecord(place) ==
  /\ Turn(place) /\ place # AGENTS
  /\ place \notin Shipped(call.version)
  /\ IF disk[place] = manifest[place]
     THEN disk' = [disk EXCEPT ![place] = None] /\ Done(place, None, TRUE)
     ELSE Done(place, manifest[place], FALSE) /\ UNCHANGED disk
  /\ UNCHANGED strays
  /\ UNCHANGED <<candidates, manifest, recorded, wish, own, wishes, edits, crashes>>

\* apply_install of a file no longer shipped, and uninstall of any.
Remove(place) ==
  /\ Turn(place) /\ place # AGENTS
  /\ place \notin Shipped(call.version)
  /\ Unlink(place, manifest[place])
  /\ UNCHANGED <<candidates, manifest, recorded, wish, own, wishes, edits, crashes>>

\* uninstall of the block.
RemoveBlock ==
  /\ Turn(AGENTS) /\ call.version = None
  /\ Unlink(AGENTS, disk[AGENTS])
  /\ UNCHANGED <<candidates, manifest, recorded, wish, own, wishes, edits, crashes>>

\* apply_install ends: if nothing was written and there is a manifest, it is left as it is.  The
\* block on record is the version's own, whatever is in AGENTS.md.
FinishInstall ==
  /\ call # None /\ call.version # None /\ call.todo = {}
  /\ IF ~call.applied /\ recorded
     THEN UNCHANGED <<manifest, recorded, strays>>
     ELSE /\ manifest' = [call.managed EXCEPT ![AGENTS] = Block[call.version]]
          /\ recorded' = TRUE
          /\ strays' = {place \in strays : disk[place] # manifest'[place]}
  /\ call' = None
  /\ UNCHANGED <<disk, candidates, wish, own, wishes, edits, crashes>>

\* Mutant: the manifest goes, whatever remains.
FinishUninstallAll ==
  /\ call # None /\ call.version = None /\ call.todo = {}
  /\ manifest' = call.managed
  /\ recorded' = FALSE
  /\ call' = None
  /\ UNCHANGED <<disk, candidates, wish, own, strays, wishes, edits, crashes>>

\* uninstall ends: the manifest goes, unless files or a block that were changed remain; then it
\* keeps those files, and the block it had.
FinishUninstall ==
  /\ call # None /\ call.version = None /\ call.todo = {}
  /\ LET remaining == \E p \in Paths : call.managed[p] # None
         preserved == call.managed[AGENTS] # None
     IN  IF remaining \/ preserved
         THEN /\ manifest' = [call.managed EXCEPT ![AGENTS] = manifest[AGENTS]]
              /\ recorded' = TRUE
         ELSE /\ manifest' = [place \in Places |-> None]
              /\ recorded' = FALSE
  /\ call' = None
  /\ UNCHANGED <<disk, candidates, wish, own, strays, wishes, edits, crashes>>

-----------------------------------------------------------------------------
Crash ==
  /\ call # None /\ crashes < MaxCrashes
  /\ Die
  /\ crashes' = crashes + 1
  /\ UNCHANGED <<disk, candidates, manifest, recorded, wish, own, wishes, edits>>

\* A user writes or deletes a file, or the block.
Edit(place) ==
  /\ edits < MaxEdits
  /\ \E content \in (UserContents \cup {None}) \ {disk[place]} :
       /\ disk' = [disk EXCEPT ![place] = content]
       /\ own' = IF call = None /\ content \notin {None, manifest[place]}
                 THEN own \cup {place} ELSE own \ {place}
  /\ strays' = strays \ {place}
  /\ edits' = edits + 1
  /\ UNCHANGED <<candidates, manifest, recorded, call, wish, wishes, crashes>>

\* The operator wants another version, or none.
Wish ==
  /\ wishes < MaxWishes
  /\ wish' \in (Versions \cup {None}) \ {wish}
  /\ wishes' = wishes + 1
  /\ UNCHANGED <<disk, candidates, manifest, recorded, call, own, strays, edits, crashes>>

Step ==
  \/ Begin
  \/ \E place \in Places : Apply(place) \/ Remove(place)
  \/ RemoveBlock \/ FinishInstall \/ FinishUninstall

Next == Step \/ Crash \/ (\E place \in Places : Edit(place)) \/ Wish

Spec == Init /\ [][Next]_vars

\* A call runs on until it ends or dies, and the operator repeats it.
FairSpec == Spec /\ WF_vars(Step)

-----------------------------------------------------------------------------
\* "Never overwrite an unmanaged or locally modified file": what a user wrote while no call was
\* running, other than what is on record, is changed by the user only, whichever versions come
\* and go over it, wherever a call died and whatever the manifest says by then.
UserWorkKept == [][\A place \in own : disk'[place] # disk[place] => edits' # edits]_vars

\* Nothing of the product is left in a place, but for what a call that died left unrecorded.
Clear(place) == disk[place] \in UserContents \cup {None} \/ place \in strays

\* What a version ships is in its place, or beside what a user has there.
Provided(v, place) ==
  \/ disk[place] = Desired(v, place)
  \/ disk[place] \in UserContents /\ <<place, Desired(v, place)>> \in candidates
  \/ place \in strays

\* Something is left that is not as it was recorded, which keeps the manifest.
Changed == disk[AGENTS] # None \/ \E p \in OnRecord : disk[p] \notin {None, manifest[p]}

\* Repeating the call for the version wanted comes to an end at it: all it ships is in place, or
\* beside a user's file; all else of the product is removed; and a repeated uninstallation
\* leaves nothing of it, nor the manifest unless something on record was changed.  Excepted are
\* the files a call wrote that died before its manifest: a later call may record them, but
\* one that finds nothing to write does not, and one for another version takes them for a user's.
InstallConverges ==
  <>[](IF wish = None
       THEN (\A place \in Places : Clear(place)) /\ (recorded => Changed)
       ELSE /\ \A p \in Paths \ Shipped(wish) : Clear(p)
            /\ \A place \in Shipped(wish) \cup {AGENTS} : Provided(wish, place))
=============================================================================
