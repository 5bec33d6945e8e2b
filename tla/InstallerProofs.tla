--------------------------- MODULE InstallerProofs ---------------------------
(***************************************************************************)
(* For any versions, files and users, and any number of edits, crashes and *)
(* changes of mind: the installer changes nothing a user wrote while it    *)
(* was not running.                                                        *)
(*                                                                         *)
(* Such a file differs from what is on record and from all that is ever    *)
(* shipped, so it is planned for a candidate; and what a call will write   *)
(* into the manifest for it is what is on record already, or nothing.  So  *)
(* it differs from the record still when the call has ended, or has died.  *)
(***************************************************************************)
EXTENDS Installer, TLAPS

\* What a user wrote is apart from what is on record, and no call is about to change that.
OwnApart ==
  \A place \in own :
    /\ disk[place] \in UserContents
    /\ disk[place] # manifest[place]
    /\ call # None =>
         /\ place \in call.todo => call.plan[place] \notin {"CREATE", "UPDATE", "NOOP"}
         /\ place # AGENTS => call.managed[place] \in {None, manifest[place]}

InstallInv == InstallerTypeOK /\ OwnApart

-----------------------------------------------------------------------------
LEMMA DesiredTyped ==
  ASSUME NEW v \in Versions, NEW place \in Places
  PROVE  /\ Desired(v, place) \in Contents
         /\ Desired(v, place) \notin UserContents
BY InstallerAssumption DEF Contents

LEMMA AgentsApart == AGENTS \in Places /\ AGENTS \notin Paths
BY InstallerAssumption DEF Places

LEMMA ShippedPaths == \A v : Shipped(v) \subseteq Paths /\ Shipped(v) \subseteq Places
BY DEF Shipped, Places

\* A user's content is planned for a candidate, unless it is what is on record.
LEMMA PlannedTyped ==
  ASSUME NEW v \in Versions, NEW place \in Places
  PROVE  /\ Planned(v, place) \in Actions
         /\ disk[place] \in UserContents /\ disk[place] # manifest[place]
              => Planned(v, place) \notin {"CREATE", "UPDATE", "NOOP"}
<1>1. Planned(v, place) \in Actions
  BY DEF Planned, Actions
<1>2. ASSUME disk[place] \in UserContents, disk[place] # manifest[place]
      PROVE  Planned(v, place) \notin {"CREATE", "UPDATE", "NOOP"}
  <2>1. disk[place] # None /\ disk[place] # Desired(v, place)
    BY <1>2, DesiredTyped, InstallerAssumption
  <2> QED BY <1>2, <2>1 DEF Planned
<1> QED BY <1>1, <1>2

LEMMA DoneTyped ==
  ASSUME InstallerTypeOK, call # None, NEW place \in Places,
         NEW content \in Contents \cup {None}, NEW applied \in BOOLEAN,
         Done(place, content, applied)
  PROVE  /\ call' \in Calls
         /\ call'.todo = call.todo \ {place}
         /\ call'.plan = call.plan
         /\ call'.version = call.version
         /\ call'.managed = [call.managed EXCEPT ![place] = content]
<1>1. call \in Calls
  BY DEF InstallerTypeOK
<1>2. /\ call'.todo = call.todo \ {place}
      /\ call'.plan = call.plan
      /\ call'.version = call.version
      /\ call'.managed = [call.managed EXCEPT ![place] = content]
      /\ call'.applied = (call.applied \/ applied)
  BY <1>1 DEF Done, Calls
<1>3. call' = [version |-> call.version, plan |-> call.plan, todo |-> call.todo \ {place},
               managed |-> [call.managed EXCEPT ![place] = content],
               applied |-> (call.applied \/ applied)]
  BY <1>1 DEF Done, Calls
<1>4. /\ [call.managed EXCEPT ![place] = content] \in [Places -> Contents \cup {None}]
      /\ call.todo \ {place} \in SUBSET Places
      /\ (call.applied \/ applied) \in BOOLEAN
  BY <1>1 DEF Calls
<1>5. call' \in Calls
  BY <1>1, <1>3, <1>4 DEF Calls
<1> QED BY <1>2, <1>5

\* A place is dealt with, and no file of a user's is touched nor forgotten.
LEMMA DonePlace ==
  ASSUME InstallInv, call # None, NEW place \in Places,
         NEW content \in Contents \cup {None}, NEW applied \in BOOLEAN,
         Done(place, content, applied),
         place \in own /\ place # AGENTS => content \in {None, manifest[place]},
         disk' \in [Places -> Contents \cup {None}],
         \A other \in own : disk'[other] = disk[other],
         candidates' \subseteq Places \X Contents, strays' \subseteq Places,
         UNCHANGED <<manifest, recorded, wish, own, wishes, edits, crashes>>
  PROVE  InstallInv'
<1>1. /\ call' \in Calls
      /\ call'.todo = call.todo \ {place}
      /\ call'.plan = call.plan
      /\ call'.managed = [call.managed EXCEPT ![place] = content]
  BY DoneTyped DEF InstallInv
<1>2. InstallerTypeOK'
  BY <1>1 DEF InstallInv, InstallerTypeOK
<1>3. call.managed \in [Places -> Contents \cup {None}] /\ own \subseteq Places
  BY DEF InstallInv, InstallerTypeOK, Calls
<1>4. OwnApart'
  <2> SUFFICES ASSUME NEW other \in own
               PROVE  /\ disk'[other] \in UserContents
                      /\ disk'[other] # manifest[other]
                      /\ other \in call'.todo => call'.plan[other] \notin {"CREATE", "UPDATE", "NOOP"}
                      /\ other # AGENTS => call'.managed[other] \in {None, manifest[other]}
    BY DEF OwnApart
  <2>1. /\ disk'[other] \in UserContents
        /\ disk'[other] # manifest[other]
        /\ other \in call'.todo => call'.plan[other] \notin {"CREATE", "UPDATE", "NOOP"}
    BY <1>1 DEF InstallInv, OwnApart
  <2>2. CASE other = place
    BY <1>1, <1>3, <2>1, <2>2
  <2>3. CASE other # place
    BY <1>1, <1>3, <2>1, <2>3 DEF InstallInv, OwnApart
  <2> QED BY <2>2, <2>3
<1> QED BY <1>2, <1>4 DEF InstallInv

\* A call dies or ends, and the manifest, if it is rewritten, has nothing new of a user's.
LEMMA CallEnds ==
  ASSUME InstallInv, call' = None,
         manifest' \in [Places -> Contents \cup {None}], recorded' \in BOOLEAN,
         ~recorded' => manifest' = [place \in Places |-> None],
         \A place \in own : disk[place] # manifest'[place],
         crashes' \in 0..MaxCrashes, strays' \subseteq Places,
         UNCHANGED <<disk, candidates, wish, own, wishes, edits>>
  PROVE  InstallInv'
BY DEF InstallInv, InstallerTypeOK, OwnApart

-----------------------------------------------------------------------------
LEMMA InstallInitInv == Init => InstallInv
<1> SUFFICES ASSUME Init PROVE InstallInv
  OBVIOUS
<1>1. InstallerTypeOK
  <2>1. disk \in [Places -> Contents \cup {None}]
    BY DEF Init, Contents
  <2>2. wishes \in 0..MaxWishes /\ edits \in 0..MaxEdits /\ crashes \in 0..MaxCrashes
    BY InstallerAssumption DEF Init
  <2> QED BY <2>1, <2>2 DEF Init, InstallerTypeOK
<1>2. OwnApart
  BY InstallerAssumption DEF Init, OwnApart
<1> QED BY <1>1, <1>2 DEF InstallInv

LEMMA BeginInv ==
  ASSUME InstallInv, Begin
  PROVE  InstallInv'
<1> DEFINE plan == [place \in Places |->
                      IF wish # None /\ place \in Shipped(wish) \cup {AGENTS}
                      THEN Planned(wish, place) ELSE None]
           todo == OnRecord \cup {AGENTS} \cup Shipped(wish)
           managed == [place \in Places |-> None]
<1>1. /\ call' = [version |-> wish, plan |-> plan, todo |-> todo, managed |-> managed,
                  applied |-> FALSE]
      /\ UNCHANGED <<disk, candidates, manifest, recorded, wish, own, strays, wishes, edits, crashes>>
  BY DEF Begin
<1>2. wish \in Versions \cup {None} /\ own \subseteq Places
  BY DEF InstallInv, InstallerTypeOK
<1>3. plan \in [Places -> Actions \cup {None}]
  BY <1>2, PlannedTyped
<1>4. todo \in SUBSET Places
  BY AgentsApart, ShippedPaths DEF OnRecord, Places
<1>5. \A place \in own : plan[place] \notin {"CREATE", "UPDATE", "NOOP"}
  <2> SUFFICES ASSUME NEW place \in own PROVE plan[place] \notin {"CREATE", "UPDATE", "NOOP"}
    OBVIOUS
  <2>1. CASE wish # None /\ place \in Shipped(wish) \cup {AGENTS}
    BY <1>2, <2>1, PlannedTyped DEF InstallInv, OwnApart
  <2>2. CASE ~ (wish # None /\ place \in Shipped(wish) \cup {AGENTS})
    <3>1. plan[place] = None
      BY <1>2, <2>2
    <3> QED BY <3>1, InstallerAssumption DEF Actions
  <2> QED BY <2>1, <2>2
<1> HIDE DEF plan, todo
<1>6. call' \in Calls
  BY <1>1, <1>2, <1>3, <1>4 DEF Calls
<1>7. InstallerTypeOK'
  BY <1>1, <1>6 DEF InstallInv, InstallerTypeOK
<1>8. OwnApart'
  BY <1>1, <1>2, <1>5 DEF InstallInv, OwnApart
<1> QED BY <1>7, <1>8 DEF InstallInv

\* A place whose turn it is, and what is known of the call.
LEMMA TurnTyped ==
  ASSUME InstallInv, NEW place, Turn(place)
  PROVE  /\ call # None /\ call \in Calls
         /\ place \in call.todo /\ place \in Places
         /\ call.version # None => call.version \in Versions
         /\ disk \in [Places -> Contents \cup {None}]
         /\ manifest \in [Places -> Contents \cup {None}]
         /\ candidates \subseteq Places \X Contents
         /\ own \subseteq Places /\ strays \subseteq Places
BY DEF InstallInv, InstallerTypeOK, Turn, Calls

LEMMA ApplyInv ==
  ASSUME InstallInv, NEW place \in Places, Apply(place)
  PROVE  /\ InstallInv'
         /\ \A other \in own : disk'[other] = disk[other]
<1>1. /\ Turn(place) /\ call.version # None
      /\ UNCHANGED <<manifest, recorded, wish, own, wishes, edits, crashes>>
  BY DEF Apply
<1>2. /\ call # None /\ place \in call.todo /\ call.version \in Versions
      /\ disk \in [Places -> Contents \cup {None}]
      /\ manifest \in [Places -> Contents \cup {None}]
      /\ candidates \subseteq Places \X Contents
      /\ own \subseteq Places /\ strays \subseteq Places
  BY <1>1, TurnTyped
<1>3. Desired(call.version, place) \in Contents
  BY <1>2, DesiredTyped
<1>4. place \in own => call.plan[place] \notin {"CREATE", "UPDATE", "NOOP"}
  BY <1>2 DEF InstallInv, OwnApart
<1>5. CASE call.plan[place] \in {"CREATE", "UPDATE"} /\ Write(place)
  <2>1. place \notin own
    BY <1>4, <1>5
  <2>2. /\ disk' = [disk EXCEPT ![place] = Desired(call.version, place)]
        /\ Done(place, Desired(call.version, place), TRUE)
        /\ candidates' = candidates /\ strays' \subseteq Places
    BY <1>2, <1>5 DEF Write
  <2>3. /\ disk' \in [Places -> Contents \cup {None}]
        /\ \A other \in own : disk'[other] = disk[other]
    BY <1>2, <1>3, <2>1, <2>2
  <2> QED BY <1>1, <1>2, <1>3, <2>1, <2>2, <2>3, DonePlace
<1>6. CASE call.plan[place] = "NOOP" /\ Keep(place)
  <2>1. place \notin own
    BY <1>4, <1>6
  <2>2. disk' = disk /\ candidates' = candidates
    BY <1>6 DEF Keep
  <2>3. CASE disk[place] = None /\ place # AGENTS
    <3>1. call' = None /\ strays' \subseteq Places
      BY <1>2, <1>6, <2>3 DEF Keep, Die
    <3> QED BY <1>1, <2>2, <3>1, CallEnds DEF InstallInv, InstallerTypeOK, OwnApart
  <2>4. CASE ~ (disk[place] = None /\ place # AGENTS)
    <3>1. /\ Done(place, disk[place], FALSE) /\ disk[place] \in Contents \cup {None}
          /\ strays' = strays
      BY <1>2, <1>6, <2>4 DEF Keep
    <3> QED BY <1>1, <1>2, <2>1, <2>2, <3>1, DonePlace
  <2> QED BY <2>3, <2>4
<1>7. CASE WriteCandidate(place) \/ KeepCandidate(place)
  <2>1. PICK applied \in BOOLEAN : Done(place, manifest[place], applied)
    BY <1>7 DEF WriteCandidate, KeepCandidate
  <2>2. disk' = disk /\ candidates' \subseteq Places \X Contents /\ strays' \subseteq Places
    <3> DEFINE new == <<place, Desired(call.version, place)>>
    <3>1. \/ candidates' = candidates
          \/ candidates' = candidates \cup {new}
      BY <1>7 DEF WriteCandidate, KeepCandidate
    <3>2. new \in Places \X Contents
      BY <1>3
    <3>3. disk' = disk /\ strays' = strays
      BY <1>7 DEF WriteCandidate, KeepCandidate
    <3> HIDE DEF new
    <3> QED BY <1>2, <3>1, <3>2, <3>3
  <2>3. manifest[place] \in Contents \cup {None}
    BY <1>2
  <2> QED BY <1>1, <1>2, <2>1, <2>2, <2>3, DonePlace
<1> QED BY <1>5, <1>6, <1>7 DEF Apply

\* A file or block that is removed is none of a user's.
LEMMA UnlinkInv ==
  ASSUME InstallInv, NEW place \in Places, NEW preserved \in Contents \cup {None},
         Turn(place), Unlink(place, preserved),
         place # AGENTS => preserved = manifest[place],
         UNCHANGED <<candidates, manifest, recorded, wish, own, wishes, edits, crashes>>
  PROVE  /\ InstallInv'
         /\ \A other \in own : disk'[other] = disk[other]
<1>1. /\ call # None
      /\ disk \in [Places -> Contents \cup {None}]
      /\ candidates \subseteq Places \X Contents
      /\ own \subseteq Places /\ strays \subseteq Places
  BY TurnTyped
<1>2. CASE disk[place] # None /\ disk[place] = manifest[place]
  <2>1. place \notin own
    BY <1>2 DEF InstallInv, OwnApart
  <2>2. /\ disk' = [disk EXCEPT ![place] = None] /\ Done(place, None, TRUE)
        /\ strays' \subseteq Places
    BY <1>1, <1>2 DEF Unlink
  <2>3. /\ disk' \in [Places -> Contents \cup {None}]
        /\ \A other \in own : disk'[other] = disk[other]
    BY <1>1, <2>1, <2>2
  <2> QED BY <1>1, <2>1, <2>2, <2>3, DonePlace
<1>3. CASE ~ (disk[place] # None /\ disk[place] = manifest[place])
  <2> DEFINE kept == IF disk[place] = None THEN None ELSE preserved
  <2>1. disk' = disk /\ Done(place, kept, FALSE) /\ strays' \subseteq Places
    BY <1>1, <1>3 DEF Unlink
  <2>2. kept \in Contents \cup {None} /\ (place # AGENTS => kept \in {None, manifest[place]})
    OBVIOUS
  <2> HIDE DEF kept
  <2> QED BY <1>1, <2>1, <2>2, DonePlace
<1> QED BY <1>2, <1>3

LEMMA RemoveInv ==
  ASSUME InstallInv, NEW place \in Places, Remove(place)
  PROVE  /\ InstallInv'
         /\ \A other \in own : disk'[other] = disk[other]
<1>1. manifest[place] \in Contents \cup {None}
  BY DEF InstallInv, InstallerTypeOK
<1> QED BY <1>1, UnlinkInv DEF Remove

LEMMA RemoveBlockInv ==
  ASSUME InstallInv, RemoveBlock
  PROVE  /\ InstallInv'
         /\ \A other \in own : disk'[other] = disk[other]
<1>1. disk[AGENTS] \in Contents \cup {None} /\ AGENTS \in Places
  BY AgentsApart DEF InstallInv, InstallerTypeOK
<1> QED BY <1>1, UnlinkInv DEF RemoveBlock

LEMMA FinishInstallInv ==
  ASSUME InstallInv, FinishInstall
  PROVE  InstallInv'
<1> DEFINE written == [call.managed EXCEPT ![AGENTS] = Block[call.version]]
<1>1. /\ call # None /\ call.version # None /\ call' = None
      /\ UNCHANGED <<disk, candidates, wish, own, wishes, edits, crashes>>
      /\ \/ UNCHANGED <<manifest, recorded>>
         \/ manifest' = written /\ recorded' = TRUE
      /\ strays' \subseteq Places
  BY DEF FinishInstall, InstallInv, InstallerTypeOK
<1>2. call.version \in Versions /\ call.managed \in [Places -> Contents \cup {None}]
  BY <1>1 DEF InstallInv, InstallerTypeOK, Calls
<1>3. /\ Block[call.version] \in Contents
      /\ Block[call.version] \notin UserContents
  BY <1>2, AgentsApart, DesiredTyped DEF Desired
<1>4. written \in [Places -> Contents \cup {None}]
  BY <1>2, <1>3
<1>5. \A place \in own : disk[place] # written[place]
  <2> SUFFICES ASSUME NEW place \in own PROVE disk[place] # written[place]
    OBVIOUS
  <2>1. /\ place \in Places /\ disk[place] \in UserContents /\ disk[place] # None
        /\ disk[place] # manifest[place]
        /\ place # AGENTS => call.managed[place] \in {None, manifest[place]}
    BY <1>1, InstallerAssumption DEF InstallInv, InstallerTypeOK, OwnApart
  <2>2. CASE place = AGENTS
    BY <1>2, <1>3, <2>1, <2>2
  <2>3. CASE place # AGENTS
    BY <1>2, <2>1, <2>3
  <2> QED BY <2>2, <2>3
<1> HIDE DEF written
<1>6. CASE UNCHANGED <<manifest, recorded>>
  BY <1>1, <1>6, CallEnds DEF InstallInv, InstallerTypeOK, OwnApart
<1>7. CASE manifest' = written /\ recorded' = TRUE
  <2>1. crashes' \in 0..MaxCrashes
    BY <1>1 DEF InstallInv, InstallerTypeOK
  <2> QED BY <1>1, <1>4, <1>5, <1>7, <2>1, CallEnds
<1> QED BY <1>1, <1>6, <1>7

LEMMA FinishUninstallInv ==
  ASSUME InstallInv, FinishUninstall
  PROVE  InstallInv'
<1> DEFINE written == [call.managed EXCEPT ![AGENTS] = manifest[AGENTS]]
           nothing == [place \in Places |-> None]
<1>1. /\ call # None /\ call' = None
      /\ UNCHANGED <<disk, candidates, wish, own, wishes, edits, crashes>>
      /\ \/ manifest' = written /\ recorded' = TRUE
         \/ manifest' = nothing /\ recorded' = FALSE
      /\ strays' \subseteq Places
  BY DEF FinishUninstall, InstallInv, InstallerTypeOK
<1>2. /\ call.managed \in [Places -> Contents \cup {None}]
      /\ manifest \in [Places -> Contents \cup {None}]
  BY <1>1 DEF InstallInv, InstallerTypeOK, Calls
<1>3. /\ written \in [Places -> Contents \cup {None}]
      /\ nothing \in [Places -> Contents \cup {None}]
  BY <1>2, AgentsApart
<1>4. \A place \in own : disk[place] # written[place] /\ disk[place] # nothing[place]
  <2> SUFFICES ASSUME NEW place \in own
               PROVE  disk[place] # written[place] /\ disk[place] # nothing[place]
    OBVIOUS
  <2>1. /\ place \in Places /\ disk[place] # None
        /\ disk[place] # manifest[place]
        /\ place # AGENTS => call.managed[place] \in {None, manifest[place]}
    BY <1>1, InstallerAssumption DEF InstallInv, InstallerTypeOK, OwnApart
  <2> QED BY <1>2, <2>1
<1> HIDE DEF written
<1> QED BY <1>1, <1>3, <1>4, CallEnds DEF InstallInv, InstallerTypeOK

LEMMA EditInv ==
  ASSUME InstallInv, NEW place \in Places, Edit(place)
  PROVE  InstallInv' /\ edits' # edits
<1>1. PICK content \in (UserContents \cup {None}) \ {disk[place]} :
        /\ disk' = [disk EXCEPT ![place] = content]
        /\ own' = IF call = None /\ content \notin {None, manifest[place]}
                  THEN own \cup {place} ELSE own \ {place}
        /\ strays' = strays \ {place}
  BY DEF Edit
<1>2. /\ edits < MaxEdits /\ edits' = edits + 1
      /\ UNCHANGED <<candidates, manifest, recorded, call, wish, wishes, crashes>>
  BY DEF Edit
<1>3. edits' \in 0..MaxEdits /\ edits' # edits
  BY <1>2, InstallerAssumption DEF InstallInv, InstallerTypeOK
<1>4. disk' \in [Places -> Contents \cup {None}] /\ own' \subseteq Places /\ strays' \subseteq Places
  BY <1>1 DEF InstallInv, InstallerTypeOK, Contents
<1>5. InstallerTypeOK'
  BY <1>2, <1>3, <1>4 DEF InstallInv, InstallerTypeOK
<1>6. OwnApart'
  <2> SUFFICES ASSUME NEW other \in own'
               PROVE  /\ disk'[other] \in UserContents
                      /\ disk'[other] # manifest[other]
                      /\ call # None =>
                           /\ other \in call.todo =>
                                call.plan[other] \notin {"CREATE", "UPDATE", "NOOP"}
                           /\ other # AGENTS => call.managed[other] \in {None, manifest[other]}
    BY <1>2 DEF OwnApart
  <2>1. disk \in [Places -> Contents \cup {None}]
    BY DEF InstallInv, InstallerTypeOK
  <2>2. CASE other = place
    BY <1>1, <2>1, <2>2
  <2>3. CASE other # place
    <3>1. other \in own /\ disk'[other] = disk[other]
      BY <1>1, <1>4, <2>1, <2>3
    <3> QED BY <3>1 DEF InstallInv, OwnApart
  <2> QED BY <2>2, <2>3
<1> QED BY <1>3, <1>5, <1>6 DEF InstallInv

LEMMA WishInv ==
  ASSUME InstallInv, Wish
  PROVE  InstallInv'
<1>1. wish' \in Versions \cup {None} /\ wishes' \in 0..MaxWishes
  BY InstallerAssumption DEF Wish, InstallInv, InstallerTypeOK
<1> QED BY <1>1 DEF Wish, InstallInv, InstallerTypeOK, OwnApart

LEMMA CrashInv ==
  ASSUME InstallInv, Crash
  PROVE  InstallInv'
<1>1. crashes' \in 0..MaxCrashes /\ call' = None /\ strays' \subseteq Places
  BY InstallerAssumption DEF Crash, Die, InstallInv, InstallerTypeOK
<1> QED BY <1>1 DEF Crash, InstallInv, InstallerTypeOK, OwnApart

\* Every step keeps the invariant, and only an edit changes what a user wrote.
LEMMA InstallStep ==
  ASSUME InstallInv, [Next]_vars
  PROVE  /\ InstallInv'
         /\ \A place \in own : disk'[place] # disk[place] => edits' # edits
<1>1. CASE Begin
  BY <1>1, BeginInv DEF Begin
<1>2. ASSUME NEW place \in Places, Apply(place) \/ Remove(place)
      PROVE  InstallInv' /\ \A other \in own : disk'[other] = disk[other]
  BY <1>2, ApplyInv, RemoveInv
<1>3. CASE RemoveBlock
  BY <1>3, RemoveBlockInv
<1>4. CASE FinishInstall \/ FinishUninstall
  BY <1>4, FinishInstallInv, FinishUninstallInv DEF FinishInstall, FinishUninstall
<1>5. CASE Crash
  BY <1>5, CrashInv DEF Crash
<1>6. ASSUME NEW place \in Places, Edit(place) PROVE InstallInv' /\ edits' # edits
  BY <1>6, EditInv
<1>7. CASE Wish
  BY <1>7, WishInv DEF Wish
<1>8. CASE UNCHANGED vars
  BY <1>8 DEF vars, InstallInv, InstallerTypeOK, OwnApart
<1> QED BY <1>1, <1>2, <1>3, <1>4, <1>5, <1>6, <1>7, <1>8 DEF Next, Step

LEMMA InstallAlways == Spec => []InstallInv
BY InstallInitInv, InstallStep, PTL DEF Spec

\* The files, the manifest and the running call keep their types.
THEOREM InstallerTyped == Spec => []InstallerTypeOK
<1>1. InstallInv => InstallerTypeOK
  BY DEF InstallInv
<1> QED BY <1>1, InstallAlways, PTL

\* What a user wrote while no call was running is changed by the user only.
THEOREM UserWorkIsKept == Spec => UserWorkKept
<1>1. InstallInv /\ [Next]_vars =>
        [\A place \in own : disk'[place] # disk[place] => edits' # edits]_vars
  BY InstallStep
<1> QED BY <1>1, InstallAlways, PTL DEF Spec, UserWorkKept
=============================================================================
