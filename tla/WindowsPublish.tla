--------------------------- MODULE WindowsPublish ---------------------------
(* common_file_write_new_atomic (src/src/common/file_io.c) on Windows, beside
   the publishers of AtomicPublish on a shared directory.

   The file is created, renamed and looked up by absolute pathnames, so that
   each of these leads wherever the parent pathname leads by then; the held
   parent is only compared with.  What was created is removed through its
   handle, under whichever name it has, also after the rename gave it the
   destination name.  A name whose removal is pending counts as free.  The
   fields of a call are those of AtomicPublish: bound is the code's written,
   destBound its parent_stable, and parent the directory of the file. *)
EXTENDS AtomicPublish

VARIABLES
  onWindows,  (* the publishers that run on Windows *)
  anchor      (* the parent directory that each of them holds *)

windowsVars == <<onWindows, anchor>>

Failed(p, label) == Faults /\ Goto(p, label)

\* windows_open_directory_anchor, behind the conversions of the pathname.
OpenAnchor(p) ==
  /\ At(p, "openParent")
  /\ \/ /\ parentPath # NoDir
        /\ anchor' = [anchor EXCEPT ![p] = parentPath]
        /\ call' = [call EXCEPT ![p].pc = "create", ![p].fds = {"parent"}]
     \/ /\ Faults \/ parentPath = NoDir
        /\ Return(p, "IO_ERROR")
        /\ UNCHANGED anchor
  /\ UNCHANGED <<parentPath, files, history>>

\* CreateFileW(CREATE_NEW) of a name of its own.
CreateByPath(p) ==
  /\ At(p, "create")
  /\ \/ /\ parentPath # NoDir
        /\ temp' = [temp EXCEPT ![p] = p]
        /\ call' = [call EXCEPT ![p].pc = "write", ![p].parent = parentPath,
                                ![p].fds = @ \cup {"temporary"}]
     \/ /\ Faults \/ parentPath = NoDir
        /\ Return(p, "IO_ERROR")
        /\ UNCHANGED temp
  /\ UNCHANGED <<parentPath, entry, stable, cached, durable, alias, history, anchor>>

WriteThrough(p) ==
  /\ At(p, "write") /\ cached[p] < Blocks
  /\ \/ cached' = [cached EXCEPT ![p] = @ + 1] /\ UNCHANGED call
     \/ Failed(p, "recheckParent") /\ UNCHANGED cached
  /\ UNCHANGED <<parentPath, entry, stable, temp, durable, alias, history, anchor>>

\* FlushFileBuffers, and the identity of the file.
FlushWritten(p) ==
  /\ At(p, "write") /\ cached[p] = Blocks
  /\ \/ /\ durable' = [durable EXCEPT ![p] = Blocks]
        /\ call' = [call EXCEPT ![p].pc = "publish", ![p].bound = TRUE]
     \/ Failed(p, "recheckParent") /\ UNCHANGED durable
  /\ UNCHANGED <<parentPath, entry, stable, temp, cached, alias, history, anchor>>

\* FileRenameInfo of the held file to the absolute destination, never replacing.
RenameHeld(p) ==
  /\ At(p, "publish")
  /\ \/ /\ parentPath # NoDir /\ entry[parentPath] = Absent
        /\ entry' = [entry EXCEPT ![parentPath] = p]
        /\ temp' = [temp EXCEPT ![p] = Absent]
        /\ call' = [call EXCEPT ![p].pc = "recheckParent", ![p].published = TRUE,
                                ![p].parent = parentPath]
     \/ /\ parentPath # NoDir /\ entry[parentPath] # Absent
        /\ call' = [call EXCEPT ![p].pc = "recheckParent", ![p].eexist = TRUE,
                                ![p].parent = parentPath]
        /\ UNCHANGED <<entry, temp>>
     \/ /\ Faults \/ parentPath = NoDir
        /\ Goto(p, "recheckParent")
        /\ UNCHANGED <<entry, temp>>
  /\ UNCHANGED <<parentPath, stable, cached, durable, alias, history, anchor>>

\* windows_namespace_parent_matches, asked whatever came before.
CompareParent(p) ==
  LET After(same) ==
        call' = [call EXCEPT ![p].pc = IF call[p].published THEN "sync" ELSE "release",
                             ![p].destBound = same,
                             ![p].result = IF call[p].eexist /\ same THEN "ALREADY_EXISTS" ELSE @]
  IN /\ At(p, "recheckParent")
     /\ After(parentPath = anchor[p]) \/ (Faults /\ After(FALSE))
     /\ UNCHANGED <<parentPath, files, history, anchor>>

\* The second FlushFileBuffers, which stores the rename.
FlushRenamed(p) ==
  /\ At(p, "sync")
  /\ \/ /\ stable' = IF entry[call[p].parent] = p THEN [stable EXCEPT ![call[p].parent] = p]
                     ELSE stable
        /\ Goto(p, IF call[p].destBound THEN "checkNamed" ELSE "release")
     \/ Failed(p, "release") /\ UNCHANGED stable
  /\ UNCHANGED <<parentPath, entry, temp, cached, durable, alias, history, anchor>>

\* windows_path_file_matches.
Leads(p) == \E d \in Dirs : parentPath = d /\ entry[d] = p

MatchDestination(p) ==
  /\ At(p, "checkNamed")
  /\ \/ /\ Leads(p)
        /\ call' = [call EXCEPT ![p].pc = "close", ![p].result = "OK"]
     \/ /\ Faults \/ ~Leads(p)
        /\ Goto(p, "release")
  /\ UNCHANGED <<parentPath, files, history, anchor>>

Withdrawn(p) ==
  /\ temp' = [temp EXCEPT ![p] = IF @ = p THEN Absent ELSE @]
  /\ touched' = touched \cup {d \in Dirs : entry'[d] # entry[d]}
  /\ Goto(p, "close")
  /\ UNCHANGED <<parentPath, stable, cached, durable, alias, envSteps, crashes, anchor>>

\* Mutant of DeleteHeld: the file is removed by its pathname.
DeleteNamed(p) ==
  /\ At(p, "release")
  /\ entry' = IF call[p].published THEN [entry EXCEPT ![call[p].parent] = Absent] ELSE entry
  /\ Withdrawn(p)

\* windows_delete_open_file: nothing but OK leaves the file under a name.
DeleteHeld(p) ==
  /\ At(p, "release")
  /\ \/ /\ entry' = [d \in Dirs |-> IF entry[d] = p THEN Absent ELSE entry[d]]
        /\ Withdrawn(p)
     \/ /\ Faults
        /\ call' = [call EXCEPT ![p].pc = "close", ![p].result = "none"]
        /\ UNCHANGED <<parentPath, files, history, anchor>>

WindowsStep(p) ==
  \/ (Begin(p) \/ Close(p)) /\ UNCHANGED anchor
  \/ OpenAnchor(p) \/ CreateByPath(p) \/ WriteThrough(p) \/ FlushWritten(p)
  \/ RenameHeld(p) \/ CompareParent(p) \/ FlushRenamed(p) \/ MatchDestination(p)
  \/ DeleteHeld(p)

SharedInit ==
  /\ Init
  /\ onWindows \in SUBSET Publishers
  /\ anchor = [p \in Publishers |-> NoDir]

SharedNext ==
  /\ \/ ((\E p \in Publishers \ onWindows : Step(p)) \/ Environment) /\ UNCHANGED anchor
     \/ \E p \in onWindows : WindowsStep(p)
  /\ UNCHANGED onWindows

SharedSpec == SharedInit /\ [][SharedNext]_<<vars, windowsVars>>

----------------------------------------------------------------------------
(* "temporary cleanup is confined to that held ... object", and "The
   destination is never overwritten": a step on Windows changes a destination
   only by filling a free name, or by taking back its own file, which was whole
   for whoever saw it and which no answer but a failure follows. *)
WithdrawsOnlyItsOwn ==
  [][\A p \in onWindows : WindowsStep(p) =>
       \A d \in Dirs : entry'[d] # entry[d] =>
         \/ entry[d] = Absent /\ entry'[d] = p
         \/ /\ entry[d] = p /\ entry'[d] = Absent
            /\ Whole(p) /\ call[p].result \notin {"OK", "ALREADY_EXISTS"}]_<<vars, windowsVars>>
=============================================================================
