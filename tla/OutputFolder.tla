----------------------------- MODULE OutputFolder -----------------------------
(***************************************************************************)
(* prepareOutputPath of iso2svod (main.c) with the calls it makes (util.c) *)
(* when discs are converted side by side: the folder of a disc lies in     *)
(* those of its title, which the discs of a title share.                   *)
(*                                                                         *)
(* A path is a sequence of names.  folderFs tells what each path is:       *)
(* "absent", "dir" or "file".                                              *)
(***************************************************************************)
EXTENDS Integers, Sequences

CONSTANTS
  Conversions,  \* processes
  FileNames,    \* of files and folders
  baseOutPath,  \* the data folder of each process's disc, a path
  Paths,        \* paths there may be something at
  FileSystems,  \* functions from Paths to "absent", "dir" and "file"
  Denied        \* sets of paths mkdir is refused at

WayTo(p) == {SubSeq(baseOutPath[p], 1, k) : k \in 1..Len(baseOutPath[p])}

(* A data folder is never a part of the way to another, the way to a path  *)
(* is made of paths, and whatever lies somewhere lies in folders.          *)
ASSUME FolderAssumption ==
  /\ Paths \subseteq Seq(FileNames)
  /\ \A path \in Paths : \A k \in 1..(Len(path) - 1) : SubSeq(path, 1, k) \in Paths
  /\ baseOutPath \in [Conversions -> Paths \ {<< >>}]
  /\ \A p, q \in Conversions : p # q => baseOutPath[p] \notin WayTo(q)
  /\ FileSystems \subseteq [Paths -> {"absent", "dir", "file"}]
  /\ \A f \in FileSystems, path \in Paths : f[path] # "absent" =>
       \A k \in 1..(Len(path) - 1) : f[SubSeq(path, 1, k)] = "dir"

VARIABLES
  folderFs,
  denied,
  initialFs,   \* folderFs at the start
  folderAt,    \* process -> "exists", "create", "created", "made" or "failed"
  cur          \* process -> the number of names behind the backslash it is at

folderVars == <<folderFs, denied, initialFs, folderAt, cur>>

Prefix(p) == SubSeq(baseOutPath[p], 1, cur[p])

FolderInit ==
  /\ folderFs \in FileSystems /\ denied \in Denied
  /\ initialFs = folderFs
  /\ folderAt = [p \in Conversions |-> "exists"]
  /\ cur = [p \in Conversions |-> 1]

(* isDirExist: 0 for nothing, 1 for a directory, 2 for anything else. *)
IsDirExist(path) ==
  IF folderFs[path] = "absent" THEN 0 ELSE IF folderFs[path] = "dir" THEN 1 ELSE 2

FirstCheck(p) ==
  /\ folderAt[p] = "exists"
  /\ folderAt' = [folderAt EXCEPT ![p] = IF IsDirExist(baseOutPath[p]) # 0 THEN "failed" ELSE "create"]
  /\ UNCHANGED <<folderFs, denied, initialFs, cur>>

Parent(path) == SubSeq(path, 1, Len(path) - 1)
CanMake(path) ==
  /\ folderFs[path] = "absent" /\ path \notin denied
  /\ Len(path) = 1 \/ folderFs[Parent(path)] = "dir"

(* Mutant of GoesOn: only what it has made itself will do. *)
OnlyOwn(path) == CanMake(path)

(* ERROR_ALREADY_EXISTS is no failure. *)
GoesOn(path) == CanMake(path) \/ folderFs[path] # "absent"

(* doRecursiveCreateDir at one backslash; what it returns is not looked at. *)
MkDir(p) ==
  /\ folderAt[p] = "create" /\ cur[p] <= Len(baseOutPath[p])
  /\ folderFs' = IF CanMake(Prefix(p)) THEN [folderFs EXCEPT ![Prefix(p)] = "dir"] ELSE folderFs
  /\ IF GoesOn(Prefix(p)) /\ cur[p] < Len(baseOutPath[p])
     THEN cur' = [cur EXCEPT ![p] = @ + 1] /\ UNCHANGED folderAt
     ELSE folderAt' = [folderAt EXCEPT ![p] = "created"] /\ UNCHANGED cur
  /\ UNCHANGED <<denied, initialFs>>

SecondCheck(p) ==
  /\ folderAt[p] = "created"
  /\ folderAt' = [folderAt EXCEPT ![p] = IF IsDirExist(baseOutPath[p]) # 1 THEN "failed" ELSE "made"]
  /\ UNCHANGED <<folderFs, denied, initialFs, cur>>

FolderNext == \E p \in Conversions : FirstCheck(p) \/ MkDir(p) \/ SecondCheck(p)

FolderSpec == FolderInit /\ [][FolderNext]_folderVars /\ WF_folderVars(FolderNext)
-------------------------------------------------------------------------------
(* Type invariant of the folders. *)
FolderTypeOK ==
  /\ folderFs \in [Paths -> {"absent", "dir", "file"}]
  /\ folderAt \in [Conversions -> {"exists", "create", "created", "made", "failed"}]
  /\ cur \in [Conversions -> Nat]
  /\ \A p \in Conversions : cur[p] \in 1..Len(baseOutPath[p])

(* A conversion starts writing only into a folder that was not there when  *)
(* the tools were started, and it is turned away only for a reason that    *)
(* lies in the file system: a folder of its own, a file in the way, or a   *)
(* refusal; never because another disc of the title made the common        *)
(* folders first.                                                          *)
FolderOwned ==
  \A p \in Conversions :
    /\ folderAt[p] = "made" =>
         /\ initialFs[baseOutPath[p]] = "absent"
         /\ \A path \in WayTo(p) : folderFs[path] = "dir"
    /\ folderAt[p] = "failed" =>
         \/ initialFs[baseOutPath[p]] # "absent"
         \/ \E path \in WayTo(p) : initialFs[path] = "file" \/ path \in denied
===============================================================================
