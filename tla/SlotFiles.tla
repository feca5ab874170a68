------------------------------- MODULE SlotFiles -------------------------------
(***************************************************************************)
(* via::nrf52::InternalFSStorage (src/src/VIA_nRF52_InternalFS.cpp): the   *)
(* payload lives in RAM (staging_) and commit() writes all of it, with its *)
(* generation, to one of two files: odd generations to A, even ones to B.  *)
(* Opening a file for writing starts it anew, as in the file system of     *)
(* tests/fakes/InternalFileSystem.h.  The checksum of a file is perfect.   *)
(***************************************************************************)
EXTENDS TwoSlots

CONSTANTS
  Content,   \* what the staging memory may hold
  Zeros      \* staging memory that is all zero

ASSUME ContentAssumption == Zeros \in Content /\ {"absent", "torn"} \cap Content = {}

Record == [generation : Number, payload : Content]
Absent == [generation |-> 0, payload |-> "absent"]
Torn   == [generation |-> 0, payload |-> "torn"]     \* incomplete or corrupt

VARIABLES
  file,             \* the two files
  staging, activeGeneration,
  fileStep,         \* next step of commit() or erase()
  lostTrack,        \* history: begin() could not read the newest file, or not
                    \*          both files could be removed
  committed,        \* history: payload of the last commit() that succeeded
  attempted         \* history: payload of the last commit() that opened its file

fileVars == <<file, staging, activeGeneration, fileStep, lostTrack, committed, attempted>>

-----------------------------------------------------------------------------
\* begin()
IntactFiles == { s \in Slots : file[s] \in Record }
NewestFile(intact) == Newest(intact, [s \in intact |-> file[s].generation])

\* What a restart that can read every file brings back.
FileReload == IF IntactFiles = {} THEN Zeros ELSE file[NewestFile(IntactFiles)].payload

\* begin() finds the files `readable' intact and, if `again', can read the one it
\* selects once more; otherwise it starts from zeros, at generation 0.
FilesBegin(readable, again) ==
  /\ fileStep = "off"
  /\ IF readable # {} /\ again
     THEN /\ staging' = file[NewestFile(readable)].payload
          /\ activeGeneration' = file[NewestFile(readable)].generation
     ELSE staging' = Zeros /\ activeGeneration' = 0
  /\ lostTrack' = (IntactFiles # {} /\ ~(again /\ NewestFile(IntactFiles) \in readable))
  /\ committed' = FileReload /\ attempted' = FileReload
  /\ fileStep' = "idle"
  /\ UNCHANGED file

\* write(): in RAM only.
FilesWrite(content) ==
  /\ fileStep = "idle"
  /\ staging' = content
  /\ UNCHANGED <<file, activeGeneration, fileStep, lostTrack, committed, attempted>>

-----------------------------------------------------------------------------
\* commit()
NextGeneration == Following(activeGeneration)

InactiveFile == IF NextGeneration % 2 = 1 THEN "A" ELSE "B"

OpenFile ==
  /\ fileStep = "idle"
  /\ file' = [file EXCEPT ![InactiveFile] = Torn]
  /\ attempted' = staging
  /\ fileStep' = "writeFile"
  /\ UNCHANGED <<staging, activeGeneration, lostTrack, committed>>

\* The header, the payload and close(); the file may have come out corrupt.
WriteFile ==
  /\ fileStep = "writeFile"
  /\ \E record \in {Torn, [generation |-> NextGeneration, payload |-> staging]} :
       file' = [file EXCEPT ![InactiveFile] = record]
  /\ fileStep' = "verifyFile"
  /\ UNCHANGED <<staging, activeGeneration, lostTrack, committed, attempted>>

\* Mutant: the new file is not read back.
VerifyFile_Trusts ==
  /\ fileStep = "verifyFile"
  /\ activeGeneration' = NextGeneration
  /\ committed' = attempted
  /\ fileStep' = "idle"
  /\ UNCHANGED <<file, staging, lostTrack, attempted>>

VerifyFile ==
  /\ fileStep = "verifyFile"
  /\ file[InactiveFile] \in Record
  /\ activeGeneration' = NextGeneration
  /\ committed' = attempted
  /\ fileStep' = "idle"
  /\ UNCHANGED <<file, staging, lostTrack, attempted>>

\* A file operation of commit() fails, or what it reads back is wrong: the new
\* file, whole or not, stays behind.
CommitFails ==
  /\ fileStep \in {"writeFile", "verifyFile"}
  /\ fileStep' = "idle"
  /\ UNCHANGED <<file, staging, activeGeneration, lostTrack, committed, attempted>>

-----------------------------------------------------------------------------
(* erase(): the results of the two removals are ignored. *)

Removal(s) == \E left \in {Absent, file[s]} : file' = [file EXCEPT ![s] = left]

RemoveA ==
  /\ fileStep = "idle"
  /\ Removal("A")
  /\ lostTrack' = TRUE            \* until both are gone
  /\ fileStep' = "removeB"
  /\ UNCHANGED <<staging, activeGeneration, committed, attempted>>

RemoveB ==
  /\ fileStep = "removeB"
  /\ Removal("B")
  /\ lostTrack' = (\E s \in Slots : file'[s] # Absent)
  /\ staging' = Zeros /\ activeGeneration' = 0
  /\ committed' = Zeros /\ attempted' = Zeros
  /\ fileStep' = "idle"

FilesPowerLoss ==
  /\ fileStep # "off"
  /\ fileStep' = "off"
  /\ staging' = Zeros /\ activeGeneration' = 0
  /\ UNCHANGED <<file, lostTrack, committed, attempted>>

-----------------------------------------------------------------------------
FilesInit ==
  /\ file = [s \in Slots |-> Absent]
  /\ staging = Zeros /\ activeGeneration = 0
  /\ fileStep = "off"
  /\ lostTrack = FALSE
  /\ committed = Zeros /\ attempted = Zeros

FilesNext ==
  \/ \E readable \in SUBSET IntactFiles, again \in BOOLEAN : FilesBegin(readable, again)
  \/ \E content \in Content : FilesWrite(content)
  \/ OpenFile \/ WriteFile \/ VerifyFile \/ CommitFails
  \/ RemoveA \/ RemoveB
  \/ FilesPowerLoss

FilesSpec == FilesInit /\ [][FilesNext]_fileVars

-----------------------------------------------------------------------------
\* What the files, the staging memory and the steps of commit() and erase() range over.
FilesTypeOK ==
  /\ file \in [Slots -> Record \cup {Absent, Torn}]
  /\ staging \in Content /\ activeGeneration \in Number
  /\ fileStep \in {"off", "idle", "writeFile", "verifyFile", "removeB"}
  /\ lostTrack \in BOOLEAN
  /\ committed \in Content /\ attempted \in Content

\* Whenever power is lost, the two files bring back the payload of the last commit()
\* that succeeded or, whole, that of one attempted since (commit() writes the file
\* begin() would not select) -- except after the faults lostTrack stands for.
FilesKeepCommits == lostTrack \/ FileReload \in {committed, attempted}
=============================================================================
