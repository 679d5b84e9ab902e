------------------------------- MODULE Files -------------------------------
(***************************************************************************)
(* WriteFile and RemoveFile of pkg/common/files.go on one path: concurrent *)
(* calls, each with a content and a temporary file of its own, operations  *)
(* of the file system that fail, the process dying and the machine losing  *)
(* power between any two of them.                                          *)
(***************************************************************************)
CONSTANTS
    Writers,  \* calls of WriteFile; each stands for its content too
    None,     \* no such file
    Partial   \* some of a content, or nothing of it

ASSUME FilesAssumption == {None, Partial} \cap Writers = {} /\ None # Partial

VARIABLES
    file,  \* what is at the path
    temp,  \* what is in the temporary file of a call
    call,  \* the next operation of a call, or how it ended
    lost   \* data has been lost behind the back of the process

fileVars == <<file, temp, call, lost>>

FilesInit ==
    /\ file = None
    /\ temp = [w \in Writers |-> None]
    /\ call = [w \in Writers |-> "idle"]
    /\ lost = FALSE

Goto(w, label) == call' = [call EXCEPT ![w] = label]

Fill(w, content) == temp' = [temp EXCEPT ![w] = content]

-----------------------------------------------------------------------------
\* Stat, MkdirAll and TempFile.
TempFile(w) ==
    /\ call[w] = "idle"
    /\ \/ Goto(w, "write") /\ Fill(w, Partial)
       \/ Goto(w, "failed") /\ UNCHANGED temp
    /\ UNCHANGED <<file, lost>>

\* The error is not looked at.
BadWrite(w) ==
    /\ call[w] = "write"
    /\ Goto(w, "close")
    /\ Fill(w, w) \/ UNCHANGED temp
    /\ UNCHANGED <<file, lost>>

Write(w) ==
    /\ call[w] = "write"
    /\ \/ Goto(w, "close") /\ Fill(w, w)
       \/ Goto(w, "remove") /\ UNCHANGED temp
    /\ UNCHANGED <<file, lost>>

\* After a failed Write; the error of Remove is not looked at.
RemoveTemp(w) ==
    /\ call[w] = "remove"
    /\ \/ Goto(w, "failed") /\ Fill(w, None)
       \/ Goto(w, "left") /\ UNCHANGED temp
    /\ UNCHANGED <<file, lost>>

\* The error of Close, which may report a Write that did not get through, is
\* not looked at.
Close(w) ==
    /\ call[w] = "close"
    /\ Goto(w, "rename")
    /\ \/ UNCHANGED <<temp, lost>>
       \/ Fill(w, Partial) /\ lost' = TRUE
    /\ UNCHANGED file

\* The temporary file of a Rename that fails stays.
Rename(w) ==
    /\ call[w] = "rename"
    /\ \/ Goto(w, "returned") /\ file' = temp[w] /\ Fill(w, None)
       \/ Goto(w, "left") /\ UNCHANGED <<file, temp>>
    /\ UNCHANGED lost

RemoveFile ==
    /\ file # None
    /\ file' = None
    /\ UNCHANGED <<temp, call, lost>>

-----------------------------------------------------------------------------
InProgress(w) == call[w] \in {"write", "remove", "close", "rename"}

\* The process dies and is started again.
Dies == call' = [w \in Writers |-> IF InProgress(w) THEN "crashed" ELSE call[w]]

Crash ==
    /\ \E w \in Writers : InProgress(w)
    /\ Dies
    /\ UNCHANGED <<file, temp, lost>>

\* Nothing is synced: what was written may be lost, also under its final name.
PowerLoss ==
    /\ Dies
    /\ lost' = TRUE
    /\ \/ UNCHANGED <<file, temp>>
       \/ file # None /\ file' = Partial /\ UNCHANGED temp
       \/ /\ temp' = [w \in Writers |-> IF temp[w] = None THEN None ELSE Partial]
          /\ UNCHANGED file

Steps(w) == TempFile(w) \/ Write(w) \/ RemoveTemp(w) \/ Close(w) \/ Rename(w)

FilesNext ==
    \/ \E w \in Writers : Steps(w)
    \/ RemoveFile
    \/ Crash
    \/ PowerLoss

FilesSpec == FilesInit /\ [][FilesNext]_fileVars

-----------------------------------------------------------------------------
(***************************************************************************)
(* "Atomic write": whichever calls interleave, fail or die, what is at the *)
(* path is the whole content of one call, as long as the machine keeps its *)
(* power and no error of Close was passed over.                            *)
(***************************************************************************)
WholeFile == ~lost => file \in Writers \cup {None}

(***************************************************************************)
(* A temporary file outlives its call only if the process died or if it    *)
(* could not be renamed or removed: a failed Write leaves none behind, and *)
(* no call ends as if it had succeeded while its file is still there.      *)
(***************************************************************************)
NoStrayTemp ==
    \A w \in Writers : temp[w] # None => InProgress(w) \/ call[w] \in {"crashed", "left"}

\* What WriteFile calls an atomic write: whole contents, and nothing left over.
AtomicWrite == WholeFile /\ NoStrayTemp
=============================================================================
