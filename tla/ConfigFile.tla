----------------------------- MODULE ConfigFile -----------------------------
(***************************************************************************)
(* How the broker keeps a table in a JSON file: save of the federator and  *)
(* save of the proxy engine copy the table under a lock, release it, write *)
(* the copy to <file>.tmp and rename that over the file.  All saves share  *)
(* the one tmp path and nothing serialises them, so a process may write    *)
(* through a descriptor whose file another one has renamed meanwhile.      *)
(***************************************************************************)
EXTENDS Naturals, FiniteSets

CONSTANTS Savers,      \* goroutines that save
          Tables,      \* what a saved table may hold
          NoTable

VARIABLES file,        \* contents under the file's path
          tmp,         \* contents under the tmp path
          saver        \* per goroutine: where its save is, and its locals

fileVars == <<file, tmp, saver>>

Contents == [kind : {"missing", "empty", "torn", "whole"}, data : Tables \cup {NoTable}]
Content(kind) == [kind |-> kind, data |-> NoTable]
Whole(t) == [kind |-> "whole", data |-> t]

\* fd is where the descriptor of WriteFile points now.
SaverLocals == [pc : {"idle", "copy", "open", "write", "rename", "saved", "failed"},
                data : Tables \cup {NoTable}, fd : {"none", "tmp", "file", "gone"}]
Resting(pc) == [pc |-> pc, data |-> NoTable, fd |-> "none"]

FileInit ==
    /\ file = Content("missing") /\ tmp = Content("missing")
    /\ saver = [d \in Savers |-> Resting("idle")]

\* The caller has changed the table and released the lock: save begins.
BeginSave(d) == saver' = [saver EXCEPT ![d] = Resting("copy")]

\* The copy under the read lock; t is the table at this moment.
CopyTable(d, t) ==
    /\ saver[d].pc = "copy"
    /\ saver' = [saver EXCEPT ![d] = [pc |-> "open", data |-> t, fd |-> "none"]]
    /\ UNCHANGED <<file, tmp>>

\* Mutant: the file itself is opened for writing.
OpenInPlace(d) ==
    /\ saver[d].pc = "open"
    /\ file' = Content("empty")
    /\ saver' = [saver EXCEPT ![d].pc = "write", ![d].fd = "file"]
    /\ UNCHANGED tmp

\* os.WriteFile opens with O_CREATE and O_TRUNC, or fails to.
OpenTmp(d) ==
    /\ saver[d].pc = "open"
    /\ \/ /\ tmp' = Content("empty")
          /\ saver' = [saver EXCEPT ![d].pc = "write", ![d].fd = "tmp"]
       \/ /\ saver' = [saver EXCEPT ![d] = Resting("failed")]
          /\ UNCHANGED tmp
    /\ UNCHANGED file

\* What a file holds after t is written from its start: over other bytes the longer wins.
Overwritten(c, t) == IF c.kind = "empty" THEN {Whole(t)} ELSE {Whole(t), Content("torn")}

\* The descriptor follows the file, not the path.  A failed write leaves a part of it.
WriteTmp(d) ==
    /\ saver[d].pc = "write"
    /\ \E done \in BOOLEAN :
       /\ saver' = [saver EXCEPT ![d] = IF done THEN [@ EXCEPT !.pc = "rename", !.fd = "none"]
                                                ELSE Resting("failed")]
       /\ tmp' \in IF saver[d].fd # "tmp" THEN {tmp}
                   ELSE IF done THEN Overwritten(tmp, saver[d].data) ELSE {Content("torn")}
       /\ file' \in IF saver[d].fd # "file" THEN {file}
                    ELSE IF done THEN Overwritten(file, saver[d].data) ELSE {Content("torn")}

\* The other savers, once the file at the tmp path has become the file, or is removed.
Renamed(d, pc) ==
    [e \in Savers |-> IF e = d THEN Resting(pc)
                      ELSE IF saver[e].fd = "tmp" THEN [saver[e] EXCEPT !.fd = IF pc = "saved" THEN "file" ELSE "gone"]
                      ELSE IF saver[e].fd = "file" /\ pc = "saved" THEN [saver[e] EXCEPT !.fd = "gone"]
                      ELSE saver[e]]

\* os.Rename, which replaces the file or fails; then the tmp file is removed.
RenameTmp(d) ==
    /\ saver[d].pc = "rename"
    /\ tmp' = Content("missing")
    /\ \/ tmp.kind # "missing" /\ file' = tmp /\ saver' = Renamed(d, "saved")
       \/ file' = file /\ saver' = Renamed(d, "failed")

SaveStep(d) == OpenTmp(d) \/ WriteTmp(d) \/ RenameTmp(d)

\* The broker dies: the files stay as they are.
FileRestart ==
    /\ saver' = [d \in Savers |-> Resting("idle")]
    /\ UNCHANGED <<file, tmp>>

\* load: a missing file and one that does not parse both leave the table empty.
Loaded(empty) == IF file.kind = "whole" THEN file.data ELSE empty

FileTypeOK ==
    /\ file \in Contents /\ tmp \in Contents
    /\ saver \in [Savers -> SaverLocals]

=============================================================================
