--------------------------- MODULE CredentialFile ---------------------------
(***************************************************************************)
(* The credential file of the client (internal/cli/credentials.go) and the *)
(* commands that write, remove and read it at the same time: "auth         *)
(* set-token", "auth logout", and every command that resolves credentials  *)
(* without the environment. A file is named for the command that wrote it. *)
(***************************************************************************)
EXTENDS Integers

CONSTANTS
    Writers,    (* "auth set-token" commands *)
    Removers,   (* "auth logout" commands *)
    Readers,
    Old,        (* the credential saved before *)
    NoFile,
    MaxPowerCuts    (* bound *)

Files == Writers \union {Old}

ASSUME CredentialFileAssumption == NoFile \notin Files /\ Old \notin Writers /\ MaxPowerCuts \in Nat

VARIABLES
    path,       (* the file that credentials.json names *)
    disk,       (* the file it names on the disk *)
    content,    (* of each file: "none", "torn" or "whole" *)
    synced,     (* files whose content is on the disk *)
    writer, remover, reader, credential,
    removals, powerCuts

commands == <<writer, remover, reader, credential>>
file == <<path, disk, content, synced>>
fileVars == <<file, commands, removals, powerCuts>>

FileInit ==
    /\ path \in {NoFile, Old}
    /\ disk = path
    /\ content = [f \in Files |-> IF f = Old THEN "whole" ELSE "none"]
    /\ synced = {Old}
    /\ writer = [w \in Writers |-> "idle"]
    /\ remover = [x \in Removers |-> "idle"]
    /\ reader = [r \in Readers |-> "idle"]
    /\ credential = [r \in Readers |-> NoFile]
    /\ removals = [r \in Readers |-> FALSE]
    /\ powerCuts = 0

Goto(w, step) == writer' = [writer EXCEPT ![w] = step]

(* A mutant: the file is opened with O_TRUNC and written in its place.     *)
MutantCreateTemp(w) ==
    /\ writer[w] = "idle"
    /\ Goto(w, "write")
    /\ content' = [content EXCEPT ![w] = "torn"]
    /\ path' = w
    /\ UNCHANGED <<disk, synced, remover, reader, credential, removals, powerCuts>>

(* WriteCredentials up to os.CreateTemp.                                   *)
CreateTemp(w) ==
    /\ writer[w] = "idle"
    /\ Goto(w, "write")
    /\ content' = [content EXCEPT ![w] = "torn"]
    /\ UNCHANGED <<path, disk, synced, remover, reader, credential, removals, powerCuts>>

Write(w) ==
    /\ writer[w] = "write"
    /\ Goto(w, "sync")
    /\ content' = [content EXCEPT ![w] = "whole"]
    /\ UNCHANGED <<path, disk, synced, remover, reader, credential, removals, powerCuts>>

(* A mutant: no tmp.Sync.                                                  *)
MutantSync(w) ==
    /\ writer[w] = "sync"
    /\ Goto(w, "rename")
    /\ UNCHANGED <<path, disk, content, synced, remover, reader, credential, removals, powerCuts>>

Sync(w) ==
    /\ writer[w] = "sync"
    /\ Goto(w, "rename")
    /\ synced' = synced \union {w}
    /\ UNCHANGED <<path, disk, content, remover, reader, credential, removals, powerCuts>>

Rename(w) ==
    /\ writer[w] = "rename"
    /\ Goto(w, "saved")
    /\ path' = w
    /\ UNCHANGED <<disk, content, synced, remover, reader, credential, removals, powerCuts>>

(* An error at any step removes the temporary file; a command that is      *)
(* killed leaves it behind, where nobody looks.                            *)
GiveUpWrite(w) ==
    /\ writer[w] \in {"write", "sync", "rename"}
    /\ Goto(w, "failed")
    /\ content' \in {content, [content EXCEPT ![w] = "none"]}
    /\ UNCHANGED <<path, disk, synced, remover, reader, credential, removals, powerCuts>>

(* DeleteCredentials. A reader between its two looks is remembered.        *)
Remove(x) ==
    /\ remover[x] = "idle"
    /\ remover' = [remover EXCEPT ![x] = "removed"]
    /\ path' = NoFile
    /\ removals' = [r \in Readers |-> removals[r] \/ reader[r] = "read"]
    /\ UNCHANGED <<disk, content, synced, writer, reader, credential, powerCuts>>

Resolved(r, result, c) ==
    /\ reader' = [reader EXCEPT ![r] = result]
    /\ credential' = [credential EXCEPT ![r] = c]

(* ResolveCredentials: checkFilePerms looks at the file first.             *)
Check(r) ==
    /\ reader[r] = "idle"
    /\ \/ path = NoFile /\ Resolved(r, "unauthenticated", NoFile)
       \/ path # NoFile /\ Resolved(r, "read", NoFile)
    /\ UNCHANGED <<file, writer, remover, removals, powerCuts>>

(* os.ReadFile and json.Unmarshal.                                         *)
Read(r) ==
    /\ reader[r] = "read"
    /\ \/ /\ path # NoFile
          /\ content[path] = "whole"
          /\ Resolved(r, "resolved", path)
       \/ /\ path # NoFile => content[path] # "whole"
          /\ Resolved(r, "failed", NoFile)
    /\ UNCHANGED <<file, writer, remover, removals, powerCuts>>

(* The file system writes the directory back.                              *)
WriteBack ==
    /\ disk # path
    /\ disk' = path
    /\ UNCHANGED <<path, content, synced, commands, removals, powerCuts>>

(* What is not on the disk is lost, and every command with it.             *)
PowerCut ==
    /\ powerCuts < MaxPowerCuts
    /\ powerCuts' = powerCuts + 1
    /\ path' = disk
    /\ content' = [f \in Files |-> IF f \in synced \/ content[f] = "none" THEN content[f] ELSE "torn"]
    /\ writer' = [w \in Writers |-> IF writer[w] = "idle" THEN "idle" ELSE "dead"]
    /\ reader' = [r \in Readers |-> IF reader[r] = "idle" THEN "idle" ELSE "dead"]
    /\ UNCHANGED <<disk, synced, remover, credential, removals>>

FileNext ==
    \/ \E w \in Writers : CreateTemp(w) \/ Write(w) \/ Sync(w) \/ Rename(w) \/ GiveUpWrite(w)
    \/ \E x \in Removers : Remove(x)
    \/ \E r \in Readers : Check(r) \/ Read(r)
    \/ WriteBack
    \/ PowerCut

FileSpec == FileInit /\ [][FileNext]_fileVars

-----------------------------------------------------------------------------
(* At every instant, and whatever is killed or loses power in between, the *)
(* path names no file or the whole credential of one set-token.            *)
FileIsWhole == path # NoFile => content[path] = "whole"

(* A command fails to read its credential only because a logout came       *)
(* between its two looks; two set-tokens and a killed one never make it    *)
(* fail.                                                                   *)
OnlyLogoutFailsARead == \A r \in Readers : reader[r] = "failed" => removals[r]
=============================================================================
