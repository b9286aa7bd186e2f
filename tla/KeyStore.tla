------------------------------- MODULE KeyStore -------------------------------
(***************************************************************************)
(* sshkeys/sshkeys.go: the key pair a run authenticates with.  A pair is a *)
(* folder with three files that are written one after the other, each with *)
(* os.WriteFile, which creates and truncates first: a run that ends, or a  *)
(* write that fails, leaves the file missing or cut short.  A later run    *)
(* takes the latest folder if it has a private key at all, and makes a new *)
(* one otherwise.  Folders are kept in the order in which they were last   *)
(* written, which is the order in which they were made.                    *)
(***************************************************************************)
EXTENDS Naturals, Sequences

VARIABLES folders,           \* the key directory
          kpc,               \* EnsureKeyPair of the current run
          pair,              \* the folder the current run goes on with; 0 before
          used               \* the folder the last run went on with; 0 if none did

keyVars == <<folders, kpc, pair, used>>

FileState == {"absent", "torn", "whole"}
Folder == [private : FileState, password : FileState, public : FileState]
Empty == [private |-> "absent", password |-> "absent", public |-> "absent"]

(* Defect: the first folder in the listing instead of the latest one. *)
Oldest == IF folders = <<>> THEN 0 ELSE 1

(* getLatestKeyFolder; 0 when there is none. *)
Latest == Len(folders)

Existing == Latest # 0 /\ folders[Latest].private # "absent"

KeyInit == folders = <<>> /\ kpc = "idle" /\ pair = 0 /\ used = 0

(* A new process, which has nothing in memory, calls EnsureKeyPair. *)
Ensure == kpc' = "look" /\ pair' = 0 /\ UNCHANGED <<folders, used>>

Take(k) == kpc' = "ready" /\ pair' = k /\ used' = k

(* A private key is there: the public key has to be readable, while a      *)
(* password file that is missing or empty means that there is no password. *)
UseExisting ==
    /\ kpc = "look" /\ Existing
    /\ folders[Latest].public # "absent"
    /\ Take(Latest)
    /\ UNCHANGED folders

PublicMissing ==
    /\ kpc = "look" /\ Existing
    /\ folders[Latest].public = "absent"
    /\ kpc' = "idle"
    /\ UNCHANGED <<folders, pair, used>>

MakeFolder ==
    /\ kpc = "look" /\ ~Existing
    /\ folders' = Append(folders, Empty)
    /\ kpc' = "private"
    /\ UNCHANGED <<pair, used>>

WriteTo(f, state) == folders' = [folders EXCEPT ![Len(folders)][f] = state]

WritePrivate ==
    /\ kpc = "private" /\ WriteTo("private", "whole")
    /\ kpc' = "password" /\ UNCHANGED <<pair, used>>

(* Defect: the public key is written before the password file. *)
PublicBeforePassword ==
    /\ kpc = "password" /\ WriteTo("public", "whole")
    /\ kpc' = "public" /\ UNCHANGED <<pair, used>>

WritePassword ==
    /\ kpc = "password" /\ WriteTo("password", "whole")
    /\ kpc' = "public" /\ UNCHANGED <<pair, used>>

WritePublic ==
    /\ kpc = "public" /\ WriteTo("public", "whole")
    /\ Take(Len(folders))

(* The write fails or the process ends in it. *)
CutShort ==
    /\ kpc \in {"private", "password", "public"}
    /\ \E state \in {"absent", "torn"} : WriteTo(kpc, state)
    /\ kpc' = "idle"
    /\ UNCHANGED <<pair, used>>

KeyStep == UseExisting \/ MakeFolder \/ WritePrivate \/ WritePassword \/ WritePublic
KeyNext == Ensure \/ KeyStep \/ PublicMissing \/ CutShort
KeySpec == KeyInit /\ [][KeyNext]_keyVars

(* No later run can get past the key pair: its private key is there, its   *)
(* public key is not, and nothing in the program makes another one.        *)
KeyStuck == Existing /\ folders[Latest].public = "absent"

(* A run goes on with a private key and a password that are completely     *)
(* written, however often earlier runs were cut short: because the public  *)
(* key is written last, and asked for (sshkeys.go EnsureKeyPair).          *)
UsablePair ==
    pair # 0 => /\ pair \in 1..Len(folders)
                /\ folders[pair].private = "whole"
                /\ folders[pair].password = "whole"

(* Once a run went on with a pair, every later run goes on with that pair  *)
(* (README, "reused across deployments").                                  *)
KeyReused == [][used # 0 => used' = used]_keyVars
===============================================================================
