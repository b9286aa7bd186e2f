---------------------------- MODULE KeyStore_proofs ----------------------------
(***************************************************************************)
(* The key store for any number of runs, cut short anywhere: what a run    *)
(* goes on with is complete, and it is always the same.                    *)
(***************************************************************************)
EXTENDS KeyStore, TLAPS

Writing == {"private", "password", "public"}

(* A public key says that the rest of its folder is complete.              *)
Vouched(f) == f.public # "absent" => f.private = "whole" /\ f.password = "whole"

(* What the steps of EnsureKeyPair have done, by where it stands.          *)
Progress ==
    kpc \in Writing =>
        /\ Len(folders) > 0 /\ used = 0
        /\ folders[Len(folders)].public = "absent"
        /\ kpc \in {"password", "public"} => folders[Len(folders)].private = "whole"
        /\ kpc = "public" => folders[Len(folders)].password = "whole"

KeyType ==
    /\ folders \in Seq(Folder)
    /\ kpc \in {"idle", "look", "ready"} \cup Writing
    /\ pair \in Nat /\ used \in Nat

KeyInv ==
    /\ KeyType
    /\ \A i \in 1..Len(folders) : Vouched(folders[i])
    /\ Progress
    /\ used # 0 => used = Len(folders) /\ folders[used].public # "absent"
    /\ pair # 0 => pair = used

(* A write changes one file of the last folder and no other folder. *)
LEMMA WriteLast ==
    ASSUME NEW s \in Seq(Folder), Len(s) > 0, NEW f \in Writing, NEW v \in FileState
    PROVE  LET t == [s EXCEPT ![Len(s)][f] = v]
           IN  /\ t \in Seq(Folder) /\ Len(t) = Len(s)
               /\ \A i \in 1..Len(s) : i # Len(s) => t[i] = s[i]
               /\ t[Len(s)][f] = v
               /\ \A g \in Writing : g # f => t[Len(s)][g] = s[Len(s)][g]
<1> DEFINE r == [s[Len(s)] EXCEPT ![f] = v]
           t == [s EXCEPT ![Len(s)] = r]
<1>1. s[Len(s)] \in Folder
  OBVIOUS
<1>2. r \in Folder /\ r[f] = v /\ \A g \in Writing : g # f => r[g] = s[Len(s)][g]
  BY <1>1 DEF Folder, Writing
<1> HIDE DEF r
<1>3. /\ t \in Seq(Folder) /\ Len(t) = Len(s) /\ t[Len(s)] = r
      /\ \A i \in 1..Len(s) : i # Len(s) => t[i] = s[i]
  BY <1>2
<1>4. QED
  BY <1>2, <1>3 DEF r

(* A file that is written in its turn leaves every folder vouched for. *)
LEMMA WriteKeeps ==
    ASSUME KeyInv, kpc \in Writing, NEW v \in FileState, WriteTo(kpc, v)
    PROVE  /\ folders' \in Seq(Folder) /\ Len(folders') = Len(folders)
           /\ Len(folders) > 0 /\ used = 0
           /\ folders'[Len(folders)][kpc] = v
           /\ \A g \in Writing : g # kpc => folders'[Len(folders)][g] = folders[Len(folders)][g]
           /\ \A i \in 1..Len(folders') : Vouched(folders'[i])
<1>1. folders \in Seq(Folder) /\ Len(folders) > 0 /\ used = 0
  BY DEF KeyInv, KeyType, Progress
<1>2. folders' = [folders EXCEPT ![Len(folders)][kpc] = v]
  BY DEF WriteTo
<1>3. /\ folders' \in Seq(Folder) /\ Len(folders') = Len(folders)
      /\ \A i \in 1..Len(folders) : i # Len(folders) => folders'[i] = folders[i]
      /\ folders'[Len(folders)][kpc] = v
      /\ \A g \in Writing : g # kpc => folders'[Len(folders)][g] = folders[Len(folders)][g]
  BY <1>1, <1>2, WriteLast
<1>4. /\ \A i \in 1..Len(folders) : Vouched(folders[i])
      /\ folders[Len(folders)].public = "absent"
      /\ kpc = "public" => /\ folders[Len(folders)].private = "whole"
                           /\ folders[Len(folders)].password = "whole"
  BY DEF KeyInv, Progress
<1>5. Vouched(folders'[Len(folders)])
  BY <1>3, <1>4 DEF Vouched, Writing
<1>6. \A i \in 1..Len(folders') : Vouched(folders'[i])
  BY <1>1, <1>3, <1>4, <1>5
<1>7. QED
  BY <1>1, <1>3, <1>6

(* The invariant holds at first and every step keeps it (sshkeys.go        *)
(* EnsureKeyPair: private key, password, public key, in this order).       *)
LEMMA KeyInitInv == KeyInit => KeyInv
BY DEF KeyInit, KeyInv, KeyType, Progress, Writing, Vouched

LEMMA KeyStepInv == KeyInv /\ [KeyNext]_keyVars => KeyInv'
<1> SUFFICES ASSUME KeyInv, [KeyNext]_keyVars PROVE KeyInv'
  OBVIOUS
<1> USE DEF KeyInv, KeyType, Writing
<1>1. CASE Ensure
  BY <1>1 DEF Ensure, Progress
<1>2. CASE UseExisting
  BY <1>2 DEF UseExisting, Take, Latest, Existing, Progress
<1>3. CASE MakeFolder
  <2>1. used = 0
    BY <1>3 DEF MakeFolder, Existing, Latest, Vouched
  <2>2. Empty \in Folder
    BY DEF Empty, Folder, FileState
  <2>3. /\ folders' \in Seq(Folder) /\ Len(folders') = Len(folders) + 1
        /\ \A i \in 1..Len(folders) : folders'[i] = folders[i]
        /\ folders'[Len(folders')] = Empty
    BY <1>3, <2>2 DEF MakeFolder
  <2>4. \A i \in 1..Len(folders') : Vouched(folders'[i])
    BY <2>3 DEF Vouched, Empty
  <2>5. QED
    BY <1>3, <2>1, <2>3, <2>4 DEF MakeFolder, Progress, Empty
<1>4. CASE WritePrivate
  <2>1. kpc = "private" /\ WriteTo(kpc, "whole")
    BY <1>4 DEF WritePrivate
  <2>2. /\ folders' \in Seq(Folder) /\ Len(folders') = Len(folders)
        /\ Len(folders) > 0 /\ used = 0
        /\ folders'[Len(folders)].private = "whole"
        /\ folders'[Len(folders)].public = folders[Len(folders)].public
        /\ \A i \in 1..Len(folders') : Vouched(folders'[i])
    BY <2>1, WriteKeeps DEF FileState
  <2>3. QED
    BY <1>4, <2>2 DEF WritePrivate, Progress
<1>5. CASE WritePassword
  <2>1. kpc = "password" /\ WriteTo(kpc, "whole")
    BY <1>5 DEF WritePassword
  <2>2. /\ folders' \in Seq(Folder) /\ Len(folders') = Len(folders)
        /\ Len(folders) > 0 /\ used = 0
        /\ folders'[Len(folders)].password = "whole"
        /\ folders'[Len(folders)].private = folders[Len(folders)].private
        /\ folders'[Len(folders)].public = folders[Len(folders)].public
        /\ \A i \in 1..Len(folders') : Vouched(folders'[i])
    BY <2>1, WriteKeeps DEF FileState
  <2>3. QED
    BY <1>5, <2>2 DEF WritePassword, Progress
<1>6. CASE WritePublic
  <2>1. kpc = "public" /\ WriteTo(kpc, "whole")
    BY <1>6 DEF WritePublic
  <2>2. /\ folders' \in Seq(Folder) /\ Len(folders') = Len(folders)
        /\ Len(folders) > 0 /\ used = 0
        /\ folders'[Len(folders)].public = "whole"
        /\ \A i \in 1..Len(folders') : Vouched(folders'[i])
    BY <2>1, WriteKeeps DEF FileState
  <2>3. QED
    BY <1>6, <2>2 DEF WritePublic, Take, Progress
<1>7. CASE PublicMissing
  BY <1>7 DEF PublicMissing, Progress
<1>8. CASE CutShort
  <2>1. PICK state \in {"absent", "torn"} : WriteTo(kpc, state)
    BY <1>8 DEF CutShort
  <2>2. kpc \in Writing
    BY <1>8 DEF CutShort
  <2>3. /\ folders' \in Seq(Folder) /\ Len(folders') = Len(folders) /\ used = 0
        /\ \A i \in 1..Len(folders') : Vouched(folders'[i])
    BY <2>1, <2>2, WriteKeeps DEF FileState
  <2>4. QED
    BY <1>8, <2>3 DEF CutShort, Progress
<1>9. CASE UNCHANGED keyVars
  BY <1>9 DEF keyVars, Progress
<1>10. QED
  BY <1>1, <1>2, <1>3, <1>4, <1>5, <1>6, <1>7, <1>8, <1>9 DEF KeyNext, KeyStep

LEMMA KeyInvHolds == KeySpec => []KeyInv
BY KeyInitInv, KeyStepInv, PTL DEF KeySpec

(* A run goes on with a complete private key and its password, however     *)
(* many runs before it were cut short (sshkeys.go EnsureKeyPair).          *)
THEOREM CompletePair == KeySpec => []UsablePair
<1>1. KeyInv => UsablePair
  BY DEF KeyInv, KeyType, UsablePair, Vouched
<1>2. QED
  BY <1>1, KeyInvHolds, PTL

(* Once there is a pair that a run went on with, it is the pair of every   *)
(* later run (sshkeys.go getLatestKeyFolder, README "reused").             *)
THEOREM SamePair == KeySpec => KeyReused
<1>1. KeyInv /\ [KeyNext]_keyVars => [used # 0 => used' = used]_keyVars
  <2> SUFFICES ASSUME KeyInv, KeyNext, used # 0 PROVE used' = used
    OBVIOUS
  <2>1. kpc \notin Writing
    BY DEF KeyInv, Progress
  <2>2. CASE UseExisting
    BY <2>2 DEF UseExisting, Take, Latest, KeyInv
  <2>3. CASE WritePublic
    BY <2>1, <2>3 DEF WritePublic, Writing
  <2>4. QED
    BY <2>2, <2>3 DEF KeyNext, KeyStep, Ensure, MakeFolder, WritePrivate, WritePassword,
                      PublicMissing, CutShort
<1>2. QED
  BY <1>1, KeyInvHolds, PTL DEF KeySpec, KeyReused
===============================================================================
