-------------------------------- MODULE Ota ---------------------------------
(* Firmware update over the network:                                         *)
(* component/soc/realtek/8195a/misc/platform/ota_8195a.c as it is configured *)
(* (WRITE_OTA_ADDR, no SWAP_UPDATE, no CONFIG_CUSTOM_SIGNATURE), and         *)
(* sys_clear_ota_signature and sys_recover_ota_signature. An update is       *)
(* written behind the running image; the boot loader prefers it once it is   *)
(* signed. Power may fail between any two flash operations. Server, boot     *)
(* loader and flash chip are external.                                       *)
EXTENDS Integers, Sequences

CONSTANTS
  Updaters,   \* "local" (update_ota_local_task), "http" (http_update_ota)
  None,
  FileLen,    \* bytes of an image file, its checksum included
  SectorSize, \* bytes of a flash sector
  ChunkMax,   \* BUF_SIZE
  Headers,    \* lengths of a response header, as far as it is in the buffer
  Words,      \* words of the system data sector; word 0 is the OTA address
  Closes,     \* how many bytes a server may have sent when it closes early
  MaxUpdates, \* bound: updates
  MaxMishaps  \* bound: power failures, failed requests and closed connections

SumLen == 4   \* bytes of the checksum at the end of a file

ASSUME OtaAssumption ==
  /\ Updaters \subseteq {"local", "http"} /\ None \notin Updaters \cup {"recovery"}
  /\ {SectorSize, ChunkMax, Words} \subseteq Nat \ {0} /\ FileLen \in Nat /\ FileLen > SumLen
  /\ Headers \subseteq Nat /\ Closes \subseteq 0 .. FileLen - 1
  /\ {MaxUpdates, MaxMishaps} \subseteq Nat

VARIABLES
  sys, bak,  \* words of system data that are in OFFSET_DATA and BACKUP_SECTOR
  img,       \* bytes behind the running image: which update's, or 0 (erased)
  sig,       \* its signature: "blank", "half", "signed" or "cleared"
  up,        \* each updater: where it is and what it has read
  rec,       \* sys_recover_ota_signature: where it is, and its buffer
  lock,      \* RT_DEV_LOCK_FLASH: who holds it
  good,      \* for each update, whether its file's checksum is right
  overlap,   \* history: two updates were under way at once
  again,     \* history: the backup sector was given up while it was needed
  torn,      \* history: the rest of a sector did not follow its signature
  mishaps    \* how many there have been

flash == <<sys, bak, img, sig>>
vars == <<sys, bak, img, sig, up, rec, lock, good, overlap, again, torn, mishaps>>

Positions == 1 .. FileLen
WordsOf   == 0 .. Words - 1
Blank     == [i \in WordsOf |-> FALSE]
Recovery  == "recovery"
NoRecovery == [pc |-> "idle", buf |-> [p \in Positions |-> 0]]
NoUpdate  == [pc |-> "idle", i |-> 0, v |-> 1, size |-> 0, sum |-> [k \in 1 .. SumLen |-> 0]]

Init ==
  /\ \E set \in BOOLEAN : sys = [i \in WordsOf |-> i > 0 \/ set]
  /\ bak = Blank
  /\ img = [p \in Positions |-> 0] /\ sig = "blank"
  /\ up = [u \in Updaters |-> NoUpdate]
  /\ rec = NoRecovery /\ lock = None /\ good = <<>>
  /\ overlap = FALSE /\ again = FALSE /\ torn = FALSE /\ mishaps = 0

-----------------------------------------------------------------------------
At(u, pc) == up[u].pc = pc
Goto(u, pc, i) == up' = [up EXCEPT ![u] = [@ EXCEPT !.pc = pc, !.i = i]]
Stop(u) == up' = [up EXCEPT ![u] = NoUpdate]
Active(u) == ~At(u, "idle")

Lock(u) == lock = None /\ lock' = u
Unlock  == lock' = None
Free    == lock = None /\ UNCHANGED lock
Keep    == UNCHANGED <<rec, good, overlap, again, torn, mishaps>>

Mishap == mishaps < MaxMishaps /\ mishaps' = mishaps + 1

(* update_ota_local unless TaskOTA is set; http_update_ota is called by an   *)
(* application's task.                                                       *)
Start(u) ==
  /\ At(u, "idle") /\ Len(good) < MaxUpdates
  /\ \E g \in BOOLEAN : good' = Append(good, g)
  /\ up' = [up EXCEPT ![u] = [NoUpdate EXCEPT !.pc = "connect", !.v = Len(good')]]
  /\ overlap' = (overlap \/ \E w \in Updaters \ {u} : Active(w))
  /\ UNCHANGED <<flash, rec, lock, again, torn, mishaps>>

(* No buffer, no connection, a bad response or a failed read: the task ends, *)
(* or http_update_ota returns.                                               *)
Fail(u) ==
  /\ up[u].pc \in {"connect", "open", "read"} /\ Mishap
  /\ Stop(u)
  /\ UNCHANGED <<flash, rec, lock, good, overlap, again, torn>>

(* A response of 302: the whole function from its beginning.                 *)
Redirect(u) ==
  /\ u = "http" /\ At(u, "open") /\ Mishap
  /\ Goto(u, "connect", 0)
  /\ UNCHANGED <<flash, rec, lock, good, overlap, again, torn>>

-----------------------------------------------------------------------------
(* update_ota_prepare_addr and write_ota_addr_to_system_data: the OTA        *)
(* address is word 0 of the system data sector. The lock is held throughout. *)

Missing == \E i \in WordsOf \ {0} : ~sys[i]

PrepareAddr(u) ==
  /\ At(u, "connect")
  /\ IF sys[0] THEN Lock(u) /\ Goto(u, "eraseBak", 0) /\ UNCHANGED sys
     ELSE Free /\ Goto(u, "open", 0) /\ sys' = [sys EXCEPT ![0] = TRUE]
  /\ again' = (again \/ Missing)
  /\ UNCHANGED <<bak, img, sig, rec, good, overlap, torn, mishaps>>

EraseBackup(u) ==
  /\ At(u, "eraseBak")
  /\ bak' = Blank /\ Goto(u, "copyOut", 0)
  /\ UNCHANGED <<sys, img, sig, lock>> /\ Keep

(* Mutant: the sector is erased before its last word has been copied.        *)
CopyOutShort(u) ==
  /\ At(u, "copyOut")
  /\ bak' = [bak EXCEPT ![up[u].i] = up[u].i = 0 \/ sys[up[u].i]]
  /\ IF up[u].i + 1 >= Words - 1 THEN Goto(u, "eraseSys", 0) ELSE Goto(u, "copyOut", up[u].i + 1)
  /\ UNCHANGED <<sys, img, sig, lock>> /\ Keep

CopyOut(u) ==
  /\ At(u, "copyOut")
  /\ bak' = [bak EXCEPT ![up[u].i] = up[u].i = 0 \/ sys[up[u].i]]
  /\ IF up[u].i + 1 = Words THEN Goto(u, "eraseSys", 0) ELSE Goto(u, "copyOut", up[u].i + 1)
  /\ UNCHANGED <<sys, img, sig, lock>> /\ Keep

EraseSystem(u) ==
  /\ At(u, "eraseSys")
  /\ sys' = Blank /\ Goto(u, "copyBack", 0)
  /\ UNCHANGED <<bak, img, sig, lock>> /\ Keep

CopyBack(u) ==
  /\ At(u, "copyBack")
  /\ sys' = [sys EXCEPT ![up[u].i] = bak[up[u].i]]
  /\ IF up[u].i + 1 = Words THEN Goto(u, "dropBak", 0) ELSE Goto(u, "copyBack", up[u].i + 1)
  /\ UNCHANGED <<bak, img, sig, lock>> /\ Keep

DropBackup(u) ==
  /\ At(u, "dropBak")
  /\ bak' = Blank /\ Unlock /\ Goto(u, "open", 0)
  /\ UNCHANGED <<sys, img, sig>> /\ Keep

-----------------------------------------------------------------------------
(* The download.                                                             *)

LastSector == (FileLen - 1) \div SectorSize
InSector(p, s) == (p - 1) \div SectorSize = s

(* The size is known: from the first 12 bytes, or from the header.           *)
Open(u) ==
  /\ At(u, "open") /\ Lock(u)
  /\ Goto(u, "erase", 0)
  /\ UNCHANGED flash /\ Keep

Erase(s) ==
  /\ img' = [p \in Positions |-> IF InSector(p, s) THEN 0 ELSE img[p]]
  /\ sig' = IF s = 0 THEN "blank" ELSE sig

(* Mutant: from the last sector to the first.                                *)
EraseSectorDown(u) ==
  /\ At(u, "erase") /\ Erase(LastSector - up[u].i)
  /\ IF up[u].i = LastSector THEN Unlock /\ Goto(u, "first", 0)
     ELSE Goto(u, "erase", up[u].i + 1) /\ UNCHANGED lock
  /\ UNCHANGED <<sys, bak>> /\ Keep

(* update_ota_erase_upg_region, from the first sector, which holds the       *)
(* signature, to the last.                                                   *)
EraseSector(u) ==
  /\ At(u, "erase") /\ Erase(up[u].i)
  /\ IF up[u].i = LastSector THEN Unlock /\ Goto(u, "first", 0)
     ELSE Goto(u, "erase", up[u].i + 1) /\ UNCHANGED lock
  /\ UNCHANGED <<sys, bak>> /\ Keep

(* Programming a byte that is not erased spoils it.                          *)
Program(v, from, n) ==
  img' = [p \in Positions |-> IF p \notin from + 1 .. from + n THEN img[p]
                              ELSE IF img[p] = 0 THEN v ELSE -1]

(* Mutant: only a chunk of four bytes or more is looked at.                  *)
SumLongChunks(sum, buf, n) ==
  LET alloc == sum \o buf IN IF n < SumLen THEN sum ELSE [k \in 1 .. SumLen |-> alloc[n + k]]

(* file_checksum is the first four bytes of alloc, and buf is what follows:  *)
(* c[0] = alloc[4+n-4] .. c[3] = alloc[4+n-1], one after the other.          *)
Sum(sum, buf, n) == LET alloc == sum \o buf IN [k \in 1 .. SumLen |-> alloc[n + k]]

(* The bytes of a file by their positions, with h bytes (0) before them.     *)
Buffer(h, from, n) == [k \in 1 .. h + n |-> IF k <= h THEN 0 ELSE from + k - h]

Advance(u, pc, h, n) ==
  up' = [up EXCEPT ![u].pc = pc, ![u].size = @ + n,
                   ![u].sum = IF n = 0 THEN @ ELSE Sum(@, Buffer(h, up[u].size, n), n)]

Done(u, n) == up[u].size + n = FileLen
Least(a, b) == IF a < b THEN a ELSE b

(* Mutant: without device_mutex_lock.                                        *)
StoreAnyhow(u, h, n) ==
  /\ UNCHANGED lock
  /\ Program(up[u].v, up[u].size, n)
  /\ Advance(u, IF Done(u, n) THEN "verify" ELSE "read", h, n)
  /\ UNCHANGED <<sys, bak, sig>> /\ Keep

Store(u, h, n) ==
  /\ Free
  /\ Program(up[u].v, up[u].size, n)
  /\ Advance(u, IF Done(u, n) THEN "verify" ELSE "read", h, n)
  /\ UNCHANGED <<sys, bak, sig>> /\ Keep

(* The part of the body that came in one buffer with the header: its bytes   *)
(* are taken from behind the header, those for the checksum are not.         *)
First(u) ==
  /\ At(u, "first")
  /\ IF u = "local"
     THEN Goto(u, "read", 0) /\ UNCHANGED <<flash, lock>> /\ Keep
     ELSE \E h \in Headers : \E n \in 0 .. Least(ChunkMax - h, FileLen) : Store(u, h, n)

(* Mutant: what comes behind the file is not left out.                       *)
ReadRedundant(u) ==
  /\ At(u, "read")
  /\ \E n \in 1 .. ChunkMax : Store(u, 0, n)

(* What would be too much is left out.                                       *)
Read(u) ==
  /\ At(u, "read")
  /\ \E n \in 1 .. Least(ChunkMax, FileLen - up[u].size) : Store(u, 0, n)

(* The server closes: the local task takes that for the end of the file,     *)
(* http_update_ota for a failed read.                                        *)
Close(u) ==
  /\ At(u, "read") /\ up[u].size \in Closes /\ Mishap
  /\ IF u = "local" THEN Goto(u, "verify", 0) ELSE Stop(u)
  /\ UNCHANGED <<flash, rec, lock, good, overlap, again, torn>>

(* The sum of all bytes but the last four that were written, read back from  *)
(* flash, is compared with those four. Sums of different bytes are taken to  *)
(* differ; those of no bytes are both zero.                                  *)
Intact(v) == good[v] /\ \A p \in 1 .. FileLen - SumLen : img[p] = v

Matches(u) ==
  \/ up[u].size = 0
  \/ /\ up[u].size = FileLen /\ Intact(up[u].v)
     /\ up[u].sum = [k \in 1 .. SumLen |-> FileLen - SumLen + k]

(* The local task reads the flash back without the lock.                     *)
Verify(u) ==
  /\ At(u, "verify")
  /\ IF u = "http" THEN Free ELSE UNCHANGED lock
  /\ IF Matches(u) THEN Goto(u, "sign", 0) ELSE Stop(u)
  /\ UNCHANGED flash /\ Keep

(* Two words, under one lock. Over a cleared signature they change nothing.  *)
Sign(u) ==
  /\ At(u, "sign") /\ Lock(u)
  /\ sig' = IF sig = "blank" THEN "half" ELSE sig
  /\ Goto(u, "signed", 0)
  /\ UNCHANGED <<sys, bak, img>> /\ Keep

SignSecond(u) ==
  /\ At(u, "signed") /\ Unlock
  /\ sig' = IF sig = "half" THEN "signed" ELSE sig
  /\ IF u = "local" THEN Goto(u, "reset", 0) ELSE Stop(u)
  /\ UNCHANGED <<sys, bak, img>> /\ Keep

Update(u) ==
  \/ Start(u) \/ Fail(u) \/ Redirect(u)
  \/ PrepareAddr(u) \/ EraseBackup(u) \/ CopyOut(u) \/ EraseSystem(u) \/ CopyBack(u)
  \/ DropBackup(u) \/ Open(u) \/ EraseSector(u) \/ First(u) \/ Read(u) \/ Close(u)
  \/ Verify(u) \/ Sign(u) \/ SignSecond(u)

-----------------------------------------------------------------------------
(* sys_clear_ota_signature: a signature is overwritten in place.             *)
ClearSignature ==
  /\ sig = "signed" /\ sys[0] /\ Free
  /\ sig' = "cleared"
  /\ UNCHANGED <<sys, bak, img, up>> /\ Keep

(* sys_recover_ota_signature keeps the first sector, with the signature in   *)
(* its place, in the sector that update_ota_prepare_addr uses for its backup,*)
(* and writes it again from its beginning. The lock is held throughout, and  *)
(* for ever when there is no buffer.                                         *)
FirstSector(p) == InSector(p, 0)

RecoveryStep(from, to) ==
  /\ rec.pc = from
  /\ rec' = IF to = "idle" THEN NoRecovery ELSE [rec EXCEPT !.pc = to]
  /\ UNCHANGED <<sys, up, good, overlap, torn, mishaps>>

Recover ==
  /\ sig = "cleared" /\ sys[0]
  /\ rec.pc = "idle" /\ Lock(Recovery)
  /\ rec' = [pc |-> "backup", buf |-> [p \in Positions |-> IF FirstSector(p) THEN img[p] ELSE 0]]
  /\ UNCHANGED <<flash, up, good, overlap, again, torn, mishaps>>

RecoverFails ==
  /\ sig = "cleared" /\ sys[0]
  /\ rec.pc = "idle" /\ Lock(Recovery) /\ Mishap
  /\ UNCHANGED <<flash, up, rec, good, overlap, again, torn>>

RecoverBackup ==
  /\ RecoveryStep("backup", "erase")
  /\ bak' = Blank /\ again' = (again \/ Missing)
  /\ UNCHANGED <<img, sig, lock>>

RecoverErase ==
  /\ RecoveryStep("erase", "head") /\ Erase(0)
  /\ UNCHANGED <<bak, lock, again>>

RecoverHead ==
  /\ RecoveryStep("head", "rest")
  /\ sig' = "signed"
  /\ UNCHANGED <<bak, img, lock, again>>

RecoverRest ==
  /\ RecoveryStep("rest", "idle") /\ Unlock
  /\ img' = [p \in Positions |-> IF FirstSector(p) THEN rec.buf[p] ELSE img[p]]
  /\ UNCHANGED <<bak, sig, again>>

RecoverSignature ==
  \/ Recover \/ RecoverFails
  \/ RecoverBackup \/ RecoverErase \/ RecoverHead \/ RecoverRest

Restart ==
  /\ up' = [u \in Updaters |-> NoUpdate] /\ rec' = NoRecovery /\ lock' = None
  /\ torn' = (torn \/ rec.pc = "rest")
  /\ UNCHANGED <<flash, good, overlap, again>>

(* The local task resets the system after a success, whoever else is at work.*)
Reset == (\E u \in Updaters : At(u, "reset")) /\ Restart /\ UNCHANGED mishaps

PowerFails == (rec.pc # "idle" \/ \E u \in Updaters : Active(u)) /\ Restart /\ Mishap

Next ==
  \/ \E u \in Updaters : Update(u)
  \/ ClearSignature \/ RecoverSignature \/ Reset \/ PowerFails

Spec == Init /\ [][Next]_vars

-----------------------------------------------------------------------------
(* Properties.                                                               *)

Pcs == {"idle", "connect", "eraseBak", "copyOut", "eraseSys", "copyBack", "dropBak", "open", "erase",
        "first", "read", "verify", "sign", "signed", "reset"}

TypeOK ==
  /\ sys \in [WordsOf -> BOOLEAN] /\ bak \in [WordsOf -> BOOLEAN]
  /\ img \in [Positions -> -1 .. MaxUpdates]
  /\ sig \in {"blank", "half", "signed", "cleared"}
  /\ up \in [Updaters -> [pc : Pcs, i : 0 .. Words + LastSector, v : 1 .. MaxUpdates + 1,
                          size : 0 .. FileLen, sum : [1 .. SumLen -> 0 .. FileLen]]]
  /\ rec \in [pc : {"idle", "backup", "erase", "head", "rest"},
             buf : [Positions -> -1 .. MaxUpdates]]
  /\ lock \in Updaters \cup {None, Recovery}
  /\ good \in Seq(BOOLEAN) /\ Len(good) <= MaxUpdates
  /\ overlap \in BOOLEAN /\ again \in BOOLEAN /\ torn \in BOOLEAN /\ mishaps \in 0 .. MaxMishaps

(* Whenever power fails, what the boot loader finds signed is the whole file *)
(* of one update, whose checksum was right, also after the signature has     *)
(* been cleared and recovered. (Two updates under way at once can break      *)
(* this: nothing keeps them apart. So can a failure in the one step of a     *)
(* recovery that puts the signature in front of an erased sector.)           *)
SignedIsVerified ==
  sig = "signed" /\ ~overlap /\ ~torn /\ rec.pc # "rest" =>
    \E v \in DOMAIN good : good[v] /\ (\A p \in Positions : img[p] = v)

(* The other words of the system data sector are never lost: they are in     *)
(* their sector or in the backup sector whenever power fails, until another  *)
(* update or a recovery reuses that sector after such a failure, because     *)
(* nobody copies them back. Two updates at once cannot break this: the lock  *)
(* is held.                                                                  *)
SystemDataKept ==
  \/ again
  \/ \A i \in WordsOf \ {0} : sys[i]
  \/ \A i \in WordsOf \ {0} : bak[i]

(* The flash belongs to one at a time. Between device_mutex_lock and         *)
(* device_mutex_unlock - throughout the rewriting of system data, the        *)
(* erasing, the two words of a signature, a recovery - nothing in it changes *)
(* but by a step of the one that has the lock.                               *)
Locked == {"eraseBak", "copyOut", "eraseSys", "copyBack", "dropBak", "erase", "signed"}

FlashExclusive ==
  [][ flash' # flash =>
        /\ \A u \in Updaters : up[u].pc \in Locked => up'[u] # up[u]
        /\ rec.pc # "idle" => rec' # rec ]_vars

(* However a file is cut into packets, the local task recognises a right one *)
(* that has reached the flash: the four bytes it kept are the file's last.   *)
GoodIsTaken ==
  \A u \in Updaters \cap {"local"} :
    /\ At(u, "verify") /\ up[u].size = FileLen
    /\ good[up[u].v] /\ (\A p \in Positions : img[p] = up[u].v)
    => Matches(u)
=============================================================================
