------------------------------- MODULE Keyring -------------------------------
(***************************************************************************)
(* The keyring file (keyring.c) and the commands that change it: "keyring  *)
(* add", "keyring set did", and the start of a server, which seeds an      *)
(* empty keyring.  The file has a page with the allocation map and the     *)
(* salt, and one page for each identity, encrypted under the salt and the  *)
(* identity's PIN.  A process reads the map once, when it opens the file,  *)
(* and keyring_commit() writes back its own map and all its identities.    *)
(***************************************************************************)
EXTENDS Integers

CONSTANTS
    Proc,         \* the processes that run one command after another
    MaxSlot,      \* the last slot of the slab (KEYRING_BAM_BITS - 1)
    PIN,          \* PINs; NoPIN is the empty one
    NoPIN,
    DidName,      \* names for set did
    LongName,     \* those of 32 characters and more
    Garbled,      \* what is read of a name that was not stored whole
    MaxIdentity,  \* bound: how many identities are created
    MaxChange,    \* bound: how many names are set
    Solo          \* whether a command begins only when no other is running

ASSUME KeyringAssumption ==
    /\ MaxSlot \in Nat \ {0} /\ NoPIN \in PIN /\ LongName \subseteq DidName
    /\ MaxIdentity \in Nat /\ MaxChange \in Nat /\ Solo \in BOOLEAN

VARIABLES
    page,      \* the file's first page: allocation map and salt
    slot,      \* the file's other pages
    ring,      \* the keyring_file structure of each process, and its command
    created,   \* the number of identities created
    changed,   \* the number of names set
    kept       \* history: the identities the users were told of, with the names
               \* each may have

keyringVars == <<page, slot, ring, created, changed, kept>>

Slot == 1..MaxSlot
Identity == 1..MaxIdentity
NewFile == [bam |-> {}, salt |-> "none"]      \* a file that is still empty

\* A page that was never written.
Blank == [sid |-> 0, pin |-> NoPIN, salt |-> "none", name |-> "none"]

\* Where a process is in its command: its copy of the map, the salt and the extent
\* of the file, the identities it has loaded by their slots, and the slots that
\* are still to be written.
Idle == [at |-> "idle", cmd |-> "none", pin |-> NoPIN, bam |-> {}, salt |-> "none",
         extent |-> {}, ids |-> [s \in {} |-> Blank], todo |-> {}]

KeyringInit ==
    /\ page = NewFile /\ slot = [s \in Slot |-> Blank]
    /\ ring = [p \in Proc |-> Idle]
    /\ created = 0 /\ changed = 0
    /\ kept = [i \in Identity |-> [pin |-> NoPIN, names |-> {}]]

\* The slots before the end of the file.
Extent == {s \in Slot : \E t \in Slot : s <= t /\ slot[t] # Blank}

First(S, s) == s \in S /\ \A t \in S : s <= t

-----------------------------------------------------------------------------
(* keyring_open_with_pins()                                                 *)

\* A command: add with the PIN of the new identity, set did with the PIN to be
\* entered, or the start of a server.
BeginCommand(p, cmd, pin) ==
    /\ ring[p] = Idle
    /\ Solo => \A q \in Proc : ring[q] = Idle
    /\ ring' = [ring EXCEPT ![p] = [Idle EXCEPT !.at = "open", !.cmd = cmd, !.pin = pin]]
    /\ UNCHANGED <<page, slot, created, changed, kept>>

\* keyring_open(): a file without its first page gets an empty map and a new salt;
\* then both are read.
keyring_open(p) ==
    /\ ring[p].at = "open"
    /\ IF page = NewFile
       THEN /\ page' = [bam |-> {}, salt |-> p]
            /\ UNCHANGED ring
       ELSE /\ ring' = [ring EXCEPT ![p].at = "enter", ![p].bam = page.bam,
                                    ![p].salt = page.salt, ![p].extent = Extent]
            /\ UNCHANGED page
    /\ UNCHANGED <<slot, created, changed, kept>>

\* keyring_decrypt_pkr(): the page is found to be an identity when salt and PIN
\* are those it was written with.
Decrypts(s, salt, pin) == slot[s] # Blank /\ slot[s].salt = salt /\ slot[s].pin = pin

\* keyring_enter_pin(): all slots of the file that the map marks as used are tried.
keyring_enter_pin(p) ==
    /\ ring[p].at = "enter"
    /\ LET r == ring[p]
           pin == IF r.cmd = "set did" THEN r.pin ELSE NoPIN
       IN ring' = [ring EXCEPT ![p].at = "work",
                     ![p].ids = [s \in {t \in r.bam \cap r.extent : Decrypts(t, r.salt, pin)}
                                   |-> slot[s]]]
    /\ UNCHANGED <<page, slot, created, changed, kept>>

-----------------------------------------------------------------------------
(* What the commands do                                                     *)

\* The slots that are not marked in the map.
Free(r) == Slot \ r.bam

\* Mutant: the slot stays free.
MarkedNot(r, s) == r.bam

\* "Mark slot as in use": the map with it.
Marked(r, s) == r.bam \cup {s}

\* keyring_create_identity(), in the first free slot, for add, and for
\* keyring_seed() when no identity was found.
keyring_create_identity(p) ==
    LET r == ring[p]
        pin == IF r.cmd = "add" THEN r.pin ELSE NoPIN
    IN /\ r.at = "work"
       /\ r.cmd = "add" \/ (r.cmd = "seed" /\ DOMAIN r.ids = {})
       /\ created < MaxIdentity
       /\ \E s \in Slot :
            /\ First(Free(r), s)
            /\ ring' = [ring EXCEPT ![p].at = "page", ![p].bam = Marked(r, s),
                  ![p].ids = [t \in DOMAIN r.ids \cup {s} |-> IF t # s THEN r.ids[t]
                    ELSE [sid |-> created + 1, pin |-> pin, salt |-> r.salt, name |-> "none"]]]
       /\ created' = created + 1
       /\ UNCHANGED <<page, slot, changed, kept>>

\* It fails without a free slot.
CreateFails(p) ==
    /\ ring[p].at = "work" /\ ring[p].cmd \in {"add", "seed"} /\ Free(ring[p]) = {}
    /\ ring' = [ring EXCEPT ![p] = Idle]
    /\ UNCHANGED <<page, slot, created, changed, kept>>

\* keyring_seed() does nothing when there is an identity.
SeedNothing(p) ==
    /\ ring[p].at = "work" /\ ring[p].cmd = "seed" /\ DOMAIN ring[p].ids # {}
    /\ ring' = [ring EXCEPT ![p] = Idle]
    /\ UNCHANGED <<page, slot, created, changed, kept>>

\* keyring_set_did(), of the identity that keyring_find_sid() finds; "No matching
\* SID" otherwise.
keyring_set_did(p) ==
    /\ ring[p].at = "work" /\ ring[p].cmd = "set did"
    /\ \/ /\ changed < MaxChange
          /\ \E s \in DOMAIN ring[p].ids, n \in DidName :
               LET sid == ring[p].ids[s].sid
               IN /\ ring' = [ring EXCEPT ![p].at = "page", ![p].ids[s].name = n]
                  /\ kept' = [kept EXCEPT ![sid].names = IF @ = {} THEN {} ELSE @ \cup {n}]
          /\ changed' = changed + 1
       \/ /\ ring' = [ring EXCEPT ![p] = Idle]
          /\ UNCHANGED <<changed, kept>>
    /\ UNCHANGED <<page, slot, created>>

-----------------------------------------------------------------------------
(* keyring_commit()                                                         *)

\* "Write all BAMs", with the salt.
WritePage(p) ==
    /\ ring[p].at = "page"
    /\ page' = [bam |-> ring[p].bam, salt |-> ring[p].salt]
    /\ ring' = [ring EXCEPT ![p].at = "records", ![p].todo = DOMAIN ring[p].ids]
    /\ UNCHANGED <<slot, created, changed, kept>>

\* Mutant: an identity is stored under the PIN that was entered.
PackedEnteredPin(r, id) == [id EXCEPT !.pin = r.pin, !.salt = r.salt]

\* keyring_pack_identity(), which stores 32 of the 64 bytes that are read of a name.
Packed(r, id) ==
    [id EXCEPT !.salt = r.salt, !.name = IF @ \in LongName THEN Garbled ELSE @]

\* "For each identity in each context, write the record to disk", in the order of
\* the slots: a new identity has the last one.
WriteRecord(p) ==
    /\ ring[p].at = "records"
    /\ \E s \in Slot :
         /\ First(ring[p].todo, s)
         /\ slot' = [slot EXCEPT ![s] = Packed(ring[p], ring[p].ids[s])]
         /\ ring' = [ring EXCEPT ![p].todo = @ \ {s}]
    /\ UNCHANGED <<page, created, changed, kept>>

\* The command ends, and its user counts on the identities it has written.
FinishCommand(p) ==
    LET ids == ring[p].ids IN
    /\ ring[p].at = "records" /\ ring[p].todo = {}
    /\ kept' = [i \in Identity |->
                  IF \E s \in DOMAIN ids : ids[s].sid = i
                  THEN LET s == CHOOSE s \in DOMAIN ids : ids[s].sid = i
                       IN [pin |-> ids[s].pin, names |-> {ids[s].name}]
                  ELSE kept[i]]
    /\ ring' = [ring EXCEPT ![p] = Idle]
    /\ UNCHANGED <<page, slot, created, changed>>

\* The process is killed between two writes.
Killed(p) ==
    /\ ring[p] # Idle
    /\ ring' = [ring EXCEPT ![p] = Idle]
    /\ UNCHANGED <<page, slot, created, changed, kept>>

KeyringNext ==
    \E p \in Proc :
      \/ \E pin \in PIN : BeginCommand(p, "add", pin) \/ BeginCommand(p, "set did", pin)
      \/ BeginCommand(p, "seed", NoPIN)
      \/ keyring_open(p) \/ keyring_enter_pin(p)
      \/ keyring_create_identity(p) \/ CreateFails(p) \/ SeedNothing(p) \/ keyring_set_did(p)
      \/ WritePage(p) \/ WriteRecord(p) \/ FinishCommand(p) \/ Killed(p)

KeyringSpec == KeyringInit /\ [][KeyringNext]_keyringVars

-----------------------------------------------------------------------------
(* Properties                                                               *)

KeyringTypeOK ==
    /\ page.bam \subseteq Slot /\ created \in 0..MaxIdentity
    /\ \A s \in Slot : slot[s].sid \in Identity \cup {0} /\ slot[s].pin \in PIN
    /\ \A p \in Proc : ring[p].bam \subseteq Slot /\ DOMAIN ring[p].ids \subseteq ring[p].bam

\* At any time, also between the writes of a commit and after one was cut short,
\* a process that opens the keyring and enters the PIN finds each identity that a
\* command has created, with the name that was set last (or, while a name is
\* being set, with one of the two).
IdentitiesAreKept ==
    \A i \in Identity : kept[i].names # {} =>
      \E s \in page.bam \cap Extent :
        Decrypts(s, page.salt, kept[i].pin) /\ slot[s].sid = i /\ slot[s].name \in kept[i].names
=============================================================================
