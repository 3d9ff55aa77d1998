------------------------------ MODULE KeyFile ------------------------------
(***************************************************************************)
(* The trusted bundle key file (trust/keys.py) and the rules a release     *)
(* keeps between two versions of it (scripts/check_release.py).            *)
(*                                                                         *)
(* A file is a record: `keys` gives for every key id its entry, or None    *)
(* when the file does not list it, and `form` stands for everything else   *)
(* in the file's bytes (layout, field order), so that two files can list   *)
(* the same keys in different bytes.                                       *)
(***************************************************************************)
EXTENDS Integers

CONSTANTS
    KeyIds,      \* the key ids a file may list
    PublicKeys,  \* public keys; an entry's digest follows from its key
    Dates,       \* moments a date field may hold
    Reasons,     \* revocation reasons
    Forms,       \* byte layouts of a file
    None         \* a field that is null, a key that is not listed

Status == {"active", "retired", "revoked"}

BundleKey ==
    [public_key : PublicKeys, status : Status, valid_from : Dates,
     retired_at : Dates \cup {None}, revoked_at : Dates \cup {None},
     revocation_reason : Reasons \cup {None}]

TrustFile == [keys : [KeyIds -> BundleKey \cup {None}], form : Forms]

ASSUME KeyFileAssumption ==
    /\ Dates \subseteq Nat
    /\ None \notin Dates /\ None \notin Reasons
    /\ None \notin BundleKey

Listed(file) == {id \in KeyIds : file.keys[id] # None}

(***************************************************************************)
(* Reading a file.                                                         *)
(***************************************************************************)
\* The dates a status needs are present, the others absent, and in order.
StatusDates(key) ==
    /\ key.status = "retired" => key.retired_at # None
    /\ key.status = "active" => key.retired_at = None
    /\ (key.revoked_at # None) <=> (key.status = "revoked")
    /\ (key.revocation_reason # None) <=> (key.status = "revoked")
    /\ key.retired_at # None => key.valid_from <= key.retired_at
    /\ key.revoked_at # None =>
           /\ key.valid_from <= key.revoked_at
           /\ key.retired_at # None => key.retired_at <= key.revoked_at

\* The file is accepted: every entry keeps its rules, no key has two ids.
Parses(file) ==
    /\ \A id \in Listed(file) : StatusDates(file.keys[id])
    /\ \A id1, id2 \in Listed(file) :
           file.keys[id1].public_key = file.keys[id2].public_key => id1 = id2

(***************************************************************************)
(* The history between two files.                                          *)
(***************************************************************************)
Forward == {<<"active", "retired">>, <<"active", "revoked">>,
            <<"retired", "revoked">>}

WrittenOnce(old, new) == old # None => new = old

KeyMovedForward(old, new) ==
    /\ new.public_key = old.public_key
    /\ new.valid_from = old.valid_from
    /\ old.status # new.status => <<old.status, new.status>> \in Forward
    /\ WrittenOnce(old.retired_at, new.retired_at)
    /\ WrittenOnce(old.revoked_at, new.revoked_at)
    /\ WrittenOnce(old.revocation_reason, new.revocation_reason)

\* No key of `old` was removed, and each only moved forward.
HistoryKept(old, new) ==
    \A id \in Listed(old) :
        /\ new.keys[id] # None
        /\ KeyMovedForward(old.keys[id], new.keys[id])

(***************************************************************************)
(* Versions: `series` stands for the pair (major, minor), in its order.    *)
(***************************************************************************)
Version == [series : Nat, patch : Nat]

Higher(v, w) ==
    v.series > w.series \/ (v.series = w.series /\ v.patch > w.patch)

\* The highest version of a set, which exists when the set is finite.
Newest(v, S) == v \in S /\ \A u \in S : u # v => Higher(v, u)

\* A change to the file's bytes raises the major or minor version.
RaisedForChange(oldFile, newFile, oldVersion, newVersion) ==
    newFile # oldFile => newVersion.series > oldVersion.series

KeysAnySeries(oldFile, newFile, oldVersion, newVersion) ==  \* mutant: any bump
    /\ Parses(oldFile)
    /\ Parses(newFile)
    /\ HistoryKept(oldFile, newFile)

KeysOK(oldFile, newFile, oldVersion, newVersion) ==
    /\ Parses(oldFile)
    /\ Parses(newFile)
    /\ HistoryKept(oldFile, newFile)
    /\ RaisedForChange(oldFile, newFile, oldVersion, newVersion)
=============================================================================
