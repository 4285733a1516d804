---------------------------- MODULE AttachOptions ----------------------------
(***************************************************************************)
(* AttachOptions (src/main/attached_database.cpp, lines 20-64) and the     *)
(* option check of the native AttachedDatabase constructor (lines 95-112). *)
(*                                                                         *)
(* The loop over AttachInfo::options is taken one entry per step.  An      *)
(* entry is a key and a value; a value is a string that the boolean cast   *)
(* (DefaultCastAs(BOOLEAN)) turns into true or false or rejects.           *)
(***************************************************************************)
EXTENDS Naturals, Sequences, SequencesExt

CONSTANTS
  Keys,           \* option keys a statement may carry
  Values,         \* option values: "true", "false", or not a boolean
  DbTypeNames,    \* DBConfigOptions::database_type values ("" = native)
  NativeOptions,  \* the native constructor's allow-list (lower case)
  Lower(_),       \* lower-casing of a key, as used by CIEquals
  MaxEntries      \* longest option list checked

ASSUME {"true", "false"} \subseteq Values
ASSUME MaxEntries \in Nat

VARIABLES
  info,     \* AttachInfo::options, in iteration order
  default,  \* the default_access_mode argument
  pos,      \* index of the next entry of the loop
  result,   \* the AttachOptions being built
  status    \* "parsing", "parsed", "error", "accepted" or "rejected"

vars == <<info, default, pos, result, status>>

AccessModes == {"READ_ONLY", "READ_WRITE"}
Entries == [key: Keys, val: Values]
NoTable == "NO_DEFAULT_TABLE"

(***************************************************************************)
(* The loop body.                                                          *)
(***************************************************************************)
ReadOnlyKeys == {"readonly", "read_only"}
ReadWriteKeys == {"readwrite", "read_write"}
ModeKeys == ReadOnlyKeys \cup ReadWriteKeys
RecognizedKeys == ModeKeys \cup {"type", "default_table"}

\* BooleanValue::Get(value.DefaultCastAs(BOOLEAN)); defined on "true"
\* and "false", a ConversionException otherwise.
CastsToBoolean(v) == v \in {"true", "false"}
BooleanOf(v) == v = "true"

\* Lines 31-36: readonly = true selects READ_ONLY.
ReadOnlyMode(v) == IF BooleanOf(v) THEN "READ_ONLY" ELSE "READ_WRITE"

\* Mutant: the read-write branch copied from the read-only one.
ReadWriteModeCopied(v) == ReadOnlyMode(v)

\* Lines 42-47: readwrite = false selects READ_ONLY.
ReadWriteMode(v) == IF ~BooleanOf(v) THEN "READ_ONLY" ELSE "READ_WRITE"

\* Mutant: options.insert, which keeps the first value of a key.
PassThroughFirstWins(o, e) ==
  IF e.key \in DOMAIN o.options THEN o
  ELSE [o EXCEPT !.options =
          [k \in DOMAIN o.options \cup {e.key} |->
             IF k = e.key THEN e.val ELSE o.options[k]]]

\* Line 62: options[entry.first] = entry.second, a later value overwrites.
PassThrough(o, e) ==
  [o EXCEPT !.options =
     [k \in DOMAIN o.options \cup {e.key} |->
        IF k = e.key THEN e.val ELSE o.options[k]]]

\* Mutant: the "type" branch without its continue, so the key is also
\* copied into options.
ParseStepTypeFallsThrough(o, e) ==
  CASE e.key \in ReadOnlyKeys  -> [o EXCEPT !.access_mode = ReadOnlyMode(e.val)]
    [] e.key \in ReadWriteKeys -> [o EXCEPT !.access_mode = ReadWriteMode(e.val)]
    [] e.key = "type"          -> PassThrough([o EXCEPT !.db_type = e.val], e)
    [] e.key = "default_table" -> [o EXCEPT !.default_table = e.val]
    [] OTHER                   -> PassThrough(o, e)

\* Lines 27-63: one entry; the key names are compared case-sensitively and
\* every recognized key ends the iteration with continue.  QualifiedName
\* parsing of default_table is kept as the value it parses.
ParseStep(o, e) ==
  CASE e.key \in ReadOnlyKeys  -> [o EXCEPT !.access_mode = ReadOnlyMode(e.val)]
    [] e.key \in ReadWriteKeys -> [o EXCEPT !.access_mode = ReadWriteMode(e.val)]
    [] e.key = "type"          -> [o EXCEPT !.db_type = e.val]
    [] e.key = "default_table" -> [o EXCEPT !.default_table = e.val]
    [] OTHER                   -> PassThrough(o, e)

\* Lines 24-25: the statement constructor starts from the default mode.
AttachOptionsFromInfo(mode) ==
  [access_mode |-> mode, db_type |-> "", default_table |-> NoTable,
   options |-> [k \in {} |-> ""]]

\* Lines 20-22: the configuration constructor copies the defaults.
AttachOptionsFromConfig(mode, type) ==
  [access_mode |-> mode, db_type |-> type, default_table |-> NoTable,
   options |-> [k \in {} |-> ""]]

\* Lines 96-110: a key CIEquals one of the allow-list.
NativeAllowed(k) == Lower(k) \in NativeOptions

(***************************************************************************)
(* Actions.                                                                *)
(***************************************************************************)
Init ==
  \/ /\ info \in SeqOf(Entries, MaxEntries)
     /\ default \in AccessModes
     /\ pos = 1
     /\ result = AttachOptionsFromInfo(default)
     /\ status = "parsing"
  \/ /\ info = <<>>
     /\ default \in AccessModes
     /\ pos = 1
     /\ \E type \in DbTypeNames : result = AttachOptionsFromConfig(default, type)
     /\ status = "parsed"

ParseEntry ==
  /\ status = "parsing"
  /\ pos <= Len(info)
  /\ info[pos].key \in ModeKeys => CastsToBoolean(info[pos].val)
  /\ result' = ParseStep(result, info[pos])
  /\ pos' = pos + 1
  /\ UNCHANGED <<info, default, status>>

\* The boolean cast of a mode value throws; no AttachOptions results.
ParseEntryCastFails ==
  /\ status = "parsing"
  /\ pos <= Len(info)
  /\ info[pos].key \in ModeKeys
  /\ ~CastsToBoolean(info[pos].val)
  /\ status' = "error"
  /\ UNCHANGED <<info, default, pos, result>>

EndParse ==
  /\ status = "parsing"
  /\ pos > Len(info)
  /\ status' = "parsed"
  /\ UNCHANGED <<info, default, pos, result>>

\* The native constructor accepts the remaining options ...
NativeAccepts ==
  /\ status = "parsed"
  /\ \A k \in DOMAIN result.options : NativeAllowed(k)
  /\ status' = "accepted"
  /\ UNCHANGED <<info, default, pos, result>>

\* ... or throws BinderException("Unrecognized option for attach").
NativeRejects ==
  /\ status = "parsed"
  /\ \E k \in DOMAIN result.options : ~NativeAllowed(k)
  /\ status' = "rejected"
  /\ UNCHANGED <<info, default, pos, result>>

Next ==
  \/ ParseEntry \/ ParseEntryCastFails \/ EndParse
  \/ NativeAccepts \/ NativeRejects

Spec == Init /\ [][Next]_vars

(***************************************************************************)
(* Properties.                                                             *)
(***************************************************************************)
Parsed == status \in {"parsed", "accepted", "rejected"}

TypeOK ==
  /\ info \in Seq(Entries)
  /\ default \in AccessModes
  /\ pos \in 1..(MaxEntries + 1)
  /\ result.access_mode \in AccessModes
  /\ DOMAIN result.options \subseteq Keys \ RecognizedKeys
  /\ status \in {"parsing", "parsed", "error", "accepted", "rejected"}

\* Reference: the mode a single mode entry asks for.
ImpliedMode(e) ==
  IF (e.key \in ReadOnlyKeys) = BooleanOf(e.val) THEN "READ_ONLY" ELSE "READ_WRITE"

(* Spec 8: when the options name both read-only and read-write keys, the  *)
(* access mode is the one asked for by the mode key that comes last in    *)
(* the input, and the default when there is none (AttachOptions, lines    *)
(* 27-49).                                                                *)
LastModeKeyWins ==
  Parsed =>
    LET last == SelectLastInSeq(info, LAMBDA e : e.key \in ModeKeys)
    IN result.access_mode = IF last = 0 THEN default ELSE ImpliedMode(info[last])

(* Every key the parser does not recognize reaches the constructor's      *)
(* option check with the value of its last occurrence, and no recognized  *)
(* key does (AttachOptions, lines 27-62).                                 *)
UnrecognizedKeysPassedThrough ==
  Parsed =>
    LET passed == {info[i].key : i \in {j \in 1..Len(info) :
                                         info[j].key \notin RecognizedKeys}}
    IN /\ DOMAIN result.options = passed
       /\ \A k \in passed :
            result.options[k] =
              info[SelectLastInSeq(info, LAMBDA e : e.key = k)].val
=============================================================================
