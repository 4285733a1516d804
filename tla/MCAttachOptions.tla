--------------------------- MODULE MCAttachOptions ---------------------------
(* AttachOptions over option lists of up to three entries: every           *)
(* recognized key, an allowed storage key in upper case, a mode key in     *)
(* upper case, and an unknown key; values true, false and a non-boolean.   *)
EXTENDS AttachOptions

MCKeys == {"readonly", "read_only", "readwrite", "read_write", "type",
           "default_table", "BLOCK_SIZE", "READONLY", "unknown"}
MCValues == {"true", "false", "abc"}
MCDbTypeNames == {"", "sqlite"}
MCNativeOptions == {"block_size", "encryption_key", "encryption_cipher",
                    "row_group_size", "storage_version"}
MCLower(k) ==
  CASE k = "BLOCK_SIZE" -> "block_size"
    [] k = "READONLY"   -> "readonly"
    [] OTHER            -> k
=============================================================================
