------------------------------ MODULE MCAppDir ------------------------------
(***************************************************************************)
(* The DNA directories a developer may have: with and without a schema of  *)
(* the properties, an entry of either format with its schema in the DNA    *)
(* file, in a file of its own or nowhere, for a version of Holochain that  *)
(* is supported or not, and one that does not name the zome's code file.   *)
(***************************************************************************)
EXTENDS AppDir

Directory(properties, format, schema, version, code) ==
    [state |-> "encoded", code |-> TRUE,
     properties |-> IF properties THEN "own schema" ELSE Absent,
     schema |-> IF schema = "file" THEN "schema" ELSE Absent,
     file |-> [UUID |-> "uuid", Name |-> "app", PropertiesSchemaFile |-> properties,
               RequiresVersion |-> version, CodeFile |-> code, DataFormat |-> format,
               Schema |-> IF schema = "inline" THEN "schema" ELSE "",
               SchemaFile |-> schema = "file"]]

MCSourceDir ==
    {Directory(p, f, s, "supported", TRUE) :
        p \in BOOLEAN, f \in {"json", "string"}, s \in {"inline", "file", "none"}}
    \cup {Directory(TRUE, "json", "file", "later", TRUE),
          Directory(TRUE, "json", "file", "supported", FALSE)}
=============================================================================
