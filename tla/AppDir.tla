------------------------------- MODULE AppDir -------------------------------
(***************************************************************************)
(* The directory of one application and the commands that make, load and   *)
(* start it: Service.Clone, unpacking an application package, GenChain,    *)
(* Reset and Load, and the DNA they carry from directory to directory.     *)
(*                                                                         *)
(* A command is a sequence of writes to the disk.  Any of them can fail,   *)
(* which the command handles, and the process can stop between any two.    *)
(***************************************************************************)
EXTENDS Naturals, Sequences, FiniteSets

CONSTANTS SourceDir,     \* the DNA directories that are cloned or packaged
          MaxCommands,   \* bound: commands given
          MaxFailures,   \* bound: writes that fail
          MaxCrashes     \* bound: times the process stops in a command

\* A developer's DNA has an identifier of its own and, where it has one, a schema.
ASSUME SourceAssumption ==
    \A d \in SourceDir :
        /\ d.file.UUID \notin {"failed", "new"}
        /\ d.file.Schema # "absent"
ASSUME CommandBoundsAssumption == {MaxCommands, MaxFailures, MaxCrashes} \subseteq Nat

-----------------------------------------------------------------------------
(* DNA and the files that hold it, with one zome that has one entry type *)

\* The content of a file that is not there.
Absent == "absent"
\* The schema of the properties that every package is loaded with.
Template == "template schema"
\* In place of a DNA: there is an error.
Failed == [UUID |-> "failed"]

\* Service.saveDNAFile: the DNA file it writes for a DNA.
DNAFile(dna) ==
    [UUID |-> dna.UUID, Name |-> dna.Name, PropertiesSchemaFile |-> TRUE,
     RequiresVersion |-> dna.RequiresVersion, CodeFile |-> TRUE,
     DataFormat |-> dna.DataFormat, Schema |-> "",
     SchemaFile |-> dna.DataFormat = "json" /\ dna.Schema # ""]

\* DNA.check
check(file) == file.RequiresVersion = "supported"

\* Service.loadDNA: the DNA in a directory, or Failed.  The name a zome's code
\* file has by default is set in the file's record and not in the loop's copy, so
\* a zome without one is not found.
loadDNA(d) ==
    IF d.state # "encoded" THEN Failed
    ELSE LET f == d.file
         IN  IF \/ f.PropertiesSchemaFile /\ d.properties = Absent
                \/ ~check(f)
                \/ ~f.CodeFile \/ ~d.code
                \/ f.Schema = "" /\ f.SchemaFile /\ d.schema = Absent
             THEN Failed
             ELSE [UUID |-> f.UUID, Name |-> f.Name,
                   PropertiesSchema |-> IF f.PropertiesSchemaFile THEN d.properties ELSE "",
                   RequiresVersion |-> f.RequiresVersion, DataFormat |-> f.DataFormat,
                   Schema |-> IF f.Schema = "" /\ f.SchemaFile THEN d.schema ELSE f.Schema]

\* MakeAppPackage and LoadAppPackage: the DNA that comes out of a package.
LoadAppPackage(dna) == [dna EXCEPT !.PropertiesSchema = Template]

-----------------------------------------------------------------------------
VARIABLES
    source,    \* the DNA directory everything is made from
    dna,       \* the DNA directory of the application
    made,      \* what else it has: a subset of {"root", "config", "agent", "db"}
    chain,     \* the entries in the chain's file
    dnaHash,   \* the DNA hash file: the DNA it was written for, if it is there
    dht,       \* what SetupDHT has put into the DHT's file
    genesis,   \* how often the genesis function has run on this chain
    command,   \* the command that is running, "none" if there is none
    todo,      \* the writes it still has to make
    held,      \* the DNA it works with
    outcome,   \* how the last command ended
    cloned,    \* "none", or how the directory was made, if that was completed
    partial,   \* the commands that ended half way and left what they had written
    given, failures, crashes

disk == <<dna, made, chain, dnaHash, dht, genesis>>
vars == <<source, disk, command, todo, held, outcome, cloned, partial, given, failures,
          crashes>>

Outcome == {"nil", "error", "panic", "stopped"}
GenesisEntry == {"dna", "key", "agent"}

\* Every variable has a value of its type, a bound holds, and no command makes
\* more entries or runs genesis more often than once for a chain.
TypeOK ==
    /\ source \in SourceDir
    /\ made \subseteq {"root", "config", "agent", "db"}
    /\ chain \in 0 .. 2 /\ dht \subseteq GenesisEntry /\ genesis \in 0 .. 1
    /\ command \in {"none", "clone", "new", "unpack", "gen", "reset"}
    /\ outcome \in Outcome /\ cloned \in {"none", "clone", "new", "unpack"}
    /\ partial \subseteq {"clone", "new", "unpack", "gen", "reset"}
    /\ given \in 0 .. MaxCommands
    /\ failures \in 0 .. MaxFailures /\ crashes \in 0 .. MaxCrashes

NoDNA == [state |-> "absent", file |-> Failed, code |-> FALSE, properties |-> Absent, schema |-> Absent]

Nothing ==
    /\ dna = NoDNA /\ made = {} /\ chain = 0 /\ dnaHash = << >> /\ dht = {}
    /\ genesis = 0

Init ==
    /\ source \in SourceDir
    /\ Nothing
    /\ command = "none" /\ todo = << >> /\ held = Failed /\ outcome = "nil"
    /\ cloned = "none" /\ partial = {} /\ given = 0 /\ failures = 0 /\ crashes = 0

-----------------------------------------------------------------------------
(* Loading *)

\* Service.Load: what an attempt to load the application gives.  With a single
\* entry on the chain the header of the agent entry is read past the end; the
\* error of reading the hash file, if it is not there, is returned at the end.
Load ==
    LET d == loadDNA(dna)
    IN  IF "config" \notin made \/ d = Failed \/ "db" \notin made
        THEN [err |-> "error", started |-> FALSE]
        ELSE IF chain > 0 /\ dnaHash \notin {<< >>, <<d>>}
        THEN [err |-> "error", started |-> FALSE]
        ELSE IF chain = 1 THEN [err |-> "panic", started |-> FALSE]
        ELSE IF chain > 0 /\ dnaHash = << >> THEN [err |-> "error", started |-> TRUE]
        ELSE [err |-> "nil", started |-> chain > 0]

-----------------------------------------------------------------------------
(* The commands *)

Start(c, steps, d) ==
    /\ command = "none" /\ given < MaxCommands
    /\ given' = given + 1
    /\ command' = c /\ todo' = steps /\ held' = d
    /\ UNCHANGED <<source, disk, outcome, cloned, partial, failures, crashes>>

\* A command that is refused before it writes anything.
Refuse(how) ==
    /\ command = "none" /\ given < MaxCommands
    /\ given' = given + 1 /\ outcome' = how
    /\ UNCHANGED <<source, disk, command, todo, held, cloned, partial, failures, crashes>>

\* The writes of saveDNAFile: the file is created, the zomes' code and schemas
\* and the schema of the properties are written, and the file is encoded last.
\* Mutant: the schema of the properties is not written.
saveDNAFileShort == <<"create", "zomes", "encode">>
saveDNAFile == <<"create", "zomes", "properties", "encode">>

makeConfig == <<"config">>
SaveAgent == <<"agent">>
InitAppDir == <<"config", "db">>
MakeDirs == <<"root">>
SaveFromAppPackage == MakeDirs \o saveDNAFile \o SaveAgent

\* gen: the directory, what a make function puts into it, and an empty chain.
gen(make) == <<"root">> \o make \o <<"db">>

\* Service.Clone with the DNA as it is, or made a new one.  The source is read
\* after the root is there.
\* Mutant: the directory is removed also when it was there before.
CloneRemoves(new) == Start("clone", <<IF "root" \in made THEN "fail" ELSE "root">>, Failed)
Clone(new) ==
    LET d == loadDNA(source)
    IN  IF "root" \in made THEN Refuse("error")
        ELSE IF d = Failed THEN Start("clone", <<"root", "fail">>, d)
        ELSE Start(IF new THEN "new" ELSE "clone",
                   gen(makeConfig \o saveDNAFile \o SaveAgent),
                   IF new THEN [d EXCEPT !.UUID = "new", !.Name = "local"] ELSE d)

\* hcadmin join with a package: SaveFromAppPackage, which takes the local name
\* and does not overwrite a DNA file, and InitAppDir.
Unpack ==
    LET d == loadDNA(source)
    IN  IF d = Failed THEN Refuse("error")
        ELSE Start("unpack",
                   IF dna.state # "absent" THEN <<"root", "fail">>
                   ELSE SaveFromAppPackage \o InitAppDir,
                   [LoadAppPackage(d) EXCEPT !.Name = "local"])

\* Service.GenChain: Load, then the genesis entries, the hash file, Prepare,
\* SetupDHT and RunGenesis.
AddAgentEntry == <<"agentEntry">>
Prepare == <<"prepare">>
SetupDHT == <<"putDNA", "putKey", "putAgent">>
RunGenesis == <<"genesis">>
Genesis ==
    <<"dnaEntry">> \o AddAgentEntry \o <<"hashFile">> \o Prepare \o SetupDHT \o RunGenesis

\* Mutant: the DHT is not set up.
GenChainBare ==
    IF Load.err # "nil" THEN Refuse(Load.err)
    ELSE IF Load.started THEN Refuse("error")
    ELSE Start("gen", SubSeq(Genesis, 1, 4), loadDNA(dna))
GenChain ==
    IF Load.err # "nil" THEN Refuse(Load.err)
    ELSE IF Load.started THEN Refuse("error")
    ELSE Start("gen", Genesis, loadDNA(dna))

\* Reset of a loaded application.
Reset ==
    /\ Load.err = "nil"
    /\ Start("reset", <<"removeDB", "db", "removeHash">>, loadDNA(dna))

-----------------------------------------------------------------------------
(* The writes *)

\* What a write does to the disk.
Write(s) ==
    /\ made' = CASE s \in {"root", "config", "agent", "db"} -> made \cup {s}
                 [] s = "removeDB" -> made \ {"db"}
                 [] OTHER -> made
    /\ dna' = CASE s = "create" -> [dna EXCEPT !.state = "empty"]
                [] s = "zomes" ->
                     [dna EXCEPT !.code = TRUE,
                                 !.schema = IF DNAFile(held).SchemaFile THEN held.Schema
                                            ELSE @]
                [] s = "properties" ->
                     [dna EXCEPT !.properties = IF held.PropertiesSchema = "" THEN @
                                                ELSE held.PropertiesSchema]
                [] s = "encode" -> [dna EXCEPT !.state = "encoded", !.file = DNAFile(held)]
                [] OTHER -> dna
    /\ chain' = CASE s \in {"dnaEntry", "agentEntry"} -> chain + 1
                  [] s = "removeDB" -> 0
                  [] OTHER -> chain
    /\ dnaHash' = CASE s = "hashFile" -> <<held>> [] s = "removeHash" -> << >>
                    [] OTHER -> dnaHash
    /\ dht' = CASE s = "putDNA" -> dht \cup {"dna"} [] s = "putKey" -> dht \cup {"key"}
                [] s = "putAgent" -> dht \cup {"agent"} [] s = "removeDB" -> {}
                [] OTHER -> dht
    /\ genesis' = CASE s = "genesis" -> genesis + 1 [] s = "removeDB" -> 0
                    [] OTHER -> genesis

\* WriteFile refuses to overwrite the DNA hash file.
MustFail(s) == s = "fail" \/ (s = "hashFile" /\ dnaHash # << >>)

\* The command makes its next write; after the last one it has succeeded.
Step ==
    /\ command # "none" /\ ~MustFail(Head(todo))
    /\ Write(Head(todo))
    /\ todo' = Tail(todo)
    /\ IF Len(todo) > 1 THEN UNCHANGED <<command, outcome, cloned>>
       ELSE /\ command' = "none" /\ outcome' = "nil"
            /\ cloned' = IF command \in {"clone", "new", "unpack"} THEN command ELSE cloned
    /\ UNCHANGED <<source, held, partial, given, failures, crashes>>

\* The commands whose deferred function removes the root directory on an error.
CleansUp == {"clone", "new", "gen"}

Removed ==
    /\ dna' = NoDNA /\ made' = {} /\ chain' = 0 /\ dnaHash' = << >> /\ dht' = {}
    /\ genesis' = 0

\* The command returns with an error or stops, with what it has written.
LeavesPart ==
    /\ partial' = partial \cup {command}
    /\ UNCHANGED <<disk, cloned>>

\* A write fails and the command returns the error.
Fail ==
    /\ command # "none" /\ Head(todo) # "putKey"
    /\ IF MustFail(Head(todo)) THEN failures' = failures
       ELSE failures < MaxFailures /\ failures' = failures + 1
    /\ IF command \in CleansUp THEN Removed /\ cloned' = "none" /\ partial' = {}
       ELSE LeavesPart
    /\ command' = "none" /\ todo' = << >> /\ outcome' = "error"
    /\ UNCHANGED <<source, held, given, crashes>>

\* SetupDHT overwrites the error of putKey and goes on.
FailKey ==
    /\ command # "none" /\ Head(todo) = "putKey" /\ failures < MaxFailures
    /\ failures' = failures + 1 /\ todo' = Tail(todo)
    /\ UNCHANGED <<source, disk, command, held, outcome, cloned, partial, given, crashes>>

\* The process stops and nothing is cleaned up.
Crash ==
    /\ command # "none" /\ crashes < MaxCrashes
    /\ crashes' = crashes + 1
    /\ LeavesPart
    /\ command' = "none" /\ todo' = << >> /\ outcome' = "stopped"
    /\ UNCHANGED <<source, held, given, failures>>

Next ==
    \/ \E new \in BOOLEAN : Clone(new)
    \/ Unpack \/ GenChain \/ Reset
    \/ Step \/ Fail \/ FailKey \/ Crash

Spec == Init /\ [][Next]_vars

-----------------------------------------------------------------------------
(* Properties *)

Idle == command = "none"
Loads == Idle /\ Load.err = "nil"

\* An application that was cloned to join it has the DNA of its source, and with
\* it the hash that names its network, if the schemas of its entries are of the
\* kind saveDNAFile writes; a clone that is a new application has another.
JoinKeepsDNA ==
    LET d == loadDNA(source)
    IN  Loads => CASE cloned = "clone" -> d.Schema = "" \/ d.DataFormat = "json"
                                             => loadDNA(dna) = d
                   [] cloned = "new" -> loadDNA(dna) # d
                   [] OTHER -> TRUE

\* There is a directory only if it was made completely: Clone and GenChain remove
\* it on every error, and only a command that stopped, or a package that could not
\* be unpacked to the end, leaves half of one.  What was made can be loaded, if the
\* DNA has a schema of its properties, which saveDNAFile always names, and has
\* the DNA it should have.  Every variable has a value of its type.
MadeLoads ==
    /\ TypeOK /\ JoinKeepsDNA
    /\ Idle /\ partial = {} => Nothing \/ cloned # "none"
    /\ Idle /\ cloned # "none" /\ partial = {} =>
          \/ Load.err = "nil"
          \/ cloned # "unpack" /\ loadDNA(source).PropertiesSchema = ""

\* Whatever fails, and wherever a process stops, a chain that has been started
\* is there until it is reset: GenChain never removes the directory of one.
StartedStays ==
    [][chain = 2 /\ genesis = 1 /\ command # "reset" =>
            chain' = 2 /\ dnaHash' = dnaHash /\ dht' = dht]_vars

\* An application that loads as started has the entries it links to in the DHT,
\* which GenChain puts there, and has run its genesis function, and loading does
\* not read past the end of the chain, unless GenChain was stopped before it was
\* done.
StartedIsSetUp ==
    Idle /\ "gen" \notin partial =>
        /\ Load.err # "panic"
        /\ Load.started => {"dna", "agent"} \subseteq dht /\ genesis = 1

\* hcadmin join: an application that is joined, from a directory or from a
\* package, is the same application.
JoinIsSource ==
    Loads /\ cloned \in {"clone", "unpack"} => loadDNA(dna) = loadDNA(source)
=============================================================================
