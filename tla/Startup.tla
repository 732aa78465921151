------------------------------- MODULE Startup -------------------------------
(***************************************************************************)
(* How a server process gets its configuration before main runs: the init  *)
(* functions of pkg/bootstrap, pkg/discover, pkg/config and, in gateway    *)
(* and oauth-service, the service's own config package, in the order of    *)
(* their imports, all over viper's one global configuration; then          *)
(* InitMysql.                                                              *)
(*                                                                         *)
(* bootstrap reads the local file and decodes four sections of it.  The    *)
(* service's package asks the configuration server for more, and the body  *)
(* of any answer, whatever its status, replaces what viper holds before it *)
(* is parsed.  A section that is missing is a nil pointer in subParse and  *)
(* in Sub; one that does not decode is an error, sometimes only logged.    *)
(*                                                                         *)
(* sk-admin has a config package as well, which nothing imports: the       *)
(* program loads nothing and opens its database with an empty MysqlConfig. *)
(*                                                                         *)
(* A section's content matters by where its fields come from.              *)
(***************************************************************************)
CONSTANTS
    Fields,      \* the fields of a section, e.g. Host, Port, Url
    LocalFiles,  \* what bootstrap.yaml may contain
    Answers,     \* what the configuration server may answer
    Missing,     \* a section that is not there
    None         \* no tracer, no database yet

\* The programs with a main; admin is sk-admin.
Services == {"gateway", "oauth", "admin"}
Sections == {"http", "discover", "config", "rpc", "trace", "mysql", "auth"}

\* Those of bootstrap, and those whose error ends the process.
BootSections == {"http", "discover", "config", "rpc"}
Required == {"discover", "config", "rpc"}

\* A section as written: the fields it has, and whether viper can decode it
\* (when it cannot, the fields that are good are decoded all the same).
Forms == [has : SUBSET Fields, decodes : BOOLEAN]
Files == [Sections -> Forms \union {Missing}]

ASSUME FilesAreFiles == LocalFiles \subseteq Files /\ Answers \subseteq Files
ASSUME MarkersDiffer == Missing \notin [value : [Fields -> {"none", "local", "remote"}],
                                        decodes : BOOLEAN] \union Forms

Origins == {"none", "local", "remote"}
Values == [Fields -> Origins]
ASSUME NoneIsNoValue == None \notin Values

VARIABLES
    service,   \* which program this is
    stage,     \* the next step of the initialisers, or how they ended
    settings,  \* viper's configuration: per section its values, or Missing
    parsed,    \* parsed[s]: the Go variable that section s is decoded into
    faulty,    \* sections whose last decoding failed
    client,    \* ConsulService points to a client (it is never a nil interface)
    load,      \* what became of the service's LoadRemoteConfig
    pkgTracer, \* TraceConfig as the tracer of pkg/config was built with it
    database   \* MysqlConfig as the database was opened with it

vars == <<service, stage, settings, parsed, faulty, client, load, pkgTracer, database>>

Nothing == [s \in Sections |-> Missing]
Unset == [f \in Fields |-> "none"]

Init ==
    /\ service \in Services
    /\ stage = "read"
    /\ settings = Nothing
    /\ parsed = [s \in Sections |-> Unset]
    /\ faulty = {}
    /\ client = FALSE
    /\ load = "none"
    /\ pkgTracer = None
    /\ database = None

-----------------------------------------------------------------------------
(* The order of the steps.  Stage "reparse" decodes trace once more.       *)

Ended == {"up", "panicked", "exited"}
Stages == {"read", "http", "discover", "config", "rpc", "client", "trace", "tracer",
           "load", "auth", "mysql", "reparse", "open"} \union Ended

\* Mutant of After: pkg/config's init calls LoadRemoteConfig, as it means to.
AfterEarlyLoad(st) ==
    CASE st = "read" -> "http"
      [] st = "http" -> "discover"
      [] st = "discover" -> "config"
      [] st = "config" -> "rpc"
      [] st = "rpc" -> "client"
      [] st = "client" -> "load"
      [] st = "load" -> "trace"
      [] st = "trace" -> "tracer"
      [] st = "tracer" -> [gateway |-> "auth", oauth |-> "mysql", admin |-> "open"][service]
      [] st = "mysql" -> "reparse"
      [] st = "reparse" -> "open"
      [] OTHER -> "up"

\* pkg/config's own init compares LoadRemoteConfig to nil and never calls it;
\* in sk-admin, which links no config package of its own, nobody does.
After(st) ==
    CASE st = "read" -> "http"
      [] st = "http" -> "discover"
      [] st = "discover" -> "config"
      [] st = "config" -> "rpc"
      [] st = "rpc" -> "client"
      [] st = "client" -> "trace"
      [] st = "trace" -> "tracer"
      [] st = "tracer" -> IF service = "admin" THEN "open" ELSE "load"
      [] st = "load" -> IF service = "gateway" THEN "auth" ELSE "mysql"
      [] st = "mysql" -> "reparse"
      [] st = "reparse" -> "open"
      [] OTHER -> "up"

\* The section that a stage decodes.
SectionOf(st) == IF st = "reparse" THEN "trace" ELSE st
Parses(st) == SectionOf(st) \in Sections

-----------------------------------------------------------------------------
(* The steps.                                                              *)

\* A file f as viper holds it, its fields marked with their origin o.
Hold(f, o) ==
    [s \in Sections |->
        IF f[s] = Missing THEN Missing
        ELSE [value |-> [x \in Fields |-> IF x \in f[s].has THEN o ELSE "none"],
              decodes |-> f[s].decodes]]

\* ReadInConfig; a file that is not found or not YAML is printed, no more.
ReadInConfig ==
    /\ stage = "read"
    /\ settings' \in {Nothing} \union {Hold(f, "local") : f \in LocalFiles}
    /\ stage' = After(stage)
    /\ UNCHANGED <<service, parsed, faulty, client, load, pkgTracer, database>>

\* What Unmarshal makes of a variable v: a field the section lacks is kept.
Decoded(v, section) ==
    [f \in Fields |-> IF section.value[f] = "none" THEN v[f] ELSE section.value[f]]

\* Mutant of Parse: log.Fatal became a message like the others.
ParseAndGoOn ==
    /\ Parses(stage)
    /\ LET s == SectionOf(stage) IN
          /\ settings[s] # Missing
          /\ parsed' = [parsed EXCEPT ![s] = Decoded(@, settings[s])]
          /\ faulty' = IF settings[s].decodes THEN faulty \ {s} ELSE faulty \union {s}
          /\ stage' = After(stage)
    /\ UNCHANGED <<service, settings, client, load, pkgTracer, database>>

\* subParse and Sub of a section that is there.
Parse ==
    /\ Parses(stage)
    /\ LET s == SectionOf(stage) IN
          /\ settings[s] # Missing
          /\ parsed' = [parsed EXCEPT ![s] = Decoded(@, settings[s])]
          /\ faulty' = IF settings[s].decodes THEN faulty \ {s} ELSE faulty \union {s}
          /\ stage' = IF ~settings[s].decodes /\ stage \in Required THEN "exited" ELSE After(stage)
    /\ UNCHANGED <<service, settings, client, load, pkgTracer, database>>

\* viper.Sub of a section that is missing is nil, and the next line calls it.
ParseMissing ==
    /\ Parses(stage)
    /\ settings[SectionOf(stage)] = Missing
    /\ stage' = "panicked"
    /\ UNCHANGED <<service, settings, parsed, faulty, client, load, pkgTracer, database>>

\* NewConsulClientInstance: a client or, after an error, a nil pointer, which
\* makes ConsulService an interface that is not nil.
NewClient ==
    /\ stage = "client"
    /\ client' \in BOOLEAN
    /\ stage' = After(stage)
    /\ UNCHANGED <<service, settings, parsed, faulty, load, pkgTracer, database>>

\* initTracer with the address in TraceConfig; none of the options it passes can
\* fail, so the exit behind NewTracer is never taken.  (The tracer that
\* oauth-service builds after decoding trace again keeps nothing else.)
InitTracer ==
    /\ stage = "tracer"
    /\ pkgTracer' = parsed["trace"]
    /\ stage' = After(stage)
    /\ UNCHANGED <<service, settings, parsed, faulty, client, load, database>>

\* Discover through the nil pointer; the test for a nil interface before it
\* does not see it.
DiscoverPanics ==
    /\ stage = "load"
    /\ ~client
    /\ stage' = "panicked"
    /\ UNCHANGED <<service, settings, parsed, faulty, client, load, pkgTracer, database>>

\* LoadRemoteConfig fails before ReadConfig: no instance, or http.Get fails.
LoadFails ==
    /\ stage = "load"
    /\ client
    /\ load' = "failed"
    /\ stage' = After(stage)
    /\ UNCHANGED <<service, settings, parsed, faulty, client, pkgTracer, database>>

\* Mutant of LoadUnreadable: the old configuration survives an answer that
\* cannot be parsed.
LoadUnreadableKeeps ==
    /\ stage = "load"
    /\ client
    /\ load' = "unreadable"
    /\ stage' = After(stage)
    /\ UNCHANGED <<service, settings, parsed, faulty, client, pkgTracer, database>>

\* ReadConfig empties the configuration and then cannot parse the body.
LoadUnreadable ==
    /\ stage = "load"
    /\ client
    /\ settings' = Nothing
    /\ load' = "unreadable"
    /\ stage' = After(stage)
    /\ UNCHANGED <<service, parsed, faulty, client, pkgTracer, database>>

\* Mutant of LoadAnswer: the answer is merged into what is there.
LoadMerges ==
    /\ stage = "load"
    /\ client
    /\ \E f \in Answers :
          settings' = [s \in Sections |->
              IF f[s] = Missing THEN settings[s]
              ELSE IF settings[s] = Missing THEN Hold(f, "remote")[s]
              ELSE [value |-> Decoded(settings[s].value, Hold(f, "remote")[s]),
                    decodes |-> f[s].decodes /\ settings[s].decodes]]
    /\ load' = "answered"
    /\ stage' = After(stage)
    /\ UNCHANGED <<service, parsed, faulty, client, pkgTracer, database>>

\* ReadConfig of an answer that can be parsed, an error page among them.
LoadAnswer ==
    /\ stage = "load"
    /\ client
    /\ settings' \in {Hold(f, "remote") : f \in Answers}
    /\ load' = "answered"
    /\ stage' = After(stage)
    /\ UNCHANGED <<service, parsed, faulty, client, pkgTracer, database>>

\* Mutant of OpenDatabase: it takes the section before it was decoded.
OpenDatabaseUndecoded ==
    /\ stage = "open"
    /\ database' \in {None, settings["mysql"]}
    /\ stage' = After(stage)
    /\ UNCHANGED <<service, settings, parsed, faulty, client, load, pkgTracer>>

\* InitMysql, called by main (sk-admin) or the HTTP goroutine (oauth-service);
\* an error of gorose.Open is printed and the process runs on without.
OpenDatabase ==
    /\ stage = "open"
    /\ database' \in {None, parsed["mysql"]}
    /\ stage' = After(stage)
    /\ UNCHANGED <<service, settings, parsed, faulty, client, load, pkgTracer>>

Next ==
    \/ ReadInConfig
    \/ Parse
    \/ ParseMissing
    \/ NewClient
    \/ InitTracer
    \/ DiscoverPanics
    \/ LoadFails
    \/ LoadUnreadable
    \/ LoadAnswer
    \/ OpenDatabase

Spec == Init /\ [][Next]_vars

-----------------------------------------------------------------------------
(* Properties.                                                             *)

Held == [value : Values, decodes : BOOLEAN]

\* Every variable keeps its type.
TypeOK ==
    /\ service \in Services
    /\ stage \in Stages
    /\ settings \in [Sections -> Held \union {Missing}]
    /\ parsed \in [Sections -> Values]
    /\ faulty \subseteq Sections
    /\ client \in BOOLEAN
    /\ load \in {"none", "failed", "unreadable", "answered"}
    /\ pkgTracer \in Values \union {None}
    /\ database \in Values \union {None}

Has(v, o) == \E f \in Fields : v[f] = o

\* A gateway or an oauth-service that comes up can register: it has a client for
\* Consul, and its discovery, configuration and RPC sections were decoded to the
\* last field.  That it has a client is no test's doing: LoadRemoteConfig, on the
\* way up, dies without one.  (sk-admin, which neither loads nor registers, may
\* come up without a client.)
UpIsRegistrable ==
    stage = "up" /\ service # "admin" => client /\ faulty \cap Required = {}

\* What a process registers under, and the tracer that pkg/config builds, never
\* come from the configuration server, whatever it answers and when: the
\* remote configuration is loaded once at most, and after both.
EarlyIsLocal ==
    /\ \A s \in BootSections : ~Has(parsed[s], "remote")
    /\ pkgTracer # None => ~Has(pkgTracer, "remote")

\* An answer that cannot be parsed never lets the gateway or the oauth-service
\* that asked come up, though its error is only logged and the local sections may
\* have been complete.
UnreadableNeverStarts == load = "unreadable" => stage # "up"

\* The database is never opened at one source's host with the other source's
\* user or password, whatever fields either of them lacks.
DatabaseOfOneSource ==
    database # None => ~(Has(database, "local") /\ Has(database, "remote"))

\* The load of a gateway or an oauth-service replaces all or nothing: after a
\* failure nothing is remote, after an answer the service's own sections hold
\* nothing local, of the trace address only those fields stay local that the
\* answer lacks, and the database is not opened with fields of both.
LoadIsWhole ==
    /\ DatabaseOfOneSource
    /\ load = "failed" => \A s \in Sections : ~Has(parsed[s], "remote")
    /\ load = "answered" =>
          /\ \A s \in {"mysql", "auth"} : ~Has(parsed[s], "local")
          /\ stage \in {"open", "up"} /\ service # "gateway" =>
                \A f \in Fields :
                    parsed["trace"][f] = "local" => settings["trace"].value[f] = "none"
=============================================================================
