---------------------------- MODULE StartupProofs ----------------------------
(* Theorems about Startup, for any set of fields, files and answers.        *)
EXTENDS Startup, TLAPS

-----------------------------------------------------------------------------
(* The inductive invariant.                                                *)

AfterLoad == {"auth", "mysql", "reparse", "open", "up"}

\* All that viper holds comes from o.
HeldFrom(o) ==
    \A s \in Sections : settings[s] # Missing =>
        \A f \in Fields : settings[s].value[f] \in {o, "none"}

\* The source of what viper holds follows from the load.
SettingsInv ==
    /\ load \in {"none", "failed"} => HeldFrom("local")
    /\ load \in {"answered", "unreadable"} => HeldFrom("remote")
    /\ load = "unreadable" => settings = Nothing

\* Where the process is, by the load, the program and the client.
StageInv ==
    /\ service = "admin" => load = "none" /\ stage \notin {"load", "auth", "mysql", "reparse"}
    /\ stage \in AfterLoad /\ service # "admin" => load # "none" /\ client
    /\ stage \notin AfterLoad \union Ended => load = "none"
    /\ load = "unreadable" => stage \in {"auth", "mysql", "panicked"}
    /\ stage = "auth" => service = "gateway"
    /\ stage \in {"mysql", "reparse", "open"} => service # "gateway"
    /\ stage # "exited" => faulty \cap Required = {}

\* The source of what was decoded follows from the load.
ParsedInv ==
    /\ load \in {"none", "failed"} => \A s \in Sections : ~Has(parsed[s], "remote")
    /\ load = "none" => \A s \in {"mysql", "auth"} : ~Has(parsed[s], "local")
    /\ load \in {"answered", "unreadable"} =>
          \A s \in {"mysql", "auth"} : ~Has(parsed[s], "local")
    /\ \A s \in BootSections : ~Has(parsed[s], "remote")
    /\ pkgTracer # None => ~Has(pkgTracer, "remote")
    /\ DatabaseOfOneSource

\* What was decoded once more agrees with what viper holds.
TraceInv ==
    load = "answered" /\ stage \in {"open", "up"} /\ service # "gateway" =>
        \A f \in Fields :
            parsed["trace"][f] = "local" => settings["trace"].value[f] = "none"

StartInv == TypeOK /\ SettingsInv /\ StageInv /\ ParsedInv /\ TraceInv

-----------------------------------------------------------------------------
(* What Hold and Decoded do.                                               *)

LEMMA HoldIs ==
    ASSUME NEW g \in Files, NEW o \in {"local", "remote"}
    PROVE  /\ Hold(g, o) \in [Sections -> Held \union {Missing}]
           /\ \A s \in Sections : Hold(g, o)[s] # Missing =>
                 \A f \in Fields : Hold(g, o)[s].value[f] \in {o, "none"}
<1>1. ASSUME NEW s \in Sections
      PROVE  /\ Hold(g, o)[s] \in Held \union {Missing}
             /\ Hold(g, o)[s] # Missing =>
                   \A f \in Fields : Hold(g, o)[s].value[f] \in {o, "none"}
  <2>1. g[s] \in Forms \union {Missing}
    BY DEF Files
  <2>2. CASE g[s] = Missing
    BY <2>2 DEF Hold
  <2>3. CASE g[s] # Missing
    <3>1. g[s].decodes \in BOOLEAN
      BY <2>1, <2>3 DEF Forms
    <3> DEFINE v == [x \in Fields |-> IF x \in g[s].has THEN o ELSE "none"]
    <3>2. v \in Values /\ \A f \in Fields : v[f] \in {o, "none"}
      BY DEF Values, Origins
    <3>3. Hold(g, o)[s] = [value |-> v, decodes |-> g[s].decodes]
      BY <2>3 DEF Hold
    <3> HIDE DEF v
    <3> QED
      BY <3>1, <3>2, <3>3 DEF Held
  <2> QED
    BY <2>2, <2>3
<1>2. Hold(g, o) = [s \in Sections |-> Hold(g, o)[s]]
  BY DEF Hold
<1> QED
  BY <1>1, <1>2

\* A decoded field is the section's, or the one that was there before.
LEMMA DecodedIs ==
    ASSUME NEW v \in Values, NEW section \in Held
    PROVE  /\ Decoded(v, section) \in Values
           /\ \A f \in Fields :
                 \/ section.value[f] # "none" /\ Decoded(v, section)[f] = section.value[f]
                 \/ section.value[f] = "none" /\ Decoded(v, section)[f] = v[f]
<1>1. section.value \in Values
  BY DEF Held
<1> QED
  BY <1>1 DEF Decoded, Values

LEMMA AfterIs ==
    /\ After("read") = "http" /\ After("http") = "discover" /\ After("discover") = "config"
    /\ After("config") = "rpc" /\ After("rpc") = "client" /\ After("client") = "trace"
    /\ After("trace") = "tracer"
    /\ After("tracer") = IF service = "admin" THEN "open" ELSE "load"
    /\ After("load") = IF service = "gateway" THEN "auth" ELSE "mysql"
    /\ After("auth") = "up" /\ After("mysql") = "reparse"
    /\ After("reparse") = "open" /\ After("open") = "up"
BY DEF After

-----------------------------------------------------------------------------
LEMMA StartInit == Init => StartInv
<1> SUFFICES ASSUME Init PROVE StartInv
  OBVIOUS
<1>1. \A s \in Sections : parsed[s] = Unset /\ ~Has(Unset, "local") /\ ~Has(Unset, "remote")
  BY DEF Init, Unset, Has
<1>2. Unset \in Values
  BY DEF Unset, Values, Origins
<1>3. TypeOK
  BY <1>1, <1>2 DEF Init, TypeOK, Stages, Nothing
<1>4. SettingsInv
  BY DEF Init, SettingsInv, HeldFrom, Nothing
<1>5. StageInv /\ TraceInv
  BY DEF Init, StageInv, TraceInv, AfterLoad, Ended
<1>6. ParsedInv
  BY <1>1 DEF Init, ParsedInv, BootSections, Sections, DatabaseOfOneSource
<1> QED
  BY <1>3, <1>4, <1>5, <1>6 DEF StartInv

LEMMA StepReadInConfig ==
    ASSUME StartInv, ReadInConfig PROVE StartInv'
<1> USE DEF ReadInConfig, StartInv
<1>1. stage' = "http" /\ load = "none" /\ load' = "none"
  BY AfterIs DEF StageInv, AfterLoad, Ended
<1>2. settings' \in [Sections -> Held \union {Missing}] /\ HeldFrom("local")'
  <2>1. CASE settings' = Nothing
    BY <2>1 DEF Nothing, HeldFrom
  <2>2. ASSUME NEW g \in LocalFiles, settings' = Hold(g, "local")
        PROVE  settings' \in [Sections -> Held \union {Missing}] /\ HeldFrom("local")'
    BY <2>2, HoldIs, FilesAreFiles DEF HeldFrom
  <2> QED
    BY <2>1, <2>2
<1>3. TypeOK'
  BY <1>1, <1>2 DEF TypeOK, Stages
<1>4. SettingsInv'
  BY <1>1, <1>2 DEF SettingsInv
<1>5. StageInv' /\ TraceInv'
  BY <1>1 DEF StageInv, TraceInv, AfterLoad, Ended
<1>6. ParsedInv'
  BY DEF ParsedInv, DatabaseOfOneSource, Has
<1> QED
  BY <1>3, <1>4, <1>5, <1>6


LEMMA StepParse ==
    ASSUME StartInv, Parse PROVE StartInv'
<1> USE DEF StartInv
<1> DEFINE s == SectionOf(stage)
           held == settings[s]
<1>1. s \in Sections /\ held \in Held /\ held # Missing /\ parsed[s] \in Values
  BY DEF Parse, Parses, TypeOK
<1>2. parsed' = [parsed EXCEPT ![s] = Decoded(parsed[s], held)]
  BY DEF Parse
<1>3. /\ Decoded(parsed[s], held) \in Values
      /\ \A f \in Fields :
            \/ held.value[f] # "none" /\ parsed'[s][f] = held.value[f]
            \/ held.value[f] = "none" /\ parsed'[s][f] = parsed[s][f]
  BY <1>1, <1>2, DecodedIs DEF TypeOK
<1>4. \A t \in Sections : t # s => parsed'[t] = parsed[t]
  BY <1>2 DEF TypeOK
<1>5. /\ UNCHANGED <<service, settings, client, load, pkgTracer, database>>
      /\ faulty' = IF held.decodes THEN faulty \ {s} ELSE faulty \union {s}
      /\ stage' = IF ~held.decodes /\ stage \in Required THEN "exited" ELSE After(stage)
  BY DEF Parse
<1>6. /\ stage \in {"http", "discover", "config", "rpc", "trace", "auth", "mysql", "reparse"}
      /\ s = IF stage = "reparse" THEN "trace" ELSE stage
  BY <1>1 DEF SectionOf, Sections, TypeOK, Stages
<1> HIDE DEF s, held
<1>7. /\ stage \in BootSections \union {"trace"} =>
            stage' \in BootSections \union {"client", "tracer", "exited"}
      /\ stage = "auth" => stage' = "up"
      /\ stage = "mysql" => stage' = "reparse"
      /\ stage = "reparse" => stage' = "open"
  BY <1>5, <1>6, AfterIs DEF Required, BootSections
<1>8. TypeOK'
  <2>1. parsed' \in [Sections -> Values] /\ faulty' \subseteq Sections
    BY <1>1, <1>2, <1>3, <1>5 DEF TypeOK
  <2>2. stage' \in Stages
    BY <1>6, <1>7 DEF Stages, BootSections, Ended
  <2> QED
    BY <1>5, <2>1, <2>2 DEF TypeOK
<1>9. SettingsInv'
  BY <1>5 DEF SettingsInv, HeldFrom
<1>10. StageInv'
  <2>1. stage' # "exited" => faulty' \cap Required = {}
    BY <1>5, <1>6 DEF StageInv, Required
  <2>2. load # "unreadable"
    BY <1>1, <1>6 DEF SettingsInv, StageInv, Nothing, held
  <2>3. stage \in BootSections \union {"trace"} => load = "none"
    BY DEF StageInv, AfterLoad, Ended, BootSections
  <2> QED
    BY <1>5, <1>6, <1>7, <2>1, <2>2, <2>3 DEF StageInv, AfterLoad, Ended, BootSections
<1>11. /\ load \in {"none", "failed"} => ~Has(parsed'[s], "remote")
       /\ load \in {"answered", "unreadable"} /\ s \in {"mysql", "auth"} => ~Has(parsed'[s], "local")
  <2>1. CASE load \in {"none", "failed"}
    <3>1. \A f \in Fields : held.value[f] \in {"local", "none"}
      BY <1>1, <2>1 DEF SettingsInv, HeldFrom, held
    <3>2. \A f \in Fields : parsed[s][f] # "remote"
      BY <1>1, <2>1 DEF ParsedInv, Has
    <3> QED
      BY <1>3, <2>1, <3>1, <3>2 DEF Has
  <2>2. CASE load \in {"answered", "unreadable"} /\ s \in {"mysql", "auth"}
    <3>1. \A f \in Fields : held.value[f] \in {"remote", "none"}
      BY <1>1, <2>2 DEF SettingsInv, HeldFrom, held
    <3>2. \A f \in Fields : parsed[s][f] # "local"
      BY <1>1, <2>2 DEF ParsedInv, Has
    <3> QED
      BY <1>3, <2>2, <3>1, <3>2 DEF Has
  <2> QED
    BY <2>1, <2>2
<1>12. stage \in BootSections => load = "none"
  BY DEF StageInv, AfterLoad, Ended, BootSections
<1>13. load = "none" => s \notin {"mysql", "auth"}
  BY <1>6 DEF StageInv, AfterLoad
<1>14. ParsedInv'
  <2>1. load' \in {"none", "failed"} => \A t \in Sections : ~Has(parsed'[t], "remote")
    BY <1>4, <1>5, <1>11 DEF ParsedInv
  <2>2. load' # "failed" => \A t \in {"mysql", "auth"} : ~Has(parsed'[t], "local")
    BY <1>4, <1>5, <1>11, <1>13 DEF ParsedInv, TypeOK, Sections
  <2>3. \A t \in BootSections : ~Has(parsed'[t], "remote")
    BY <1>4, <1>6, <1>11, <1>12 DEF ParsedInv, BootSections, Sections
  <2>4. pkgTracer' # None => ~Has(pkgTracer', "remote")
    BY <1>5 DEF ParsedInv
  <2>5. DatabaseOfOneSource'
    BY <1>5 DEF ParsedInv, DatabaseOfOneSource, Has
  <2> QED
    BY <2>1, <2>2, <2>3, <2>4, <2>5 DEF ParsedInv
<1>15. TraceInv'
  <2>1. CASE stage = "reparse"
    <3>1. s = "trace" /\ held = settings["trace"]
      BY <1>6, <2>1 DEF held
    <3>2. load = "answered" => \A f \in Fields : held.value[f] \in {"remote", "none"}
      BY <1>1 DEF SettingsInv, HeldFrom, held
    <3> QED
      BY <1>3, <1>5, <3>1, <3>2 DEF TraceInv
  <2>2. CASE stage # "reparse"
    BY <1>5, <1>6, <1>7, <2>2 DEF TraceInv, StageInv, BootSections
  <2> QED
    BY <2>1, <2>2
<1> QED
  BY <1>8, <1>9, <1>10, <1>14, <1>15

LEMMA StepParseMissing ==
    ASSUME StartInv, ParseMissing PROVE StartInv'
<1> USE DEF StartInv, ParseMissing
<1>1. TypeOK'
  BY DEF TypeOK, Stages, Ended
<1>2. SettingsInv'
  BY DEF SettingsInv, HeldFrom
<1>3. StageInv' /\ TraceInv'
  <2>1. stage # "exited"
    BY DEF Parses, SectionOf, Sections
  <2> QED
    BY <2>1 DEF StageInv, TraceInv, AfterLoad, Ended
<1>4. ParsedInv'
  BY DEF ParsedInv, DatabaseOfOneSource, Has
<1> QED
  BY <1>1, <1>2, <1>3, <1>4

LEMMA StepNewClient ==
    ASSUME StartInv, NewClient PROVE StartInv'
<1> USE DEF StartInv, NewClient
<1>1. stage' = "trace" /\ load = "none"
  BY AfterIs DEF StageInv, AfterLoad, Ended
<1>2. TypeOK'
  BY <1>1 DEF TypeOK, Stages
<1>3. SettingsInv' /\ StageInv' /\ TraceInv'
  BY <1>1 DEF SettingsInv, StageInv, TraceInv, HeldFrom, AfterLoad, Ended, Required
<1>4. ParsedInv'
  BY DEF ParsedInv, DatabaseOfOneSource, Has
<1> QED
  BY <1>2, <1>3, <1>4

LEMMA StepInitTracer ==
    ASSUME StartInv, InitTracer PROVE StartInv'
<1> USE DEF StartInv, InitTracer
<1>1. /\ stage' = IF service = "admin" THEN "open" ELSE "load"
      /\ stage = "tracer" /\ load = "none" /\ pkgTracer' = parsed["trace"]
  BY AfterIs DEF StageInv, AfterLoad, Ended
<1>2. parsed["trace"] \in Values /\ ~Has(parsed["trace"], "remote")
  BY <1>1 DEF TypeOK, Sections, ParsedInv
<1>3. TypeOK'
  BY <1>1, <1>2 DEF TypeOK, Stages
<1>4. SettingsInv' /\ StageInv' /\ TraceInv'
  BY <1>1 DEF SettingsInv, StageInv, TraceInv, HeldFrom, AfterLoad, Ended, Required
<1>5. ParsedInv'
  <2>1. ~Has(pkgTracer', "remote")
    BY <1>1, <1>2
  <2>2. DatabaseOfOneSource'
    BY DEF ParsedInv, DatabaseOfOneSource, Has
  <2>3. /\ load' \in {"none", "failed"} => \A s \in Sections : ~Has(parsed'[s], "remote")
        /\ load' = "none" => \A s \in {"mysql", "auth"} : ~Has(parsed'[s], "local")
        /\ \A s \in BootSections : ~Has(parsed'[s], "remote")
    BY DEF ParsedInv
  <2> QED
    BY <1>1, <2>1, <2>2, <2>3 DEF ParsedInv
<1> QED
  BY <1>3, <1>4, <1>5

LEMMA StepDiscoverPanics ==
    ASSUME StartInv, DiscoverPanics PROVE StartInv'
<1> USE DEF StartInv, DiscoverPanics
<1>1. TypeOK'
  BY DEF TypeOK, Stages, Ended
<1>2. SettingsInv'
  BY DEF SettingsInv, HeldFrom
<1>3. StageInv' /\ TraceInv'
  BY DEF StageInv, TraceInv, AfterLoad, Ended
<1>4. ParsedInv'
  BY DEF ParsedInv, DatabaseOfOneSource, Has
<1> QED
  BY <1>1, <1>2, <1>3, <1>4

\* The three ways a load that was tried can end.
Loads == LoadFails \/ LoadUnreadable \/ LoadAnswer

LEMMA StepLoad ==
    ASSUME StartInv, Loads PROVE StartInv'
<1> USE DEF StartInv
<1>1. /\ stage = "load" /\ client /\ load = "none"
      /\ stage' = IF service = "gateway" THEN "auth" ELSE "mysql"
      /\ service # "admin"
      /\ load' \in {"failed", "unreadable", "answered"}
      /\ UNCHANGED <<service, parsed, faulty, client, pkgTracer, database>>
  BY AfterIs DEF Loads, LoadFails, LoadUnreadable, LoadAnswer, StageInv, AfterLoad, Ended
<1>2. /\ settings' \in [Sections -> Held \union {Missing}]
      /\ load' = "failed" => HeldFrom("local")'
      /\ load' # "failed" => HeldFrom("remote")'
      /\ load' = "unreadable" => settings' = Nothing
  <2>1. CASE LoadFails
    BY <1>1, <2>1 DEF LoadFails, SettingsInv, TypeOK, HeldFrom
  <2>2. CASE LoadUnreadable
    BY <2>2 DEF LoadUnreadable, Nothing, HeldFrom
  <2>3. CASE LoadAnswer
    <3>1. PICK g \in Answers : settings' = Hold(g, "remote")
      BY <2>3 DEF LoadAnswer
    <3>2. load' = "answered"
      BY <2>3 DEF LoadAnswer
    <3> QED
      BY <3>1, <3>2, HoldIs, FilesAreFiles DEF HeldFrom
  <2> QED
    BY <2>1, <2>2, <2>3 DEF Loads
<1>3. TypeOK'
  BY <1>1, <1>2 DEF TypeOK, Stages
<1>4. SettingsInv'
  BY <1>1, <1>2 DEF SettingsInv
<1>5. StageInv' /\ TraceInv'
  BY <1>1 DEF StageInv, TraceInv, AfterLoad, Ended, Services
<1>6. ParsedInv'
  <2>1. DatabaseOfOneSource'
    BY <1>1 DEF ParsedInv, DatabaseOfOneSource, Has
  <2> QED
    BY <1>1, <2>1 DEF ParsedInv
<1> QED
  BY <1>3, <1>4, <1>5, <1>6

LEMMA StepOpenDatabase ==
    ASSUME StartInv, OpenDatabase PROVE StartInv'
<1> USE DEF StartInv
<1>1. /\ stage = "open" /\ stage' = "up" /\ database' \in {None, parsed["mysql"]}
      /\ UNCHANGED <<service, settings, parsed, faulty, client, load, pkgTracer>>
  BY AfterIs DEF OpenDatabase
<1>2. /\ service # "gateway"
      /\ load \in {"none", "failed", "answered"}
      /\ service = "admin" => load = "none"
      /\ service # "admin" => load # "none" /\ client
  BY <1>1 DEF StageInv, AfterLoad, TypeOK
<1>3. parsed["mysql"] \in Values /\ ~(Has(parsed["mysql"], "local") /\ Has(parsed["mysql"], "remote"))
  BY <1>2 DEF TypeOK, ParsedInv, Sections
<1>4. TypeOK'
  BY <1>1, <1>3 DEF TypeOK, Stages, Ended
<1>5. SettingsInv' /\ StageInv' /\ TraceInv'
  BY <1>1, <1>2 DEF SettingsInv, StageInv, TraceInv, HeldFrom, AfterLoad, Ended, Required
<1>6. ParsedInv'
  <2>1. DatabaseOfOneSource'
    BY <1>1, <1>3 DEF DatabaseOfOneSource
  <2> QED
    BY <1>1, <2>1 DEF ParsedInv
<1> QED
  BY <1>4, <1>5, <1>6

LEMMA StartStep == StartInv /\ [Next]_vars => StartInv'
<1> SUFFICES ASSUME StartInv, [Next]_vars PROVE StartInv'
  OBVIOUS
<1>1. CASE UNCHANGED vars
  BY <1>1 DEF vars, StartInv, TypeOK, SettingsInv, StageInv, ParsedInv, TraceInv, HeldFrom,
              DatabaseOfOneSource, Has
<1>2. CASE Next
  BY <1>2, StepReadInConfig, StepParse, StepParseMissing, StepNewClient, StepInitTracer,
     StepDiscoverPanics, StepLoad, StepOpenDatabase DEF Next, Loads
<1> QED
  BY <1>1, <1>2

LEMMA StartAlways == Spec => []StartInv
BY StartInit, StartStep, PTL DEF Spec

-----------------------------------------------------------------------------
(* Theorems.                                                               *)

\* Every reachable state has its type.
THEOREM StartupTypes == Spec => []TypeOK
<1>1. StartInv => TypeOK
  BY DEF StartInv
<1> QED
  BY <1>1, StartAlways, PTL

\* A gateway or an oauth-service that came up has a client for Consul and has
\* decoded what it registers with (subParse's errors, NewConsulClientInstance's
\* nil pointer).
THEOREM UpRegistrable == Spec => []UpIsRegistrable
<1>1. StartInv => UpIsRegistrable
  BY DEF StartInv, StageInv, UpIsRegistrable, AfterLoad
<1> QED
  BY <1>1, StartAlways, PTL

\* The remote configuration never reaches the name a process registers under,
\* nor the tracer of pkg/config (the order of the init functions).
THEOREM EarlyLocal == Spec => []EarlyIsLocal
<1>1. StartInv => EarlyIsLocal
  BY DEF StartInv, ParsedInv, EarlyIsLocal
<1> QED
  BY <1>1, StartAlways, PTL

\* An answer that cannot be parsed ends the process (LoadRemoteConfig empties
\* the configuration, Sub of what is missing is nil).
THEOREM UnreadableEnds == Spec => []UnreadableNeverStarts
<1>1. StartInv => UnreadableNeverStarts
  BY DEF StartInv, StageInv, UnreadableNeverStarts
<1> QED
  BY <1>1, StartAlways, PTL

\* LoadRemoteConfig, where it runs, replaces the service's own sections wholly
\* or not at all, and InitMysql never mixes the two sources.
THEOREM LoadWhole == Spec => []LoadIsWhole
<1>1. StartInv => LoadIsWhole
  BY DEF StartInv, ParsedInv, TraceInv, LoadIsWhole
<1> QED
  BY <1>1, StartAlways, PTL
=============================================================================
