------------------------------- MODULE Process -------------------------------
(***************************************************************************)
(* The process: main.run parses the arguments, config.Load reads the       *)
(* environment, container.BuildWorker calls the constructors and           *)
(* lifecycle.Run runs the worker.  The settings are checked by Load, again *)
(* by NewSource, which also has defaults, and again by the patcher, which  *)
(* falls back; Run installs the signal handler, so that a signal before it *)
(* ends the process at once.                                               *)
(***************************************************************************)
EXTENDS Lifecycle, Integers

CONSTANTS
    Arguments,    \* kinds of command lines
    Environments  \* environments: records of the settings, and whether the
                  \* variables can be read and which required ones are blank

VARIABLES
    stage,   \* args, load, aws, source, service, run, exited
    env,     \* the environment variables
    source,  \* the settings of the queue source
    indent,  \* the indent of the patcher
    why      \* what ended the process

startup  == <<stage, env, source, indent, why>>
procVars == <<vars, startup>>

SourceSettings == {"MaxMessages", "VisibilityTimeout", "WaitTime", "Concurrency", "PollInterval"}
Unset == [s \in SourceSettings |-> 0]

ProcInit ==
    /\ Init
    /\ stage = "args"
    /\ env \in Environments
    /\ source = Unset
    /\ indent = 0
    /\ why = "none"

Exit(reason) == stage' = "exited" /\ why' = reason /\ UNCHANGED <<env, source, indent>>
Continue(s)  == stage' = s /\ UNCHANGED <<env, source, indent, why>>

ParseArguments(args) ==
    /\ stage = "args"
    /\ \/ args = "none" /\ Continue("load")
       \/ args \in {"help", "version"} /\ Exit("answered")
       \/ args = "invalid" /\ Exit("arguments")
    /\ UNCHANGED vars

-----------------------------------------------------------------------------
(* Settings *)

(* The limits of the visibility timeout: config.Load's and NewSource's.    *)
LoadVisibilityMax   == 43200
SourceVisibilityMax == 43200

ImageManifestIndentMin     == 2
ImageManifestIndentMax     == 9
ImageManifestIndentDefault == 2

(* Mutant of validate: zero is let through.                                *)
ZeroAllowed(c) ==
    /\ c.blank = {}
    /\ c.Concurrency \in 0 .. 10 /\ c.PollInterval >= 0 /\ c.ShutdownTimeout > 0
    /\ c.MaxMessages \in 0 .. 10 /\ c.VisibilityTimeout \in 0 .. LoadVisibilityMax
    /\ c.WaitTime \in 0 .. 20
    /\ c.Indent \in ImageManifestIndentMin .. ImageManifestIndentMax

validate(c) ==
    /\ c.blank = {}
    /\ c.Concurrency \in 1 .. 10 /\ c.PollInterval >= 0 /\ c.ShutdownTimeout > 0
    /\ c.MaxMessages \in 1 .. 10 /\ c.VisibilityTimeout \in 1 .. LoadVisibilityMax
    /\ c.WaitTime \in 1 .. 20
    /\ c.Indent \in ImageManifestIndentMin .. ImageManifestIndentMax

Load ==
    /\ stage = "load"
    /\ \/ env.readable /\ validate(env) /\ Continue("aws")
       \/ ~(env.readable /\ validate(env)) /\ Exit("configuration")
    /\ UNCHANGED vars

LoadAWS(ok) ==
    /\ stage = "aws"
    /\ IF ok THEN Continue("source") ELSE Exit("aws")
    /\ UNCHANGED vars

defaults == [MaxMessages |-> 10, VisibilityTimeout |-> 20, WaitTime |-> 20, Concurrency |-> 10]
applyDefaults(c) ==
    [s \in SourceSettings |-> IF s \in DOMAIN defaults /\ c[s] <= 0 THEN defaults[s] ELSE c[s]]
SourceAccepts(c) ==
    LET d == applyDefaults(c)
    IN  /\ "QueueURL" \notin c.blank
        /\ \A s \in SourceSettings : c[s] >= 0
        /\ d.MaxMessages <= 10 /\ d.VisibilityTimeout <= SourceVisibilityMax
        /\ d.WaitTime <= 20 /\ d.Concurrency <= 10

NewSource ==
    /\ stage = "source"
    /\ \/ SourceAccepts(env) /\ source' = applyDefaults(env) /\ stage' = "service"
          /\ UNCHANGED <<env, indent, why>>
       \/ ~SourceAccepts(env) /\ Exit("source")
    /\ UNCHANGED vars

WithIndent(n) ==
    IF n \in ImageManifestIndentMin .. ImageManifestIndentMax THEN n ELSE ImageManifestIndentDefault

(* The other dependencies of the worker: the configuration file with its   *)
(* rules and templates, and the GitHub App with its private key.           *)
NewRepository(c, key) ==
    c.blank \cap {"ApplicationID", "InstallationID", "Username", "PrivateKeyPath"} = {} /\ key
BuildService(file, key) ==
    /\ stage = "service"
    /\ \/ file /\ NewRepository(env, key) /\ indent' = WithIndent(env.Indent) /\ stage' = "run"
          /\ UNCHANGED <<env, source, why>>
       \/ ~(file /\ NewRepository(env, key)) /\ Exit("service")
    /\ UNCHANGED vars

-----------------------------------------------------------------------------
Running == stage = "run" /\ Next /\ UNCHANGED startup

(* main: the exit code is 0 if Run returned nil.                           *)
Return ==
    /\ stage = "run" /\ pc = "returned"
    /\ Exit(IF result = "nil" THEN "clean" ELSE "failed")
    /\ UNCHANGED vars

(* Without a handler the signal ends the process.                          *)
Killed ==
    /\ stage \notin {"run", "exited"}
    /\ Exit("signal")
    /\ UNCHANGED vars

Startup ==
    \/ \E args \in Arguments : ParseArguments(args)
    \/ Load \/ NewSource
    \/ \E ok \in BOOLEAN : LoadAWS(ok)
    \/ \E file, key \in BOOLEAN : BuildService(file, key)

ProcNext == Startup \/ Running \/ Return \/ Killed

(* The goroutine of main and Run goes on, time passes, and a goroutine     *)
(* past a.Run reaches the group.  Nothing says that an application ever    *)
(* returns.                                                                *)
ProcSpec ==
    /\ ProcInit /\ [][ProcNext]_procVars
    /\ WF_procVars(Startup) /\ WF_procVars(Return)
    /\ WF_procVars(stage = "run" /\ Main /\ UNCHANGED startup)
    /\ WF_procVars(stage = "run" /\ DeadlinePasses /\ UNCHANGED startup)
    /\ \A a \in Apps : WF_procVars(stage = "run" /\ GroupLearns(a) /\ UNCHANGED startup)

-----------------------------------------------------------------------------
(* Properties *)

(* The worker runs with the settings of the environment or not at all:     *)
(* what Load lets through, no constructor refuses, and none replaces it by *)
(* a default of its own.                                                   *)
AsConfigured ==
    /\ why # "source"
    /\ stage = "run" => /\ source = [s \in SourceSettings |-> env[s]]
                        /\ indent = env.Indent

=============================================================================
