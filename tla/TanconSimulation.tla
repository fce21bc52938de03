-------------------------- MODULE TanconSimulation --------------------------
(***************************************************************************)
(* The program tancon-simulation (src/cmd/tancon-simulation/main.go): the  *)
(* flags, the config file, the two profiles and the ways the process ends. *)
(*                                                                         *)
(* A flag is whether it was given.  A file is what it holds.  os.Exit and  *)
(* log.Fatal end the process at once; a panic and the return of main run   *)
(* the deferred pprof.StopCPUProfile first.                                *)
(***************************************************************************)
EXTENDS Naturals

VARIABLES
    flags,        \* which of -init, -config, -cpuprofile, -memprofile were given
    pc,           \* where main is
    file,         \* the config file: "absent", the "user"'s, or the "default"
    cfg,          \* the config simulation.Run was given, "none" before
    cpuProfile,   \* "off", "on" after StartCPUProfile, "stopped"
    memProfile,   \* the heap profile was written
    pprofServer,  \* the goroutine of http.ListenAndServe
    exit          \* how the process ended, "none" while it runs

vars == <<flags, pc, file, cfg, cpuProfile, memProfile, pprofServer, exit>>

Flags == [initialize : BOOLEAN, configFile : BOOLEAN,
          cpuprofile : BOOLEAN, memprofile : BOOLEAN]

Init ==
    /\ flags \in Flags
    /\ file \in {"absent", "user"}
    /\ pc = "main" /\ cfg = "none" /\ exit = "none"
    /\ cpuProfile = "off" /\ memProfile = FALSE /\ pprofServer = "none"

Goto(from, to) == pc = from /\ pc' = to

\* os.Exit(1) and log.Fatal: the process ends, no deferred call runs.
Exit(from) ==
    /\ Goto(from, "exited")
    /\ exit' = "1"

\* defer pprof.StopCPUProfile(), registered when the profile was started.
Deferred == IF cpuProfile = "on" THEN "stopped" ELSE cpuProfile

\* flag.Parse, and the goroutine of the pprof server is started.
Main ==
    /\ Goto("main", "configFile")
    /\ pprofServer' = "go"
    /\ UNCHANGED <<flags, file, cfg, cpuProfile, memProfile, exit>>

\* http.ListenAndServe serves for as long as the process runs, or fails
\* (the port is taken) and its error is logged.
ListenAndServe ==
    /\ pprofServer = "go" /\ exit = "none"
    /\ pprofServer' \in {"serving", "failed"}
    /\ UNCHANGED <<flags, pc, file, cfg, cpuProfile, memProfile, exit>>

ConfigFile ==
    /\ \/ flags.configFile /\ Goto("configFile", "initialize") /\ UNCHANGED exit
       \/ ~flags.configFile /\ Exit("configFile")
    /\ UNCHANGED <<flags, file, cfg, cpuProfile, memProfile, pprofServer>>

\* -init: config.GenerateDefault writes the file, or fails.
Initialize ==
    /\ \/ /\ ~flags.initialize
          /\ Goto("initialize", "cpuprofile") /\ UNCHANGED <<file, exit>>
       \/ /\ flags.initialize /\ file' = "default"
          /\ Goto("initialize", "cpuprofile") /\ UNCHANGED exit
       \/ flags.initialize /\ Exit("initialize") /\ UNCHANGED file
    /\ UNCHANGED <<flags, cfg, cpuProfile, memProfile, pprofServer>>

\* -cpuprofile: os.Create and pprof.StartCPUProfile, either may fail.
StartCPUProfile ==
    /\ \/ /\ ~flags.cpuprofile
          /\ Goto("cpuprofile", "read") /\ UNCHANGED <<cpuProfile, exit>>
       \/ /\ flags.cpuprofile /\ cpuProfile' = "on"
          /\ Goto("cpuprofile", "read") /\ UNCHANGED exit
       \/ flags.cpuprofile /\ Exit("cpuprofile") /\ UNCHANGED cpuProfile
    /\ UNCHANGED <<flags, file, cfg, memProfile, pprofServer>>

\* Mutant: the error of config.Read is dropped.
ReadAndRun_ErrorIgnored ==
    /\ cfg' = file
    /\ Goto("read", "memprofile")
    /\ UNCHANGED <<flags, file, cpuProfile, memProfile, pprofServer, exit>>

\* config.Read, which panics on an error, and simulation.Run with what was
\* read.
ReadAndRun ==
    /\ \/ /\ file # "absent" /\ cfg' = file
          /\ Goto("read", "memprofile") /\ UNCHANGED <<cpuProfile, exit>>
       \/ /\ Goto("read", "exited") /\ exit' = "panic"
          /\ cpuProfile' = Deferred /\ UNCHANGED cfg
    /\ UNCHANGED <<flags, file, memProfile, pprofServer>>

\* -memprofile: os.Create and pprof.WriteHeapProfile, either may fail.
WriteHeapProfile ==
    /\ \/ /\ ~flags.memprofile
          /\ Goto("memprofile", "return") /\ UNCHANGED <<memProfile, exit>>
       \/ /\ flags.memprofile /\ memProfile' = TRUE
          /\ Goto("memprofile", "return") /\ UNCHANGED exit
       \/ flags.memprofile /\ Exit("memprofile") /\ UNCHANGED memProfile
    /\ UNCHANGED <<flags, file, cfg, cpuProfile, pprofServer>>

Return ==
    /\ Goto("return", "exited")
    /\ exit' = "0" /\ cpuProfile' = Deferred
    /\ UNCHANGED <<flags, file, cfg, memProfile, pprofServer>>

Next ==
    \/ Main
    \/ ListenAndServe
    \/ ConfigFile
    \/ Initialize
    \/ StartCPUProfile
    \/ ReadAndRun
    \/ WriteHeapProfile
    \/ Return

Spec == Init /\ [][Next]_vars

-----------------------------------------------------------------------------

TypeOK ==
    /\ flags \in Flags
    /\ pc \in {"main", "configFile", "initialize", "cpuprofile", "read",
               "memprofile", "return", "exited"}
    /\ file \in {"absent", "user", "default"}
    /\ cfg \in {"none", "user", "default"}
    /\ cpuProfile \in {"off", "on", "stopped"}
    /\ memProfile \in BOOLEAN
    /\ pprofServer \in {"none", "go", "serving", "failed"}
    /\ exit \in {"none", "0", "1", "panic"}
    /\ (exit = "none") = (pc # "exited")

\* "1. Setup the configuration under ./test.toml ... 3. Run simulation:
\* -config test.toml -init" (src/README.md 49-60): the configuration the
\* user has set up under the path given to -config stays in the file, and is
\* what config.Read reads and simulation.Run runs.  With -init
\* config.GenerateDefault writes the default over it and main goes on (the
\* os.Exit(0) after it is commented out).
RunsOnConfigSetUp ==
    file = "user" => [](cfg \in {"none", "user"})

=============================================================================
