----------------------------- MODULE NikiLauncher ------------------------------
(***************************************************************************)
(* Launcher::launchProgram (launcher.cpp) on the VM: the init chunks of a  *)
(* linked program in order, then its entry function; the first failure     *)
(* ends the launch with its diagnostic.                                    *)
(***************************************************************************)
EXTENDS NikiVM

VARIABLES
  init_chunks,   \* the chunks of the LinkedProgram
  entry,         \* the key of its entry
  phase,         \* "link" before a program is there, "init", "entry", "done"
  next_init,     \* the init chunk to run next
  outcome        \* "none", then "OK" or the code of the diagnostic

launchVars == <<init_chunks, phase, next_init, outcome>>

-----------------------------------------------------------------------------
LaunchInit ==
  /\ init_chunks = <<>>
  /\ phase = "link"
  /\ next_init = 1
  /\ outcome = "none"

Begin(chunks) ==
  /\ phase = "link"
  /\ phase' = "init"
  /\ init_chunks' = chunks
  /\ UNCHANGED <<next_init, outcome>>

End(o) ==
  /\ phase' = "done"
  /\ outcome' = o
  /\ UNCHANGED <<init_chunks, next_init>>

\* Has the last execution, if any, returned a value?
Succeeded == status \in {"idle", "ok"}

\* Mutant: the last init chunk is forgotten.
RunInitChunkButLast ==
  /\ phase = "init" /\ Succeeded /\ next_init =< Len(init_chunks)
  /\ \/ next_init < Len(init_chunks) /\ executeChunk(init_chunks[next_init])
     \/ next_init = Len(init_chunks) /\ UNCHANGED vars
  /\ next_init' = next_init + 1
  /\ UNCHANGED <<init_chunks, phase, outcome>>

RunInitChunk ==
  /\ phase = "init" /\ Succeeded /\ next_init =< Len(init_chunks)
  /\ executeChunk(init_chunks[next_init])
  /\ next_init' = next_init + 1
  /\ UNCHANGED <<init_chunks, phase, outcome>>

InitFailed ==
  /\ phase = "init" /\ status = "error"
  /\ End("InitRuntimeError")
  /\ UNCHANGED vars

CallEntry ==
  /\ phase = "init" /\ Succeeded /\ next_init > Len(init_chunks)
  /\ entry \in DOMAIN globals
  /\ Execute(globals[entry])
  /\ phase' = "entry"
  /\ UNCHANGED <<init_chunks, next_init, outcome>>

EntryMissing ==
  /\ phase = "init" /\ Succeeded /\ next_init > Len(init_chunks)
  /\ entry \notin DOMAIN globals
  /\ End("EntryLookupFailed")
  /\ UNCHANGED vars

\* Mutant: the launcher waits for a value.
EntryReturnedValue ==
  /\ phase = "entry" /\ status = "ok"
  /\ End("OK")
  /\ UNCHANGED vars

EntryReturned ==
  /\ phase = "entry" /\ status \in {"ok", "error"}
  /\ End(IF status = "ok" THEN "OK" ELSE "EntryRuntimeError")
  /\ UNCHANGED vars

LaunchStep ==
  \/ RunInitChunk \/ InitFailed
  \/ CallEntry \/ EntryMissing \/ EntryReturned
  \/ Step /\ UNCHANGED launchVars
=============================================================================
