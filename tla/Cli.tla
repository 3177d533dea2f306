-------------------------------- MODULE Cli --------------------------------
(***************************************************************************)
(* The command line module (run.hpp, get_path.hpp, execute.hpp): one       *)
(* process per command opens the heap, checks the command, commits at most *)
(* one transaction, prints and exits.  A process may die between its       *)
(* steps; the commit itself is atomic (HeapState, Recovery).               *)
(***************************************************************************)
EXTENDS Integers, Sequences, FiniteSets

CONSTANTS RootNames,     \* names of roots: texts cut at their dots
          Invocations,   \* commands with their arguments
          MaxCommands    \* bound: processes started

VARIABLES heap,       \* per root: its value, or Missing
          proc,       \* the process under way
          possible,   \* history: values a root may have for its users
          started
clvars == <<heap, proc, possible, started>>

(* Values: null, scalars, and objects with a function from keys; a key,    *)
(* like a root's name, is a text cut at its dots.                          *)
Missing == [kind |-> "missing"]
Null == [kind |-> "null"]
Malformed == [kind |-> "malformed"]     \* a payload that is not JSON
Idle == [at |-> "idle"]

Printed(out) == [exit |-> 0, out |-> out, writes |-> << >>]
Write(name, v) == [exit |-> 0, out |-> v, writes |-> <<[name |-> name, val |-> v]>>]
UsageError == [exit |-> 2, out |-> Missing, writes |-> << >>]
Error == [exit |-> 1, out |-> Missing, writes |-> << >>]

-----------------------------------------------------------------------------
(* get_path(): the first component names the root, the others are keys.    *)

(* Seeded fault for Found: a deleted root counts as one.                   *)
Stored(v) == v # Missing

Found(v) == v.kind \notin {"missing", "null"}

(* Seeded fault for Walk: the last component is not followed.              *)
RECURSIVE WalkShort(_, _)
WalkShort(v, path) ==
    IF Len(path) <= 1 THEN Printed(v)
    ELSE IF path[1] = "" THEN UsageError
    ELSE IF v.kind # "object" THEN Error
    ELSE IF <<path[1]>> \notin DOMAIN v.of THEN Error
    ELSE WalkShort(v.of[<<path[1]>>], Tail(path))

RECURSIVE Walk(_, _)
Walk(v, path) ==
    IF path = << >> THEN Printed(v)
    ELSE IF path[1] = "" THEN UsageError
    ELSE IF v.kind # "object" THEN Error
    ELSE IF <<path[1]>> \notin DOMAIN v.of THEN Error
    ELSE Walk(v.of[<<path[1]>>], Tail(path))

(* A root that does not exist is materialized as null, and not committed.  *)
At(h, name) == IF name \in DOMAIN h THEN h[name] ELSE Missing

GetPath(h, path) ==
    LET root == At(h, <<path[1]>>)
    IN  IF path[1] = "" THEN UsageError
        ELSE IF ~ Found(root) THEN Error
        ELSE Walk(root, Tail(path))

-----------------------------------------------------------------------------
(* run().  args is the number of arguments after the command.              *)

Listing(h) == {[name |-> n, val |-> h[n]] : n \in {m \in DOMAIN h : h[m] # Missing}}

(* sound: what check_integrity() reports.  verify prints the report and,   *)
(* if it is not ok, exits like an error.                                   *)
RunGlobal(h, inv, sound) ==
    IF inv.args # 0 THEN UsageError
    ELSE IF inv.command = "inspect"
    THEN Printed([kind |-> "listing", of |-> Listing(h)])
    ELSE IF inv.command = "verify" /\ ~ sound THEN Error
    ELSE Printed(Missing)

Accepts(command, v) == IF command = "create" THEN ~ Found(v) ELSE Found(v)

RunOnRoot(h, inv) ==
    LET v == At(h, inv.name)
    IN  IF inv.name = <<"">> THEN UsageError
        ELSE IF inv.command = "delete"
        THEN IF inv.args # 1 THEN UsageError
             ELSE IF Accepts("delete", v) THEN Write(inv.name, Null) ELSE Error
        ELSE IF inv.command \notin {"create", "update"} \/ inv.args # 2
        THEN UsageError
        ELSE IF ~ Accepts(inv.command, v) THEN Error
        ELSE IF inv.payload = Malformed THEN UsageError
        ELSE Write(inv.name, inv.payload)

(* Without a command, or a directory after -C, the usage is printed.       *)
Run(h, inv, sound) ==
    CASE inv.command = "" -> UsageError
      [] inv.command = "help" -> Printed(Missing)
      [] inv.command \in {"checkpoint", "verify", "inspect"} ->
            RunGlobal(h, inv, sound)
      [] inv.command \notin {"", "help", "checkpoint", "verify", "inspect"} ->
            IF inv.args = 0 THEN UsageError
            ELSE IF inv.command = "get"
            THEN IF inv.args = 1 THEN GetPath(h, inv.name) ELSE UsageError
            ELSE RunOnRoot(h, inv)

-----------------------------------------------------------------------------
CliInit == /\ heap = [n \in RootNames |-> Missing]
           /\ possible = [n \in RootNames |-> {Missing}]
           /\ proc = Idle /\ started = 0

(* open(), the checks, and the work on the transaction.                    *)
Start(inv, sound) ==
    /\ proc = Idle /\ started < MaxCommands
    /\ started' = started + 1
    /\ proc' = [at |-> "ready", inv |-> inv, result |-> Run(heap, inv, sound)]
    /\ UNCHANGED <<heap, possible>>

Writes == proc.result.writes

Commit ==
    /\ proc.at = "ready"
    /\ proc' = [proc EXCEPT !.at = "committed"]
    /\ heap' = IF Writes = << >> THEN heap
               ELSE [heap EXCEPT ![Writes[1].name] = Writes[1].val]
    /\ UNCHANGED <<possible, started>>

(* execute(): the output and the exit code reach the user.                 *)
Exit ==
    /\ proc.at = "committed"
    /\ proc' = Idle
    /\ possible' = IF Writes = << >> THEN possible
                   ELSE [possible EXCEPT ![Writes[1].name] = {Writes[1].val}]
    /\ UNCHANGED <<heap, started>>

(* The process dies: its user does not know whether it committed.          *)
Die ==
    /\ proc.at \in {"ready", "committed"}
    /\ proc' = Idle
    /\ possible' = IF Writes = << >> THEN possible
                   ELSE [possible EXCEPT ![Writes[1].name] = @ \cup {Writes[1].val}]
    /\ UNCHANGED <<heap, started>>

CliNext == \/ \E inv \in Invocations, sound \in BOOLEAN : Start(inv, sound)
           \/ Commit \/ Exit \/ Die
CliSpec == CliInit /\ [][CliNext]_clvars

-----------------------------------------------------------------------------
Get(path) == GetPath(heap, path)
Live(v) == v \notin {Missing, Null}     \* a value, for the users

(* What get says of a root is what the last acknowledged command left, or  *)
(* what a command that died since may have left; a deleted root, and one   *)
(* set to null, is not found.                                              *)
GetTellsLastWrite ==
    proc = Idle => \A n \in RootNames :
        Len(n) = 1 => IF Get(n).exit = 0
                      THEN Get(n).out \in {v \in possible[n] : Live(v)}
                      ELSE \E v \in possible[n] : ~ Live(v)

(* A create that succeeds replaces no value that its users were told of.   *)
CreateReplacesNothing ==
    proc.at = "ready" /\ proc.inv.command = "create" /\ proc.result.exit = 0
        => \E v \in possible[proc.inv.name] : ~ Live(v)

(* Every value that inspect prints under a root name and keys a path can   *)
(* name, not empty and without a dot, is printed by get of that path,      *)
(* whatever other keys and dotted roots there are beside them.  (inspect   *)
(* also lists values that no path names: under an empty or dotted key, and *)
(* roots with a dot in their name.)                                        *)
Nameable(text) == Len(text) = 1 /\ text # <<"">>
RECURSIVE Reachable(_, _)
Reachable(path, v) ==
    /\ Get(path).exit = 0 /\ Get(path).out = v
    /\ v.kind = "object" =>
          \A k \in {k \in DOMAIN v.of : Nameable(k)} : Reachable(path \o k, v.of[k])
InspectedIsReachable ==
    \A e \in Listing(heap) :
        Nameable(e.name) /\ Live(e.val) => Reachable(e.name, e.val)

=============================================================================
