----------------------------- MODULE PreloadEnv -----------------------------
(***************************************************************************)
(* The environment a traced process hands on (clone_env and free_env in    *)
(* etc/preload.c).  A program that calls execve with an environment of its *)
(* own would leave the preload library behind, so the wrapper passes a     *)
(* copy of it with five variables replaced or added.  Memory may run out   *)
(* at any allocation.  The new array holds junk at first, and whatever is  *)
(* read from a junk element may look like anything.                        *)
(***************************************************************************)
EXTENDS Naturals, Sequences, FiniteSets

CONSTANTS
    Other,    \* variables that are none of the five
    MaxEnv,   \* bound on the size of the program's environment
    Tempfile  \* BUILDSH_TEMPFILE is set for the process itself

\* The five variables in the order clone_env deals with them
Five == <<"DYLD_FORCE_FLAT_NAMESPACE", "BUILDSH_TEMPFILE", "BUILDSH_PRELOAD",
          "LD_PRELOAD", "DYLD_INSERT_LIBRARIES">>
FiveSet == {Five[v] : v \in 1..5}

NoName == "no name"

ASSUME EnvAssumption ==
    MaxEnv \in Nat /\ Tempfile \in BOOLEAN /\ Other \cap (FiveSet \cup {NoName}) = {}

\* The program's environment: a variable is set to the empty string, to the
\* value the library needs, or to another one.
Entry == [var : Other \cup FiveSet, val : {"empty", "right", "wrong"}]

\* What an element of the new array is: a string of the program, of clone_env
\* (on the heap or static), a null pointer or junk.
Slot(var, mem) == [var |-> var, mem |-> mem]
Null == Slot(NoName, "null")
Junk == Slot(NoName, "junk")

None == MaxEnv + 10  \* (size_t)-1

VARIABLES
    env,     \* the environment the program gave to execve
    new_env, \* the array clone_env makes
    pos,     \* the positions of the five variables
    n,       \* number of variables, then the last index used
    k,       \* which of the five variables is next
    stage,
    made,    \* history: number of strings allocated
    freed,   \* history: what has been given back
    got      \* history: the variables execve has found

evars == <<env, new_env, pos, n, k, stage, made, freed, got>>

EnvInit ==
    /\ env \in UNION {[1..m -> Entry] : m \in 0..MaxEnv}
    /\ new_env = <<>> /\ n = Len(env) /\ k = 1 /\ stage = "scan"
    /\ pos = [v \in FiveSet |-> None]
    /\ made = 0 /\ freed = <<>> /\ got = {}

-----------------------------------------------------------------------------
\* Variant: the positions are found.
ScanEnvFinds ==
    [v \in FiveSet |-> IF \E s \in 1..Len(env) : env[s].var = v
                         THEN CHOOSE s \in 1..Len(env) : env[s].var = v ELSE None]

\* scan_env looks for a variable only if it has a position already, and takes
\* strings that end after the "=" only.
ScanEnv ==
    LET found(v) == {s \in 1..Len(env) : pos[v] # None /\ env[s].var = v /\ env[s].val = "empty"}
    IN  [v \in FiveSet |-> IF found(v) = {} THEN pos[v]
                           ELSE CHOOSE s \in found(v) : \A r \in found(v) : r <= s]

\* The array has n + 6 elements.  Everything is copied except what is to be
\* replaced; BUILDSH_PRELOAD is forgotten here.
Copied(p, s) ==
    IF s > n THEN Junk
    ELSE IF \E v \in FiveSet \ {"BUILDSH_PRELOAD"} : p[v] = s THEN Null
    ELSE Slot(env[s].var, "program")

Clone ==
    /\ stage = "scan"
    /\ pos' = ScanEnv
    /\ \/ new_env' = [s \in 1..(n + 6) |-> Copied(pos', s)] /\ stage' = "put"
       \/ UNCHANGED new_env /\ stage' = "returned"  \* no memory
    /\ UNCHANGED <<env, n, k, made, freed, got>>

\* Variant: a variable that is added takes the last element in use.
PlaceLast(v) == IF pos[v] # None THEN pos[v] ELSE n

\* ++n is the index after the next one: indices start with 0 in C, and n is
\* the number of elements before the first variable is added.
Place(v) == IF pos[v] # None THEN pos[v] ELSE n + 2

\* dffns_default, handle_lmtf, handle_lmpl and handle_ldp: the value the program
\* has set may do, some need no memory, and the others may get none.
Values(v) ==
    IF v # "DYLD_FORCE_FLAT_NAMESPACE" /\ pos[v] # None /\ env[pos[v]].val = "right"
      THEN {Slot(v, "program")}
    ELSE IF v = "DYLD_FORCE_FLAT_NAMESPACE" \/ (v = "BUILDSH_TEMPFILE" /\ ~Tempfile)
      THEN {Slot(v, "static")}
    ELSE {Slot(v, "heap"), Null}

\* The new value x.  If it is not on the heap, free_env shall not see it.
Put(v, x) ==
    /\ new_env' = [new_env EXCEPT ![Place(v)] = x]
    /\ pos' = [pos EXCEPT ![v] = IF x.mem \in {"heap", "null"} THEN Place(v) ELSE None]
    /\ n' = IF pos[v] # None THEN n ELSE n + 1
    /\ made' = IF x.mem = "heap" THEN made + 1 ELSE made
    /\ stage' = IF x = Null THEN "undo" ELSE stage
    /\ k' = k + 1

Replace ==
    /\ stage = "put" /\ k <= 5
    /\ \E x \in Values(Five[k]) : Put(Five[k], x)
    /\ UNCHANGED <<env, freed, got>>

\* The null pointer at the end goes to the index after the last one used (and,
\* if all five were added, past the end of the array).
Terminate ==
    /\ stage = "put" /\ k = 6
    /\ new_env' = [s \in 1..(n + 2) |-> IF s = n + 2 THEN Null ELSE new_env[s]]
    /\ stage' = "exec"
    /\ UNCHANGED <<env, pos, n, k, made, freed, got>>

\* The kernel reads up to the first null pointer; junk may look like one.
Ends(s) == new_env[s].mem \in {"null", "junk"}
ExecveReads(s) ==
    /\ Ends(s) /\ \A r \in 1..(s - 1) : new_env[r].mem # "null"
    /\ got' = {new_env[r].var : r \in 1..(s - 1)} \ {NoName}

Execve ==
    /\ stage = "exec"
    /\ \E s \in DOMAIN new_env : ExecveReads(s)
    /\ stage' = "executed"
    /\ UNCHANGED <<env, new_env, pos, n, k, made, freed>>

\* execve fails, or clone_env has run out of memory: free_env.
FreeEnv ==
    /\ stage \in {"exec", "undo"} /\ stage' = "returned"
    /\ LET at == {pos[v] : v \in FiveSet} \ {None}
       IN  freed' = [s \in at |-> new_env[s].mem]
    /\ UNCHANGED <<env, new_env, pos, n, k, made, got>>

EnvNext == Clone \/ Replace \/ Terminate \/ Execve \/ FreeEnv

EnvSpec == EnvInit /\ [][EnvNext]_evars

-----------------------------------------------------------------------------
EnvTypeOK ==
    /\ stage \in {"scan", "put", "undo", "exec", "executed", "returned"}
    /\ pos \in [FiveSet -> 1..(Len(env) + 7) \cup {None}]
    /\ n \in Len(env)..(Len(env) + 5) /\ k \in 1..6
    /\ got \subseteq Other \cup FiveSet

\* If execve returns, all strings clone_env has allocated are given back, and
\* nothing else: neither strings of the program nor static ones (clone_env's
\* error path, free_env).
MemoryReturned ==
    stage = "returned" =>
      /\ \A s \in DOMAIN freed : freed[s] \in {"heap", "null"}
      /\ Cardinality({s \in DOMAIN freed : freed[s] = "heap"}) = made

\* The program's own variables are handed on, whatever junk looks like.
KeepsVariables == stage = "executed" => \A s \in 1..Len(env) : env[s].var \in got
=============================================================================
