------------------------------ MODULE PriceList ------------------------------
(***************************************************************************)
(* The pricing registry (pricing/registry.py) and the commands pricing     *)
(* show, validate and set (cli/commands.py): several processes over one    *)
(* file.  set loads the whole list, changes one price and writes the list  *)
(* back; the write truncates the file first, an empty file loads as a list *)
(* with no entries, and a process may stop in between.  The user edits the *)
(* file by hand while no command runs.                                     *)
(***************************************************************************)
EXTENDS Integers, Sequences, FiniteSets, SequencesExt

CONSTANTS
  Procs,       \* the processes
  Keys,        \* the entries there may be, pairs of a model and a provider
  Measured,    \* key -> the price the user has measured for it
  Prices,      \* the prices a command may be given; some are negative
  Original,    \* the list in the file to begin with
  MaxCommands  \* bound: commands and edits

SUCCESS == 0
INVALID_INPUT == 2
INTERNAL_ERROR == 5

VARIABLES
  file,     \* what the file holds
  proc,     \* process -> its command
  told,     \* the prices that commands have set and that must be there
  commands  \* commands and edits so far

vars == <<file, proc, told, commands>>

Entry(key, price, measured) ==
  [key |-> key, price |-> price, measured |-> measured]
Holds(entries) == [kind |-> "list", entries |-> entries]
Missing == [kind |-> "missing", entries |-> << >>]
Mixed == [kind |-> "mixed", entries |-> << >>]  \* the end of another text

-----------------------------------------------------------------------------
(* The place of an entry, 0 when there is none: the first that matches.    *)
(* Mutant: the provider is not compared.                                   *)
IndexOfModel(entries, key) ==
  SelectInSeq(entries, LAMBDA e : e.key[1] = key[1])
Index(entries, key) == SelectInSeq(entries, LAMBDA e : e.key = key)

(* What is set again keeps its place, and loses its mark of a measurement. *)
SetPrice(entries, key, price) ==
  LET i == Index(entries, key)
  IN  IF i = 0 THEN Append(entries, Entry(key, price, FALSE))
      ELSE [entries EXCEPT ![i] = Entry(@.key, price, FALSE)]

Duplicated(entries) ==
  {k \in Keys : Cardinality({i \in DOMAIN entries : entries[i].key = k}) > 1}
Problems(entries) ==
  \/ Duplicated(entries) # {}
  \/ \E i \in DOMAIN entries : entries[i].price < 0

-----------------------------------------------------------------------------
NoCommand == [verb |-> "none", key |-> CHOOSE k \in Keys : TRUE, price |-> 0]
AtRest == [doing |-> "nothing", command |-> NoCommand, entries |-> << >>,
           told |-> {}, code |-> SUCCESS, warned |-> FALSE]

Commands ==
  {[NoCommand EXCEPT !.verb = v] : v \in {"show", "validate"}}
  \cup {[verb |-> "set", key |-> k, price |-> n] : k \in Keys, n \in Prices}

Init ==
  /\ file = Holds(Original)
  /\ proc = [p \in Procs |-> AtRest]
  /\ told = {}
  /\ commands = 0

Resting(p) == proc[p].doing \in {"nothing", "ended", "stopped"}

Start(p, c) ==
  /\ Resting(p) /\ commands < MaxCommands
  /\ commands' = commands + 1
  /\ proc' = [proc EXCEPT ![p] =
       [AtRest EXCEPT !.command = c,
          !.doing = IF c.verb = "set" THEN "looking" ELSE "loading"]]
  /\ UNCHANGED <<file, told>>

(* set begins a new list where there is no file.                           *)
Look(p) ==
  /\ proc[p].doing = "looking"
  /\ LET c == proc[p].command
     IN  proc' = IF file = Missing
                 THEN [proc EXCEPT ![p].doing = "writable", ![p].told = told,
                         ![p].entries = SetPrice(<< >>, c.key, c.price)]
                 ELSE [proc EXCEPT ![p].doing = "loading"]
  /\ UNCHANGED <<file, told, commands>>

(* A list that is not there is a ConfigError, one that does not parse is   *)
(* an internal error; validate ends by the problems, and set goes on.      *)
Load(p) ==
  /\ proc[p].doing = "loading"
  /\ LET c == proc[p].command
         loaded == file.kind = "list"
         end(code, warned) ==
           [proc EXCEPT ![p].doing = "ended", ![p].code = code,
                        ![p].warned = warned]
     IN  proc' =
           IF ~loaded
           THEN end(IF file = Missing THEN INVALID_INPUT ELSE INTERNAL_ERROR,
                    FALSE)
           ELSE IF c.verb = "show" THEN end(SUCCESS, TRUE)
           ELSE IF c.verb = "validate"
           THEN end(IF Problems(file.entries) THEN INVALID_INPUT ELSE SUCCESS,
                    FALSE)
           ELSE [proc EXCEPT ![p].doing = "writable", ![p].told = told,
                   ![p].entries = SetPrice(file.entries, c.key, c.price)]
  /\ UNCHANGED <<file, told, commands>>

(* The file is opened, which empties it, ...                               *)
Truncate(p) ==
  /\ proc[p].doing = "writable"
  /\ file' = Holds(<< >>)
  /\ told' = {}
  /\ proc' = [proc EXCEPT ![p].doing = "writing"]
  /\ UNCHANGED commands

(* ... and written.  Over the longer text of another process the end of    *)
(* that text remains.  What the command promises from then on is its price *)
(* and those that had been set when it read the list.                      *)
Fill(p) ==
  /\ proc[p].doing = "writing"
  /\ LET c == proc[p].command
         others == {t \in proc[p].told : t.key # c.key}
     IN  \/ /\ file' = Holds(proc[p].entries)
            /\ told' = others \cup {[key |-> c.key, price |-> c.price]}
         \/ /\ file # Holds(<< >>)
            /\ file' = Mixed
            /\ told' = {}
  /\ proc' = [proc EXCEPT ![p].doing = "ended", ![p].warned = TRUE]
  /\ UNCHANGED commands

Stop(p) ==
  /\ ~Resting(p)
  /\ proc' = [proc EXCEPT ![p].doing = "stopped"]
  /\ UNCHANGED <<file, told, commands>>

(* The user notes a measured price, removes an entry, or the file.         *)
Edit ==
  /\ \A p \in Procs : Resting(p)
  /\ commands < MaxCommands /\ commands' = commands + 1
  /\ \/ \E k \in Keys :
          /\ file.kind = "list" /\ Index(file.entries, k) = 0
          /\ file' = Holds(Append(file.entries, Entry(k, Measured[k], TRUE)))
          /\ UNCHANGED told
     \/ \E i \in DOMAIN file.entries :
          /\ file' = Holds(RemoveAt(file.entries, i))
          /\ told' = {t \in told : t.key # file.entries[i].key}
     \/ /\ file # Missing
        /\ file' = Missing
        /\ told' = {}
  /\ UNCHANGED proc

Next ==
  \/ \E p \in Procs, c \in Commands : Start(p, c)
  \/ \E p \in Procs : Look(p) \/ Load(p) \/ Truncate(p) \/ Fill(p) \/ Stop(p)
  \/ Edit

Spec == Init /\ [][Next]_vars

-----------------------------------------------------------------------------
(* A price that was set is found by get, unless it was set again, edited   *)
(* away, or written over by a command that had read the list before.  A    *)
(* model that the user had listed once is not listed twice by commands, in *)
(* whatever order two of them read and write, and a price that is marked   *)
(* as measured is the measured one.                                        *)
SetIsKept ==
  /\ \A t \in told :
       LET i == Index(file.entries, t.key)
       IN  i # 0 /\ file.entries[i].price = t.price
  /\ Duplicated(file.entries) \subseteq Duplicated(Original)
  /\ \A i \in DOMAIN file.entries :
       file.entries[i].measured =>
         file.entries[i].price = Measured[file.entries[i].key]
=============================================================================
