--------------------------- MODULE OperationFile ----------------------------
(***************************************************************************)
(* The file of operations and commands of a Modbus plugin, as              *)
(* ModbusOperationProcessor reads it (modbus/operation_processor.cc).      *)
(* Every command is also an operation, which reads back the registers the  *)
(* command writes; labels give the registers of an answer their names.     *)
(*                                                                         *)
(* All maps are filled with insert(): what is there first stays.  An entry *)
(* without a name ends its part of the file; a parameter without a name or *)
(* an address loses all parameters of its command.                         *)
(***************************************************************************)
EXTENDS Integers, Sequences, FiniteSets, Functions, FiniteSetsExt, SequencesExt, Arranged

CONSTANT OpFiles   \* files: sequences of operations and of commands

NoAddress == -1

(* An address, where there is one, is a number. *)
OpFilesAssumption ==
  \A f \in OpFiles :
    /\ f.operations \in Seq({f.operations[i] : i \in DOMAIN f.operations})
    /\ f.commands \in Seq({f.commands[i] : i \in DOMAIN f.commands})
    /\ \A c \in {f.commands[i] : i \in DOMAIN f.commands} :
         /\ c.params \in Seq({c.params[i] : i \in DOMAIN c.params})
         /\ \A i \in DOMAIN c.params : c.params[i].address \in Nat \cup {NoAddress}
ASSUME OpFilesAssumption

VARIABLES
  ofile,     \* the file that is read
  opart,     \* "operations", "commands" or "read"
  oat,       \* the entry that is read next
  oops,      \* _operations: what each name reads
  ocmds,     \* _commands
  oparams,   \* _ordered_parameters_map: address to parameter, for each name
  olabels,   \* _position_map
  oalarm     \* ALARM_CODE_BAD_CONFIGURATION

opVars == <<ofile, opart, oat, oops, ocmds, oparams, olabels, oalarm>>

NoFields == [x \in {} |-> x]
Missing == ""

(* insert() of a map. *)
Put(map, key, value) ==
  IF key \in DOMAIN map THEN map
  ELSE [k \in DOMAIN map \cup {key} |-> IF k = key THEN value ELSE map[k]]

OpInit(part) ==
  /\ ofile \in OpFiles
  /\ opart = part /\ oat = 1
  /\ oops = NoFields /\ ocmds = {} /\ oparams = NoFields /\ olabels = NoFields
  /\ oalarm = "no"

(* read(): a label has a factor, or is a mere name. *)
ReadOperation ==
  LET o == ofile.operations[oat] IN
  /\ opart = "operations" /\ oat <= Len(ofile.operations)
  /\ \/ /\ o.name = Missing
        /\ oalarm' = "yes" /\ opart' = "commands" /\ oat' = 1
        /\ UNCHANGED <<oops, olabels>>
     \/ /\ o.name # Missing
        /\ oops' = Put(oops, o.name, [from |-> "operation", entry |-> oat, base |-> o.address,
                                      registers |-> o.registers, positions |-> o.registers])
        /\ olabels' = IF o.labels = <<>> THEN olabels ELSE Put(olabels, o.name, o.labels)
        /\ oat' = oat + 1
        /\ UNCHANGED <<opart, oalarm>>
  /\ UNCHANGED <<ofile, ocmds, oparams>>

(* read_operations() goes on with the commands. *)
ReadCommands ==
  /\ opart = "operations" /\ oat > Len(ofile.operations)
  /\ opart' = "commands" /\ oat' = 1
  /\ UNCHANGED <<ofile, oops, ocmds, oparams, olabels, oalarm>>

(* The parameters of a command: of two with one address the first. *)
Complete(params) ==
  \A i \in DOMAIN params : params[i].name # Missing /\ params[i].address # NoAddress
ByAddress(params) ==
  [a \in {params[i].address : i \in DOMAIN params} |->
     params[Min({i \in DOMAIN params : params[i].address = a})]]
TakenParams(c) ==
  IF Complete(c.params) /\ c.params # <<>> THEN Put(oparams, c.name, ByAddress(c.params))
  ELSE oparams

(* get_base_address(). *)
BaseAddress(map) == Min(DOMAIN map)

(* A mutation: in the order of their names. *)
MappedByName(map) ==
  SetToSortSeq({map[a] : a \in DOMAIN map},
               LAMBDA p, q : p.name = "a" /\ q.name # "a")

(* get_mapped_parameters(): in the order of their addresses. *)
MappedParameters(map) == AtPlaces(map, DOMAIN map)

(* add_command_as_operation(): as many registers as there are parameters;  *)
(* the first parameter gives the number of positions.                      *)
AsOperation(entry, map) ==
  LET first == map[BaseAddress(map)]
  IN  [from |-> "command", entry |-> entry, base |-> BaseAddress(map),
       registers |-> Cardinality(DOMAIN map),
       positions |-> IF first.type \in {"string", "numeric"} THEN first.positions
                     ELSE Cardinality(DOMAIN map)]

(* read_commands(). *)
ReadCommand ==
  LET c == ofile.commands[oat]
      params == TakenParams(c) IN
  /\ opart = "commands" /\ oat <= Len(ofile.commands)
  /\ \/ /\ c.name = Missing
        /\ oalarm' = "yes" /\ opart' = "read"
        /\ UNCHANGED <<oat, oops, ocmds, oparams, olabels>>
     \/ /\ c.name # Missing
        /\ ocmds' = ocmds \cup {c.name}
        /\ oparams' = params
        /\ IF c.name \in DOMAIN params
           THEN /\ oops' = Put(oops, c.name, AsOperation(oat, params[c.name]))
                /\ olabels' = Put(olabels, c.name,
                     [i \in 1..Cardinality(DOMAIN params[c.name]) |->
                        MappedParameters(params[c.name])[i].name])
           ELSE UNCHANGED <<oops, olabels>>
        /\ oat' = oat + 1
        /\ UNCHANGED <<opart, oalarm>>
  /\ UNCHANGED ofile

EndOfFile ==
  /\ opart = "commands" /\ oat > Len(ofile.commands)
  /\ opart' = "read"
  /\ UNCHANGED <<ofile, oat, oops, ocmds, oparams, olabels, oalarm>>

OpNext == ReadOperation \/ ReadCommands \/ ReadCommand \/ EndOfFile

----------------------------------------------------------------------------
Contiguous(map) == DOMAIN map = BaseAddress(map)..(BaseAddress(map) + Cardinality(DOMAIN map) - 1)
NamedTwice(n) == \E i \in DOMAIN ofile.operations : ofile.operations[i].name = n

(* Whatever the order of the entries and the failures of others before, a  *)
(* name reads back what its command writes: every register it reads has    *)
(* the label of the parameter at that address, as long as the addresses    *)
(* follow one another and no operation of the file has the same name (its  *)
(* registers would then stay, with the labels of the command if it has     *)
(* none of its own).                                                       *)
LabelsFitRegisters ==
  \A n \in ocmds \cap DOMAIN oops :
    oops[n].from = "command" /\ ~NamedTwice(n) =>
      /\ Len(olabels[n]) = oops[n].registers
      /\ Contiguous(oparams[n]) =>
           \A i \in 1..oops[n].registers :
             olabels[n][i] = oparams[n][oops[n].base + i - 1].name
=============================================================================
