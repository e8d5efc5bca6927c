--------------------------- MODULE CommandParser ---------------------------
(***************************************************************************)
(* parse_command of src/core/command.rs: its loops over flags as the code  *)
(* has them, and the grammars they are to accept.                          *)
(*                                                                         *)
(* A line is a sequence of tokens.  Trimming, splitting at white space,    *)
(* joining the terms of a query, and the wording of the errors are left    *)
(* out; tokens is empty for a line of nothing but white space.             *)
(***************************************************************************)
EXTENDS Integers, Sequences, SequencesExt

CONSTANTS
  Tokens,      \* tokens tried
  MaxTokens,   \* bound: tokens of a line
  Number,      \* the number each token that is one stands for
  Lower,       \* the lower case of each token that has capitals
  ShellTokens, \* tokens with | ; & > or < in them
  UMax, IMax   \* largest u32 (or usize) and largest i32

Error == [kind |-> "error"]
None == [given |-> FALSE]
Some(value) == [given |-> TRUE, value |-> value]

Lowered(token) == IF token \in DOMAIN Lower THEN Lower[token] ELSE token

(* parse::<usize>, parse::<u32>; parse::<i32>. *)
IsUnsigned(token) == token \in DOMAIN Number /\ Number[token] \in 0 .. UMax
IsSigned(token) == token \in DOMAIN Number /\ Number[token] \in -IMax - 1 .. IMax

Sorts == {"cpu", "rss", "pid", "threads"}
SearchModes == {"hybrid", "fts", "vector", "semantic"}

-----------------------------------------------------------------------------
(* The loops over flags *)

RECURSIVE ProcessesFrom(_, _, _, _)

(* The tokens from the i-th on, after sort and limit have been read. *)
ProcessesFrom(rest, i, sort, limit) ==
  CASE i = Len(rest) + 1 -> [kind |-> "show_processes", sort |-> sort, limit |-> limit]
    [] i < Len(rest) /\ rest[i] = "--sort" ->
         IF Lowered(rest[i + 1]) \in Sorts
         THEN ProcessesFrom(rest, i + 2, Some(Lowered(rest[i + 1])), limit) ELSE Error
    [] i < Len(rest) /\ rest[i] = "--limit" ->
         IF IsUnsigned(rest[i + 1]) /\ Number[rest[i + 1]] # 0
         THEN ProcessesFrom(rest, i + 2, sort, Some(Number[rest[i + 1]])) ELSE Error
    [] OTHER -> Error

RECURSIVE SearchFrom(_, _, _, _)

(* A --mode at the end of the line is a term. *)
SearchFrom(rest, i, mode, terms) ==
  CASE i = Len(rest) + 1 -> [kind |-> "search", query |-> terms, mode |-> mode]
    [] i < Len(rest) /\ rest[i] = "--mode" ->
         IF Lowered(rest[i + 1]) \in SearchModes
         THEN SearchFrom(rest, i + 2, Some(Lowered(rest[i + 1])), terms) ELSE Error
    [] OTHER -> SearchFrom(rest, i + 1, mode, Append(terms, rest[i]))

-----------------------------------------------------------------------------
(* parse_command *)

(* show with one more word *)
Shown ==
  {[words |-> {"cpu"}, kind |-> "show_cpu"],
   [words |-> {"memory", "mem"}, kind |-> "show_memory"],
   [words |-> {"disk", "disks"}, kind |-> "show_disk"],
   [words |-> {"network", "net"}, kind |-> "show_network"],
   [words |-> {"alerts"}, kind |-> "show_alerts"],
   [words |-> {"config"}, kind |-> "show_config"],
   [words |-> {"connectors"}, kind |-> "show_connectors"],
   [words |-> {"storage"}, kind |-> "show_storage"],
   [words |-> {"observability", "observe"}, kind |-> "show_observability"]}

ParseAudit(count) ==
  IF IsUnsigned(count) /\ Number[count] # 0
  THEN [kind |-> "show_audit", last |-> IF Number[count] < 200 THEN Number[count] ELSE 200]
  ELSE Error

IsPid(token) == IsUnsigned(token) /\ Number[token] # 0

ParseKill(pid) ==
  IF IsPid(pid) THEN [kind |-> "kill_process", pid |-> Number[pid]] ELSE Error

ParseRenice(nice, pid) ==
  IF IsSigned(nice) /\ IsPid(pid) /\ Number[nice] \in -20 .. 19
  THEN [kind |-> "renice_process", pid |-> Number[pid], nice |-> Number[nice]] ELSE Error

ParseShow(tokens) ==
  LET word == tokens[2] IN
  CASE word \in {"processes", "procs"} -> ProcessesFrom(tokens, 3, None, None)
    [] word = "audit" /\ Len(tokens) = 2 -> [kind |-> "show_audit", last |-> 10]
    [] word = "audit" /\ Len(tokens) = 4 /\ tokens[3] = "--last" -> ParseAudit(tokens[4])
    [] Len(tokens) = 2 /\ (\E s \in Shown : word \in s.words) ->
         [kind |-> (CHOOSE s \in Shown : word \in s.words).kind]
    [] OTHER -> Error

(* long: is the trimmed line longer than 256 bytes? *)
ParseCommand(tokens, long) ==
  IF tokens = <<>> \/ long \/ Range(tokens) \cap ShellTokens # {} THEN Error ELSE
  CASE Head(tokens) = "show" /\ Len(tokens) >= 2 -> ParseShow(tokens)
    [] Head(tokens) = "search" -> SearchFrom(tokens, 2, None, <<>>)
    [] Head(tokens) = "help" /\ Len(tokens) = 1 -> [kind |-> "help", topic |-> None]
    [] Head(tokens) = "help" /\ Len(tokens) = 2 -> [kind |-> "help", topic |-> Some(tokens[2])]
    [] Head(tokens) = "kill" /\ Len(tokens) = 2 -> ParseKill(tokens[2])
    [] Head(tokens) = "renice" /\ Len(tokens) = 3 -> ParseRenice(tokens[2], tokens[3])
    [] OTHER -> Error

-----------------------------------------------------------------------------
(* The grammars, and what is assumed of every line of up to MaxTokens      *)
(* tokens; TLC evaluates the assumptions.                                  *)

Lines == UNION {[1 .. n -> Tokens] : n \in 0 .. MaxTokens}

(* The value of the last flag of this name that is followed by one. *)
LastValue(rest, positions, flag, Value(_)) ==
  LET at == {i \in positions : i < Len(rest) /\ rest[i] = flag} IN
  IF at = {} THEN None ELSE Some(Value(rest[Max(at) + 1]))

Odd(rest) == {i \in DOMAIN rest : i % 2 = 1}

(* show processes takes pairs of a flag and a legal value, in any order and *)
(* number, of which the last of each flag counts.                          *)
ProcessesGrammar(rest) ==
  IF /\ Len(rest) % 2 = 0
     /\ \A i \in Odd(rest) :
          \/ rest[i] = "--sort" /\ Lowered(rest[i + 1]) \in Sorts
          \/ rest[i] = "--limit" /\ IsUnsigned(rest[i + 1]) /\ Number[rest[i + 1]] > 0
  THEN [kind |-> "show_processes",
        sort |-> LastValue(rest, Odd(rest), "--sort", Lowered),
        limit |-> LastValue(rest, Odd(rest), "--limit", LAMBDA t : Number[t])]
  ELSE Error

(* search takes any tokens; each --mode but one at the end must be followed *)
(* by a mode, the last one counts, and the others are the query.           *)
SearchGrammar(rest) ==
  LET flags == {i \in DOMAIN rest : i < Len(rest) /\ rest[i] = "--mode"}
      isTerm(i) == i \notin flags /\ i - 1 \notin flags
      terms == SelectSeq([i \in DOMAIN rest |-> i], isTerm)
  IN IF \A i \in flags : Lowered(rest[i + 1]) \in SearchModes
     THEN [kind |-> "search", query |-> [k \in DOMAIN terms |-> rest[terms[k]]],
           mode |-> LastValue(rest, DOMAIN rest, "--mode", Lowered)]
     ELSE Error

(* The loop over the flags of show processes accepts its grammar, and       *)
(* nothing else (parse_command, command.rs:62).                            *)
ASSUME ProcessesParsed ==
  \A rest \in Lines : ProcessesFrom(rest, 1, None, None) = ProcessesGrammar(rest)

(* The loop over the tokens of search accepts its grammar, and nothing else *)
(* (parse_command, command.rs:114).                                        *)
ASSUME SearchParsed ==
  \A rest \in Lines : SearchFrom(rest, 1, None, <<>>) = SearchGrammar(rest)

(* Whatever is typed, a command that is accepted has its numbers where the  *)
(* rest of the program expects them: the gate and the helper never see pid  *)
(* 0 nor a niceness out of range, and show audit never reads more than 200  *)
(* events.                                                                 *)
ASSUME NumbersInRange ==
  \A tokens \in Lines :
    LET command == ParseCommand(tokens, FALSE) IN
    /\ command.kind \in {"kill_process", "renice_process"} => command.pid \in 1 .. UMax
    /\ command.kind = "renice_process" => command.nice \in -20 .. 19
    /\ command.kind = "show_audit" => command.last \in 1 .. 200
    /\ command.kind = "show_processes" /\ command.limit.given => command.limit.value > 0

=============================================================================
