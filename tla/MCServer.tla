------------------------------ MODULE MCServer ------------------------------
(* Two clients of a server for one or two connections, started with every  *)
(* mix of settings.                                                        *)
EXTENDS Server

CONSTANTS k1, k2

MCConfigs ==
  [eviction : {"", "LRU", "fifo"}, embed : {"Mock", "OpenAI", "local"},
   completion : {"mock", "openai", "local"}, apiKey : {"", "sk"}, password : {"", "pw"},
   credentials : SUBSET {"ws"}, mcpPort : {0, 6381}, maxConnections : {-1, 0, 1}]

Frame(units, means, ends) == [units |-> units, means |-> means, ends |-> ends]

(* Bursts of pipelined commands: inline and array, payloads that look like *)
(* frames, a null bulk string, lines without a command, an error and QUIT. *)
Ping == <<Word(1), NL>>
Echo == <<Star(1), NL, Dollar(2), NL, Star(1), NL, NL>>
PING == <<<<Word(1)>>>>
ECHO == <<<<Star(1), NL>>>>

MCFrames ==
  {Frame(Ping \o Echo, <<PING, ECHO>>, FALSE),
   Frame(<<Star(1), NL, Dollar(-1), NL, Star(0), NL>>, <<<<<<>>>>>>, FALSE),
   Frame(<<Star(1), NL, NL>>, <<>>, TRUE),
   Frame(<<Star(NotANumber), NL>>, <<>>, TRUE),
   Frame(<<QUIT, NL>>, <<<<<<QUIT>>>>>>, TRUE)}
=============================================================================
