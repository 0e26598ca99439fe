------------------------------ MODULE MCNative ------------------------------
(* The native code, side by side: the system menu (a session of the          *)
(* dashboard with its helper, the two helpers, the JSON between them), and   *)
(* of go routines the shared callbacks, the import of a Perl structure, and  *)
(* native processes with their arguments and environment.  A behaviour is    *)
(* one of one of these, as `part` says; the variables of the others rest.    *)
EXTENDS MenuSession, LinuxMenu, WindowsMenu, MenuJson, SharedCalls, SharedImport,
        GoProcess, GoSpawn

MenuOf(roots, kids, clickable) ==
  [roots |-> roots, clickable |-> clickable,
   kids |-> [n \in Names |-> IF n \in DOMAIN kids THEN kids[n] ELSE {}]]

\* A menu with two branches, one of them deep, and an icon that is clicked
\* itself; and a smaller one with some of the names at other places.
TwoMenus ==
  {MenuOf(<<"r1", "r2">>,
          [r1 |-> {"a", "b"}, a |-> {"c"}, c |-> {"d"}, b |-> {"e"}],
          {"d", "e", "r2"}),
   MenuOf(<<"r2">>, [r2 |-> {"e"}], {"e"})}

MCSeeds ==
  {<<"object", "str", "colon", "array", "lit", "comma", "str", "arrayEnd", "comma", "str", "colon", "object", "objectEnd", "objectEnd">>,
   <<"array", "array", "arrayEnd", "comma", "object", "str", "colon", "str", "objectEnd", "arrayEnd">>}

\* The code units and bytes at which the encodings change.
MCUnits == {1, 127, 128, 2047, 2048, 55295, 55296, 56319, 56320, 57343, 57344, 65535}
MCBytes == {1, 9, 31, 34, 92, 97, 110, 117, 195}

\* Objects 1 to 3, of which 1 is shared.
MCShapes ==
  {<<"array", "hash", "scalar">>, <<"hash", "array", "code">>,
   <<"array", "glob", "unsupported">>}

\* Keys that are prefixes of each other, and one that the parent assigns twice.
MCEnvirons ==
  {<<>>, <<<<"A", "B", "=", "1">>, <<"A", "=", "2">>>>,
   <<<<"A", "=">>, <<"A", "B", "=", "A">>, <<"A", "=", "1">>>>}
MCOverrides ==
  UNION {[keys -> {<<>>, <<"2">>}] : keys \in SUBSET {<<"A">>, <<"A", "B">>, <<"B">>}}

VARIABLE part

menuVars == <<vars, linuxVars, windowsVars, jsonVars>>
goVars == <<callVars, importVars, spawnVars, processVars>>

InitEach ==
  /\ part \in {"session", "linux", "windows", "json",
              "calls", "import", "spawn", "process"}
  /\ Init /\ LinuxInit /\ WindowsInit /\ JsonInit
  /\ CallInit /\ ImportInit /\ SpawnInit /\ ProcessInit
  /\ part # "json" => tokens = <<>>
  /\ part # "import" => kind = <<"array", "hash", "scalar">>
  /\ part # "spawn" => what = "argv"

NextEach ==
  \/ /\ part = "session" /\ Next
     /\ UNCHANGED <<part, linuxVars, windowsVars, jsonVars, goVars>>
  \/ /\ part = "linux" /\ LinuxNext
     /\ UNCHANGED <<part, vars, windowsVars, jsonVars, goVars>>
  \/ /\ part = "windows" /\ WindowsNext
     /\ UNCHANGED <<part, vars, linuxVars, jsonVars, goVars>>
  \/ /\ part = "json" /\ JsonNext
     /\ UNCHANGED <<part, vars, linuxVars, windowsVars, goVars>>
  \/ /\ part = "calls" /\ CallNext
     /\ UNCHANGED <<part, menuVars, importVars, spawnVars, processVars>>
  \/ /\ part = "import" /\ ImportNext
     /\ UNCHANGED <<part, menuVars, callVars, spawnVars, processVars>>
  \/ /\ part = "spawn" /\ SpawnNext
     /\ UNCHANGED <<part, menuVars, callVars, importVars, processVars>>
  \/ /\ part = "process" /\ ProcessNext
     /\ UNCHANGED <<part, menuVars, callVars, importVars, spawnVars>>

\* Fairness is the session's; a helper waits for its user and its input.
LiveEach ==
  /\ InitEach
  /\ [][NextEach]_<<part, menuVars, goVars>>
  /\ Fairness
=============================================================================
