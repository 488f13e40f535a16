-------------------------- MODULE ToolServersProofs --------------------------
(***************************************************************************)
(* Theorems about ToolServers for all clients, server maps, names, option  *)
(* lists and calls of GetMCPStatus.                                        *)
(***************************************************************************)
EXTENDS ToolServers, FiniteSetTheorems, WellFoundedInduction, TLAPS

-----------------------------------------------------------------------------
(***************************************************************************)
(* Names and servers.                                                      *)
(***************************************************************************)

\* A public name is a name, and the one of a pair.
LEMMA PublicNameType ==
  ASSUME NEW s \in ServerNames, NEW t \in ToolNames
  PROVE  /\ PublicName(s, t) \in PublicNames /\ PublicName(s, t) \in Names
         /\ NameOf(<<s, t>>) = PublicName(s, t)
<1>1. NameOf(<<s, t>>) = PublicName(s, t)
  BY DEF NameOf
<1>2. PublicName(s, t) \in PublicNames
  BY <1>1 DEF PublicNames
<1> QED
  BY <1>1, <1>2 DEF Names

\* The tools of a handler make a server.
LEMMA ToolsOfType ==
  ASSUME NEW ts, NEW who \in Handlers, NEW kind \in {"sdk", "external", "broken"}
  PROVE  [kind |-> kind, tools |-> ToolsOf(ts, who)] \in Server
BY DEF Server, ToolsOf

-----------------------------------------------------------------------------
(***************************************************************************)
(* Options.  What a client's options are after the first k of its list.    *)
(***************************************************************************)
HeapOK(h) ==
  /\ DOMAIN h = Maps \union Clients
  /\ \A m \in DOMAIN h : IsPartial(h[m], ServerNames, Server)

Built(b) == b = [o |-> b.o, h |-> b.h] /\ b.o \in Settings /\ HeapOK(b.h)

(* The map that a client's in-process tools go to.                         *)
LEMMA MapOfType ==
  ASSUME NEW c \in Clients, NEW b, Built(b)
  PROVE  MapOf(c, b) \in Maps \union Clients /\ MapOf(c, b) # None
<1>1. b.o.servers \in {None} \union Clients \union Maps /\ c # None
  BY ToolServersAssumption DEF Built, Settings
<1>2. None \notin Maps \union Clients
  BY ToolServersAssumption
<1> QED
  BY <1>1, <1>2 DEF MapOf

\* What is served is a map of servers.
LEMMA ServedType ==
  ASSUME NEW c \in Clients, NEW b, Built(b)
  PROVE  IsPartial(Served(c, b), ServerNames, Server)
<1>1. CASE b.o.servers = None
  BY <1>1 DEF Served, IsPartial
<1>2. CASE b.o.servers # None
  BY <1>2, MapOfType DEF Served, MapOf, Built, HeapOK
<1> QED
  BY <1>1, <1>2

(* Registering a server as "sdk".                                          *)
Registers(c, b, srv, r) ==
  LET m == MapOf(c, b)
      old == Served(c, b)
  IN  /\ Built(r)
      /\ r.o = [b.o EXCEPT !.servers = m]
      /\ \A n \in (Maps \union Clients) \ {m} : r.h[n] = b.h[n]
      /\ DOMAIN r.h[m] = (DOMAIN old) \union {Sdk}
      /\ r.h[m][Sdk] = srv
      /\ \A s \in (DOMAIN old) \ {Sdk} : r.h[m][s] = old[s]

\* A server put at "sdk" is registered there, the others kept.
LEMMA PutSdkRegisters ==
  ASSUME NEW c \in Clients, NEW b, Built(b), NEW srv \in Server
  PROVE  Registers(c, b, srv, PutSdk(c, b, srv))
<1> DEFINE old == Served(c, b)
           m == MapOf(c, b)
           new == [s \in (DOMAIN old) \union {Sdk} |-> IF s = Sdk THEN srv ELSE old[s]]
           r == PutSdk(c, b, srv)
<1>1. r = [o |-> [b.o EXCEPT !.servers = m], h |-> [b.h EXCEPT ![m] = new]]
  BY DEF PutSdk
<1>2. m \in Maps \union Clients /\ m # None
  BY MapOfType
<1>3. IsPartial(old, ServerNames, Server)
  BY ServedType
<1>4. IsPartial(new, ServerNames, Server)
  BY <1>3, ToolServersAssumption DEF IsPartial
<1>5. /\ DOMAIN new = (DOMAIN old) \union {Sdk} /\ new[Sdk] = srv
      /\ \A s \in (DOMAIN old) \ {Sdk} : new[s] = old[s]
  OBVIOUS
<1> HIDE DEF r, m, new, old
<1>6. r.o = [b.o EXCEPT !.servers = m] /\ r.h = [b.h EXCEPT ![m] = new] /\ r = [o |-> r.o, h |-> r.h]
  BY <1>1
<1>7. b.o \in Settings /\ HeapOK(b.h)
  BY DEF Built
<1>8. r.o \in Settings
  BY <1>2, <1>6, <1>7 DEF Settings
<1>9. r.h[m] = new /\ \A n \in (Maps \union Clients) \ {m} : r.h[n] = b.h[n]
  BY <1>2, <1>6, <1>7 DEF HeapOK
<1>10. HeapOK(r.h)
  BY <1>2, <1>4, <1>6, <1>7 DEF HeapOK
<1> QED
  BY <1>5, <1>6, <1>8, <1>9, <1>10 DEF Built, Registers, r, m, old

(* What each option sets.                                                  *)
Sets(c, b, op, r) ==
  /\ r = [o |-> r.o, h |-> r.h]
  /\ op.is # "WithSDKTools" => r.h = b.h
  /\ op.is = "WithMCPServers" => r.o = [b.o EXCEPT !.servers = op.map]
  /\ op.is = "WithMCPConfig" => r.o = [b.o EXCEPT !.config = op.config]
  /\ op.is = "WithTools" => r.o = [b.o EXCEPT !.tools = op.names]
  /\ op.is = "WithAllowedTools" => r.o = [b.o EXCEPT !.allowed = op.names]
  /\ op.is = "WithDisallowedTools" => r.o = [b.o EXCEPT !.disallowed = op.names]
  /\ op.is = "WithCanUseTool" => r.o = [b.o EXCEPT !.canUseTool = TRUE]
  /\ op.is = "WithOnUserInput" => r.o = [b.o EXCEPT !.onUserInput = TRUE]
  /\ op.is = "WithPermissionPromptToolName" => r.o = [b.o EXCEPT !.prompt = TRUE]
  /\ op.is = "WithSDKTools" => r = WithSDKTools(c, b, op.tools)

\* An option sets what it is for and leaves the rest.
LEMMA OptionSets ==
  ASSUME NEW c \in Clients, NEW b, Built(b), NEW op, IsOption(op)
  PROVE  Sets(c, b, op, Option(c, b, op))
<1> DEFINE r == Option(c, b, op)
<1>1. b = [o |-> b.o, h |-> b.h]
  BY DEF Built
<1>2. CASE op.is = "WithSDKTools"
  <2>1. r = WithSDKTools(c, b, op.tools)
    BY <1>2 DEF Option
  <2>2. r = [o |-> r.o, h |-> r.h]
    <3>1. CASE op.tools = {}
      BY <1>1, <2>1, <3>1 DEF WithSDKTools
    <3>2. CASE op.tools # {}
      BY <2>1, <3>2 DEF WithSDKTools, PutSdk
    <3> QED
      BY <3>1, <3>2
  <2> QED
    BY <1>2, <2>1, <2>2 DEF Sets
<1>3. CASE op.is = "WithMCPServers"
  <2>1. r = [b EXCEPT !.o.servers = op.map]
    BY <1>3 DEF Option
  <2> QED
    BY <1>1, <1>3, <2>1 DEF Sets
<1>4. CASE op.is = "WithMCPConfig"
  <2>1. r = [b EXCEPT !.o.config = op.config]
    BY <1>4 DEF Option
  <2> QED
    BY <1>1, <1>4, <2>1 DEF Sets
<1>5. CASE op.is = "WithTools"
  <2>1. r = [b EXCEPT !.o.tools = op.names]
    BY <1>5 DEF Option
  <2> QED
    BY <1>1, <1>5, <2>1 DEF Sets
<1>6. CASE op.is = "WithAllowedTools"
  <2>1. r = [b EXCEPT !.o.allowed = op.names]
    BY <1>6 DEF Option
  <2> QED
    BY <1>1, <1>6, <2>1 DEF Sets
<1>7. CASE op.is = "WithDisallowedTools"
  <2>1. r = [b EXCEPT !.o.disallowed = op.names]
    BY <1>7 DEF Option
  <2> QED
    BY <1>1, <1>7, <2>1 DEF Sets
<1>8. CASE op.is = "WithCanUseTool"
  <2>1. r = [b EXCEPT !.o.canUseTool = TRUE]
    BY <1>8 DEF Option
  <2> QED
    BY <1>1, <1>8, <2>1 DEF Sets
<1>9. CASE op.is = "WithOnUserInput"
  <2>1. r = [b EXCEPT !.o.onUserInput = TRUE]
    BY <1>9 DEF Option
  <2> QED
    BY <1>1, <1>9, <2>1 DEF Sets
<1>10. CASE op.is = "WithPermissionPromptToolName"
  <2>1. r = [b EXCEPT !.o.prompt = TRUE]
    BY <1>10 DEF Option
  <2> QED
    BY <1>1, <1>10, <2>1 DEF Sets
<1> QED
  BY <1>2, <1>3, <1>4, <1>5, <1>6, <1>7, <1>8, <1>9, <1>10 DEF IsOption

(* What WithSDKTools does, unless it is given no tool.                     *)
LEMMA SDKToolsParts ==
  ASSUME NEW c \in Clients, NEW b, Built(b), NEW ts \in SUBSET ToolNames, ts # {}
  PROVE  LET r == WithSDKTools(c, b, ts)
             p == PutSdk(c, b, createSDKToolServer(c, ts))
         IN  r.o = [p.o EXCEPT !.allowed = AllowsToo(b.o, ts)] /\ r.h = p.h /\ r = [o |-> r.o, h |-> r.h]
<1> DEFINE p == PutSdk(c, b, createSDKToolServer(c, ts))
<1>1. p = [o |-> p.o, h |-> p.h]
  BY DEF PutSdk
<1>2. WithSDKTools(c, b, ts) = [p EXCEPT !.o.allowed = AllowsToo(b.o, ts)]
  BY DEF WithSDKTools
<1> HIDE DEF p
<1> QED
  BY <1>1, <1>2 DEF p

\* The SDK's tools have names.
LEMMA AllowedNames ==
  ASSUME NEW ts \in SUBSET ToolNames
  PROVE  {PublicName(Sdk, t) : t \in ts} \subseteq Names
BY PublicNameType, ToolServersAssumption

(* An option leaves options and maps that are well formed.                 *)
LEMMA OptionType ==
  ASSUME NEW c \in Clients, NEW b, Built(b), NEW op, IsOption(op)
  PROVE  Built(Option(c, b, op))
<1> DEFINE r == Option(c, b, op)
<1>1. Sets(c, b, op, r)
  BY OptionSets
<1> HIDE DEF r
<1>2. CASE op.is = "WithSDKTools"
  <2>1. r = WithSDKTools(c, b, op.tools) /\ op.tools \in SUBSET ToolNames
    BY <1>1, <1>2 DEF IsOption, Sets
  <2>2. CASE op.tools = {}
    BY <2>1, <2>2 DEF WithSDKTools, r
  <2>3. CASE op.tools # {}
    <3> DEFINE p == PutSdk(c, b, createSDKToolServer(c, op.tools))
    <3>1. createSDKToolServer(c, op.tools) \in Server
      BY ToolsOfType DEF createSDKToolServer, Handlers
    <3>2. Built(p)
      BY <3>1, PutSdkRegisters DEF Registers
    <3>3. r.o = [p.o EXCEPT !.allowed = AllowsToo(b.o, op.tools)] /\ r.h = p.h /\ r = [o |-> r.o, h |-> r.h]
      BY <2>1, <2>3, SDKToolsParts
    <3>4. AllowsToo(b.o, op.tools) \in SUBSET Names
      BY <2>1, AllowedNames DEF AllowsToo, Built, Settings
    <3> HIDE DEF p
    <3> QED
      BY <3>2, <3>3, <3>4 DEF Built, Settings, r
  <2> QED
    BY <2>2, <2>3
<1>3. CASE op.is # "WithSDKTools"
  <2>1. r = [o |-> r.o, h |-> r.h] /\ r.h = b.h /\ b.o \in Settings /\ HeapOK(b.h)
    BY <1>1, <1>3 DEF Built, Sets
  <2>2. r.o \in Settings
    <3>1. CASE op.is = "WithMCPServers"
      BY <2>1, <3>1, <1>1 DEF Settings, IsOption, Sets
    <3>2. CASE op.is = "WithMCPConfig"
      BY <2>1, <3>2, <1>1 DEF Settings, IsOption, Sets
    <3>3. CASE op.is = "WithTools"
      BY <2>1, <3>3, <1>1 DEF Settings, IsOption, Sets
    <3>4. CASE op.is = "WithAllowedTools"
      BY <2>1, <3>4, <1>1 DEF Settings, IsOption, Sets
    <3>5. CASE op.is = "WithDisallowedTools"
      BY <2>1, <3>5, <1>1 DEF Settings, IsOption, Sets
    <3>6. CASE op.is = "WithCanUseTool"
      <4>1. r.o = [b.o EXCEPT !.canUseTool = TRUE]
        BY <3>6, <1>1 DEF Sets
      <4> QED
        BY <2>1, <4>1 DEF Settings
    <3>7. CASE op.is = "WithOnUserInput"
      <4>1. r.o = [b.o EXCEPT !.onUserInput = TRUE]
        BY <3>7, <1>1 DEF Sets
      <4> QED
        BY <2>1, <4>1 DEF Settings
    <3>8. CASE op.is = "WithPermissionPromptToolName"
      <4>1. r.o = [b.o EXCEPT !.prompt = TRUE]
        BY <3>8, <1>1 DEF Sets
      <4> QED
        BY <2>1, <4>1 DEF Settings
    <3> QED
      BY <1>3, <3>1, <3>2, <3>3, <3>4, <3>5, <3>6, <3>7, <3>8 DEF IsOption
  <2> QED
    BY <2>1, <2>2 DEF Built, r
<1> QED
  BY <1>2, <1>3

-----------------------------------------------------------------------------
(***************************************************************************)
(* Maps.  The options of a client touch no other client's own map, and in  *)
(* the callers' maps nothing but "sdk".                                    *)
(***************************************************************************)
Grown(f, g) ==
  /\ DOMAIN f \subseteq DOMAIN g
  /\ \A s \in (DOMAIN g) \ {Sdk} : s \in DOMAIN f /\ g[s] = f[s]

OwnedBy(c, f) ==
  \A s \in DOMAIN f, t \in ToolNames :
    /\ f[s].tools[t] \in {c, "remote", None}
    /\ s # Sdk => f[s].tools[t] \in {"remote", None}

Touched(c, h) ==
  /\ \A m \in Maps : Grown(heap[m], h[m])
  /\ \A d \in Clients \ {c} : h[d] = heap[d]
  /\ OwnedBy(c, h[c])

\* Putting a server in touches only the client's own map.
LEMMA PutSdkTouches ==
  ASSUME NEW c \in Clients, NEW b, Built(b), Touched(c, b.h), b.o.servers \in {None, c} \union Maps,
         NEW srv \in Server,
         b.o.servers \in {None, c} => \A t \in ToolNames : srv.tools[t] \in {c, "remote", None}
  PROVE  Touched(c, PutSdk(c, b, srv).h)
<1> DEFINE m == MapOf(c, b)
           r == PutSdk(c, b, srv)
           old == Served(c, b)
<1>1. /\ \A n \in (Maps \union Clients) \ {m} : r.h[n] = b.h[n]
      /\ DOMAIN r.h[m] = (DOMAIN old) \union {Sdk} /\ r.h[m][Sdk] = srv
      /\ \A s \in (DOMAIN old) \ {Sdk} : r.h[m][s] = old[s]
  <2>1. Registers(c, b, srv, r)
    BY PutSdkRegisters
  <2> HIDE DEF r
  <2> QED
    BY <2>1 DEF Registers
<1>2. c \notin Maps /\ None \notin Maps \union Clients
  BY ToolServersAssumption
<1> HIDE DEF r
<1>3. CASE b.o.servers \in Maps
  <2>1. m = b.o.servers /\ old = b.h[m] /\ m \in Maps
    BY <1>2, <1>3 DEF MapOf, Served
  <2> HIDE DEF m, old
  <2>2. Grown(heap[m], r.h[m])
    BY <1>1, <2>1 DEF Touched, Grown
  <2>3. \A n \in (Maps \union Clients) \ {m} : r.h[n] = b.h[n]
    BY <1>1
  <2>4. \A n \in Maps : Grown(heap[n], r.h[n])
    BY <2>2, <2>3 DEF Touched
  <2>5. \A d \in Clients : r.h[d] = b.h[d]
    BY <2>1, <2>3, ToolServersAssumption
  <2> QED
    BY <2>4, <2>5 DEF Touched, r
<1>4. CASE b.o.servers \in {None, c}
  <2>1. m = c
    BY <1>4 DEF MapOf
  <2>2. \A s \in DOMAIN old, t \in ToolNames :
          /\ old[s].tools[t] \in {c, "remote", None}
          /\ s # Sdk => old[s].tools[t] \in {"remote", None}
    <3>1. CASE b.o.servers = None
      BY <3>1 DEF Served
    <3>2. CASE b.o.servers = c /\ c # None
      <4>1. old = b.h[c]
        BY <3>2 DEF Served
      <4> QED
        BY <4>1 DEF Touched, OwnedBy
    <3> QED
      BY <1>4, <3>1, <3>2
  <2> HIDE DEF m, old
  <2>3. \A t \in ToolNames : srv.tools[t] \in {c, "remote", None}
    BY <1>4
  <2>4. OwnedBy(c, r.h[c])
    BY <1>1, <2>1, <2>2, <2>3 DEF OwnedBy
  <2>5. \A n \in (Maps \union Clients) \ {c} : r.h[n] = b.h[n]
    BY <1>1, <2>1
  <2>6. \A n \in Maps : r.h[n] = b.h[n]
    BY <1>2, <2>5
  <2> QED
    BY <2>4, <2>5, <2>6 DEF Touched, r
<1> QED
  BY <1>3, <1>4

-----------------------------------------------------------------------------
(***************************************************************************)
(* The first k options of a list.  The last option of a kind stands; the   *)
(* tools of a WithSDKTools stand until an option replaces them.            *)
(***************************************************************************)
Later(list, i, k, kinds) == \A j \in i+1..k : list[j].is \notin kinds

LastIs(list, k, is, names) ==
  \/ (\A i \in 1..k : list[i].is # is) /\ names = {}
  \/ \E i \in 1..k : list[i].is = is /\ Later(list, i, k, {is}) /\ names = list[i].names

Replacing == {"WithMCPServers", "WithSDKTools", "WithAllowedTools"}

Offers(c, b, t) ==
  LET m == b.o.servers
  IN  /\ m \in Maps \union {c}
      /\ Sdk \in DOMAIN b.h[m] /\ b.h[m][Sdk].kind = "sdk" /\ b.h[m][Sdk].tools[t] = c
      /\ PublicName(Sdk, t) \in b.o.allowed

Stands(c, list, k, b) ==
  \A i \in 1..k : list[i].is = "WithSDKTools" /\ Later(list, i, k, Replacing) =>
    \A t \in list[i].tools : Offers(c, b, t)

Prefix(c, list, k, b) ==
  /\ Built(b)
  /\ Touched(c, b.h)
  /\ b.o.servers \in {None, c} \union Maps
  /\ (\A i \in 1..k : list[i].is # "WithMCPServers") => b.o.servers \notin Maps
  /\ LastIs(list, k, "WithDisallowedTools", b.o.disallowed)
  /\ LastIs(list, k, "WithTools", b.o.tools)
  /\ (\A i \in 1..k : list[i].is # "WithMCPConfig") => b.o.config = None
  /\ (\E i \in 1..k : list[i].is = "WithOnUserInput") => b.o.onUserInput
  /\ Stands(c, list, k, b)

\* Counting to a number's successor adds it.
LEMMA UpTo ==
  ASSUME NEW k \in Nat, NEW n, n = k + 1
  PROVE  /\ n \in 1..n /\ n \notin 1..k
         /\ \A i \in 1..n : i \in 1..k \/ i = n
         /\ \A i \in 1..k : i \in 1..n /\ n \in i+1..n /\ (\A j \in i+1..n : j \in i+1..k \/ j = n)
         /\ \A i \in 1..k : \A j \in i+1..k : j \in i+1..n
         /\ \A j \in n+1..n : FALSE
OBVIOUS

\* The last option of its kind, one option on.
LEMMA LastStep ==
  ASSUME NEW k \in Nat, NEW n, n = k + 1, NEW list, NEW is, NEW old, NEW new, LastIs(list, k, is, old),
         list[n].is = is => new = list[n].names,
         list[n].is # is => new = old
  PROVE  LastIs(list, n, is, new)
<1>1. CASE list[n].is = is
  <2>1. n \in 1..n /\ Later(list, n, n, {is})
    BY UpTo DEF Later
  <2> QED
    BY <1>1, <2>1 DEF LastIs
<1>2. CASE list[n].is # is
  <2>1. CASE (\A i \in 1..k : list[i].is # is) /\ old = {}
    <3>1. \A i \in 1..n : list[i].is # is
      BY <1>2, <2>1, UpTo
    <3> QED
      BY <1>2, <2>1, <3>1 DEF LastIs
  <2>2. ASSUME NEW i \in 1..k, list[i].is = is, Later(list, i, k, {is}), old = list[i].names
        PROVE  LastIs(list, n, is, new)
    <3>1. i \in 1..n /\ \A j \in i+1..n : j \in i+1..k \/ j = n
      BY UpTo
    <3>2. Later(list, i, n, {is})
      BY <1>2, <2>2, <3>1 DEF Later
    <3> QED
      BY <1>2, <2>2, <3>1, <3>2 DEF LastIs
  <2> QED
    BY <2>1, <2>2 DEF LastIs
<1> QED
  BY <1>1, <1>2

(* One more option that is not a WithSDKTools with tools.                  *)
LEMMA PlainStep ==
  ASSUME NEW c \in Clients, NEW list, NEW k \in Nat, NEW n, n = k + 1, NEW b, Prefix(c, list, k, b),
         IsOption(list[n]), NEW r, Sets(c, b, list[n], r), Built(r), r.h = b.h,
         list[n].is = "WithSDKTools" => r = b /\ list[n].tools = {}
  PROVE  Prefix(c, list, n, r)
<1> DEFINE op == list[n]
<1>1. /\ Built(b) /\ Touched(c, b.h) /\ b.o.servers \in {None, c} \union Maps
      /\ LastIs(list, k, "WithDisallowedTools", b.o.disallowed)
      /\ LastIs(list, k, "WithTools", b.o.tools)
      /\ Stands(c, list, k, b)
  BY DEF Prefix
<1>2. b.o \in Settings /\ r.o \in Settings
  BY <1>1 DEF Built
<1>3. /\ op.is = "WithMCPServers" \/ r.o.servers = b.o.servers
      /\ op.is = "WithMCPConfig" \/ r.o.config = b.o.config
      /\ op.is = "WithTools" \/ r.o.tools = b.o.tools
      /\ op.is = "WithAllowedTools" \/ r.o.allowed = b.o.allowed
      /\ op.is = "WithDisallowedTools" \/ r.o.disallowed = b.o.disallowed
      /\ op.is = "WithOnUserInput" \/ r.o.onUserInput = b.o.onUserInput
  BY <1>2 DEF Sets, IsOption, Settings
<1>4. /\ op.is = "WithMCPServers" => r.o.servers = op.map /\ op.map \in Maps
      /\ op.is = "WithTools" => r.o.tools = op.names
      /\ op.is = "WithDisallowedTools" => r.o.disallowed = op.names
      /\ op.is = "WithOnUserInput" => r.o.onUserInput
  BY <1>2 DEF Sets, IsOption, Settings
<1>5. LastIs(list, n, "WithDisallowedTools", r.o.disallowed)
  BY <1>1, <1>3, <1>4, LastStep
<1>6. LastIs(list, n, "WithTools", r.o.tools)
  BY <1>1, <1>3, <1>4, LastStep
<1>7. n \in 1..n /\ \A i \in 1..n : i \in 1..k \/ i = n
  BY UpTo
<1>8. \A i \in 1..k : i \in 1..n
  BY UpTo
<1>9. r.o.servers \in {None, c} \union Maps
  BY <1>1, <1>3, <1>4
<1>10. (\A i \in 1..n : list[i].is # "WithMCPServers") => r.o.servers \notin Maps
  BY <1>3, <1>7, <1>8 DEF Prefix
<1>11. (\A i \in 1..n : list[i].is # "WithMCPConfig") => r.o.config = None
  BY <1>3, <1>7, <1>8 DEF Prefix
<1>12. (\E i \in 1..n : list[i].is = "WithOnUserInput") => r.o.onUserInput
  BY <1>3, <1>4, <1>7, <1>8 DEF Prefix
<1>13. Stands(c, list, n, r)
  <2> SUFFICES ASSUME NEW i \in 1..n, list[i].is = "WithSDKTools", Later(list, i, n, Replacing),
                      NEW t \in list[i].tools
               PROVE  Offers(c, r, t)
    BY DEF Stands
  <2>1. i # n
    <3> SUFFICES ASSUME i = n PROVE FALSE
      OBVIOUS
    <3> QED
      BY DEF Sets
  <2>2. i \in 1..k
    BY <1>7, <2>1
  <2>3. n \in i+1..n /\ \A j \in i+1..k : j \in i+1..n
    BY <2>2, UpTo
  <2>4. Later(list, i, k, Replacing) /\ list[n].is \notin Replacing
    BY <2>3 DEF Later
  <2>5. Offers(c, b, t)
    BY <1>1, <2>2, <2>4 DEF Stands
  <2>6. r.o.servers = b.o.servers /\ r.o.allowed = b.o.allowed
    BY <1>3, <2>4 DEF Replacing
  <2> QED
    BY <2>5, <2>6 DEF Offers
<1> QED
  BY <1>1, <1>5, <1>6, <1>9, <1>10, <1>11, <1>12, <1>13 DEF Prefix

(* One more WithSDKTools.                                                  *)
LEMMA SDKStep ==
  ASSUME NEW c \in Clients, NEW list, NEW k \in Nat, NEW n, n = k + 1, NEW b, Prefix(c, list, k, b),
         NEW ts \in SUBSET ToolNames, ts # {}, list[n].is = "WithSDKTools", list[n].tools = ts,
         NEW r, r = WithSDKTools(c, b, ts), Built(r)
  PROVE  Prefix(c, list, n, r)
<1> DEFINE srv == createSDKToolServer(c, ts)
           p == PutSdk(c, b, srv)
           m == MapOf(c, b)
<1>1. /\ Built(b) /\ Touched(c, b.h) /\ b.o.servers \in {None, c} \union Maps
      /\ LastIs(list, k, "WithDisallowedTools", b.o.disallowed)
      /\ LastIs(list, k, "WithTools", b.o.tools)
  BY DEF Prefix
<1>2. srv \in Server /\ srv.kind = "sdk" /\ \A t \in ToolNames : srv.tools[t] = IF t \in ts THEN c ELSE None
  <2>1. srv \in Server
    BY ToolsOfType DEF createSDKToolServer, Handlers
  <2> QED
    BY <2>1 DEF createSDKToolServer, ToolsOf
<1> HIDE DEF srv
<1>3. Registers(c, b, srv, p)
  BY <1>1, <1>2, PutSdkRegisters
<1>4. r.o = [p.o EXCEPT !.allowed = AllowsToo(b.o, ts)] /\ r.h = p.h
  BY <1>1, SDKToolsParts DEF srv
<1>5. Touched(c, p.h)
  <2>1. \A t \in ToolNames : srv.tools[t] \in {c, "remote", None}
    BY <1>2
  <2> QED
    BY <1>1, <1>2, <2>1, PutSdkTouches
<1> HIDE DEF p
<1>6. p.o = [b.o EXCEPT !.servers = m] /\ b.o \in Settings /\ r.o \in Settings /\ p.o \in Settings
  BY <1>1, <1>3 DEF Registers, Built
<1>7. /\ r.o.servers = m /\ r.o.config = b.o.config /\ r.o.tools = b.o.tools
      /\ r.o.disallowed = b.o.disallowed /\ r.o.onUserInput = b.o.onUserInput
      /\ r.o.allowed = AllowsToo(b.o, ts)
  BY <1>4, <1>6 DEF Settings
<1>8. m \in Maps \union {c} /\ (b.o.servers \notin Maps => m = c)
  BY <1>1 DEF MapOf
<1>9. LastIs(list, n, "WithDisallowedTools", r.o.disallowed)
  BY <1>1, <1>7, LastStep
<1>10. LastIs(list, n, "WithTools", r.o.tools)
  BY <1>1, <1>7, LastStep
<1>11. n \in 1..n /\ (\A i \in 1..n : i \in 1..k \/ i = n) /\ (\A i \in 1..k : i \in 1..n)
  BY UpTo
<1>12. (\A i \in 1..n : list[i].is # "WithMCPServers") => r.o.servers \notin Maps
  BY <1>7, <1>8, <1>11, ToolServersAssumption DEF Prefix
<1>13. (\A i \in 1..n : list[i].is # "WithMCPConfig") => r.o.config = None
  BY <1>7, <1>11 DEF Prefix
<1>14. (\E i \in 1..n : list[i].is = "WithOnUserInput") => r.o.onUserInput
  BY <1>7, <1>11 DEF Prefix
<1>15. Stands(c, list, n, r)
  <2> SUFFICES ASSUME NEW i \in 1..n, list[i].is = "WithSDKTools", Later(list, i, n, Replacing),
                      NEW t \in list[i].tools
               PROVE  Offers(c, r, t)
    BY DEF Stands
  <2>1. i = n
    <3> SUFFICES ASSUME i \in 1..k PROVE FALSE
      BY <1>11
    <3>1. n \in i+1..n
      BY UpTo
    <3> QED
      BY <3>1 DEF Later, Replacing
  <2>2. t \in ts /\ t \in ToolNames
    BY <2>1
  <2>3. DOMAIN r.h[m] = (DOMAIN Served(c, b)) \union {Sdk} /\ r.h[m][Sdk] = srv
    BY <1>3, <1>4 DEF Registers
  <2>4. PublicName(Sdk, t) \in r.o.allowed
    BY <1>7, <2>2 DEF AllowsToo
  <2> HIDE DEF m
  <2> QED
    BY <1>2, <1>7, <1>8, <2>2, <2>3, <2>4 DEF Offers
<1> QED
  BY <1>4, <1>5, <1>7, <1>8, <1>9, <1>10, <1>12, <1>13, <1>14, <1>15 DEF Prefix

\* What the options have set so far, one option on.
LEMMA PrefixStep ==
  ASSUME NEW c \in Clients, NEW list, NEW k \in Nat, NEW n, n = k + 1, NEW b, Prefix(c, list, k, b),
         IsOption(list[n])
  PROVE  Prefix(c, list, n, Option(c, b, list[n]))
<1> DEFINE op == list[n]
           r == Option(c, b, op)
<1>1. Built(b)
  BY DEF Prefix
<1>2. Sets(c, b, op, r) /\ Built(r)
  BY <1>1, OptionSets, OptionType
<1> HIDE DEF r
<1>3. CASE op.is = "WithSDKTools" /\ op.tools # {}
  <2>1. r = WithSDKTools(c, b, op.tools) /\ op.tools \in SUBSET ToolNames
    BY <1>2, <1>3 DEF Sets, IsOption
  <2> QED
    BY <1>2, <1>3, <2>1, SDKStep DEF r
<1>4. CASE op.is = "WithSDKTools" /\ op.tools = {}
  <2>1. r = b
    BY <1>2, <1>4 DEF Sets, WithSDKTools
  <2> QED
    BY <1>2, <1>4, <2>1, PlainStep DEF r
<1>5. CASE op.is # "WithSDKTools"
  <2>1. r.h = b.h
    BY <1>2, <1>5 DEF Sets
  <2> QED
    BY <1>2, <1>5, <2>1, PlainStep DEF r
<1> QED
  BY <1>3, <1>4, <1>5

(* What holds of 0, and of a number's successor when it holds of the       *)
(* number, holds of all.                                                   *)
LEMMA Induction ==
  ASSUME NEW S \in SUBSET Nat, 0 \in S, \A n \in S : n + 1 \in S
  PROVE  S = Nat
<1> SUFFICES ASSUME Nat \ S # {} PROVE FALSE
  OBVIOUS
<1>1. PICK x \in Nat \ S : \A y \in Nat \ S : ~(<<y, x>> \in OpToRel(<, Nat))
  BY NatLessThanWellFounded, WFMin
<1>2. x \in Nat /\ x # 0
  BY <1>1
<1>3. PICK y \in Nat : x = y + 1
  <2>1. x - 1 \in Nat /\ x = (x - 1) + 1
    BY <1>2
  <2> QED
    BY <2>1
<1>4. y \in S
  <2> SUFFICES ASSUME y \in Nat \ S PROVE FALSE
    BY <1>3
  <2>1. y < x
    BY <1>3
  <2>2. ~(<<y, x>> \in OpToRel(<, Nat))
    BY <1>1
  <2> QED
    BY <1>2, <1>3, <2>1, <2>2 DEF OpToRel
<1>5. x \in S
  BY <1>3, <1>4
<1> QED
  BY <1>1, <1>5

\* The function that applyAgentOptions evaluates at the end of the list.
IsAfter(f, c, list, m) ==
  f = [n \in 0..m |-> IF n = 0 THEN Begun(heap) ELSE Option(c, f[n-1], list[n])]

(* There is one, however long the list.                                    *)
LEMMA AfterExists ==
  ASSUME NEW c, NEW list, NEW n \in Nat
  PROVE  \E f : IsAfter(f, c, list, n)
<1> DEFINE S == {m \in Nat : \E f : IsAfter(f, c, list, m)}
<1>1. 0 \in S
  <2> DEFINE f == [k \in 0..0 |-> Begun(heap)]
  <2>1. IsAfter(f, c, list, 0)
    BY DEF IsAfter
  <2> QED
    BY <2>1
<1>2. ASSUME NEW m \in S PROVE m + 1 \in S
  <2>1. PICK f : IsAfter(f, c, list, m)
    OBVIOUS
  <2> DEFINE added == Option(c, f[m], list[m+1])
             g == [k \in 0..m+1 |-> IF k = m + 1 THEN added ELSE f[k]]
  <2>2. \A k \in 0..m : f[k] = IF k = 0 THEN Begun(heap) ELSE Option(c, f[k-1], list[k])
    BY <2>1 DEF IsAfter
  <2>3. m \in Nat /\ \A k \in 0..m : k # m + 1 /\ k \in 0..m+1 /\ (k # 0 => k - 1 \in 0..m)
    OBVIOUS
  <2>4. \A k \in 0..m : g[k] = f[k]
    BY <2>3
  <2>5. g[m+1] = added
    BY <2>3
  <2>6. \A k \in 0..m+1 : g[k] = IF k = 0 THEN Begun(heap) ELSE Option(c, g[k-1], list[k])
    <3> TAKE k \in 0..m+1
    <3>1. CASE k = m + 1
      <4>1. k # 0 /\ k - 1 = m /\ m \in 0..m
        BY <2>3, <3>1
      <4>2. g[k-1] = f[m] /\ g[k] = added
        BY <2>4, <2>5, <3>1, <4>1
      <4> HIDE DEF g
      <4> QED
        BY <3>1, <4>1, <4>2
    <3>2. CASE k \in 0..m
      <4>1. g[k] = f[k] /\ (k # 0 => g[k-1] = f[k-1])
        BY <2>3, <2>4, <3>2
      <4> HIDE DEF g
      <4> QED
        BY <2>2, <3>2, <4>1
    <3> QED
      BY <2>3, <3>1, <3>2
  <2>7. g = [k \in 0..m+1 |-> g[k]]
    OBVIOUS
  <2> HIDE DEF g, added
  <2>8. g = [k \in 0..m+1 |-> IF k = 0 THEN Begun(heap) ELSE Option(c, g[k-1], list[k])]
    BY <2>6, <2>7
  <2>9. IsAfter(g, c, list, m + 1)
    BY <2>8 DEF IsAfter
  <2> QED
    BY <2>3, <2>9
<1> HIDE DEF S
<1>3. S = Nat
  <2>1. S \in SUBSET Nat
    BY DEF S
  <2> QED
    BY <1>1, <1>2, <2>1, Induction
<1> QED
  BY <1>3 DEF S

(* No option is as good as none.                                           *)
LEMMA PrefixBegins ==
  ASSUME NEW c \in Clients, NEW list, HeapOK(heap), heap[c] = <<>>
  PROVE  Prefix(c, list, 0, Begun(heap))
<1> DEFINE b == Begun(heap)
<1>1. b.o = NoOptions /\ b.h = heap /\ b = [o |-> b.o, h |-> b.h]
  BY DEF Begun
<1> HIDE DEF b
<1>2. NoOptions \in Settings /\ NoOptions.servers = None /\ NoOptions.config = None
        /\ NoOptions.disallowed = {} /\ NoOptions.tools = {}
  BY DEF NoOptions, Settings
<1>3. Touched(c, heap)
  BY DEF Touched, Grown, OwnedBy
<1>4. \A i \in 1..0 : FALSE
  OBVIOUS
<1>5. None \notin Maps
  BY ToolServersAssumption
<1>6. LastIs(list, 0, "WithDisallowedTools", {}) /\ LastIs(list, 0, "WithTools", {})
  BY <1>4 DEF LastIs
<1> QED
  BY <1>1, <1>2, <1>3, <1>4, <1>5, <1>6 DEF Prefix, Built, Stands, b

(* What a client's options come to.                                        *)
LEMMA OptionsApplied ==
  ASSUME NEW c \in Clients, NEW list \in OptionLists[c], HeapOK(heap), heap[c] = <<>>
  PROVE  Prefix(c, list, Len(list), applyAgentOptions(c, list))
<1> DEFINE f == CHOOSE f : IsAfter(f, c, list, Len(list))
           m == Len(list)
           S == {n \in Nat : n <= m => Prefix(c, list, n, f[n])}
<1>1. m \in Nat /\ \A n \in 1..m : IsOption(list[n])
  BY ToolServersAssumption
<1>2. IsAfter(f, c, list, m)
  BY <1>1, AfterExists
<1>3. applyAgentOptions(c, list) = f[m]
  BY DEF applyAgentOptions, IsAfter
<1> HIDE DEF f, m
<1>4. \A n \in 0..m : f[n] = IF n = 0 THEN Begun(heap) ELSE Option(c, f[n-1], list[n])
  BY <1>2 DEF IsAfter
<1>5. 0 \in S
  <2>1. f[0] = Begun(heap)
    BY <1>1, <1>4
  <2> QED
    BY <2>1, PrefixBegins
<1>6. ASSUME NEW k \in S PROVE k + 1 \in S
  <2> SUFFICES ASSUME k + 1 <= m PROVE Prefix(c, list, k + 1, f[k+1])
    OBVIOUS
  <2>1. PICK n : n = k + 1
    OBVIOUS
  <2>2. k \in Nat /\ n \in 0..m /\ n \in 1..m /\ n # 0 /\ n - 1 = k /\ k <= m
    BY <1>1, <2>1
  <2>3. Prefix(c, list, k, f[k])
    BY <2>2
  <2>4. f[n] = Option(c, f[k], list[n])
    BY <1>4, <2>2
  <2>5. Prefix(c, list, n, f[n])
    BY <1>1, <2>1, <2>2, <2>3, <2>4, PrefixStep
  <2> QED
    BY <2>1, <2>5
<1> HIDE DEF S
<1>7. S = Nat
  <2>1. S \in SUBSET Nat
    BY DEF S
  <2> QED
    BY <1>5, <1>6, <2>1, Induction
<1>8. Prefix(c, list, m, f[m])
  BY <1>1, <1>7 DEF S
<1> QED
  BY <1>3, <1>8 DEF m

-----------------------------------------------------------------------------
(***************************************************************************)
(* What Start makes of the options: the MCP configuration replaces the     *)
(* servers, and the user-input tool joins what is there.                   *)
(***************************************************************************)
\* The options of b that the last step of Start leaves as the list made them.
Configures(c, list, b) ==
  /\ Built(b)
  /\ Touched(c, b.h)
  /\ b.o.servers \in {None, c} \union Maps
  /\ (\A i \in 1..Len(list) : list[i].is # "WithMCPServers") => b.o.servers \notin Maps
  /\ LastIs(list, Len(list), "WithDisallowedTools", b.o.disallowed)
  /\ LastIs(list, Len(list), "WithTools", b.o.tools)
  /\ (\A i \in 1..Len(list) : list[i].is # "WithMCPConfig") => Stands(c, list, Len(list), b)

Welcomes(c, b) ==
  LET m == b.o.servers
  IN  /\ m \in Maps \union {c}
      /\ Sdk \in DOMAIN b.h[m] /\ b.h[m][Sdk].kind = "sdk" /\ b.h[m][Sdk].tools[Stdio] = c
      /\ b.o.allowed = {} \/ PublicName(Sdk, Stdio) \in b.o.allowed

\* A configuration file loads as a map of servers of nobody's.
LEMMA LoadedType ==
  ASSUME NEW config \in Configs \ {Bad}
  PROVE  /\ IsPartial(loadMCPConfig(config), ServerNames, Server)
         /\ \A c \in Clients : OwnedBy(c, loadMCPConfig(config))
<1> DEFINE f == loadMCPConfig(config)
<1>1. IsPartial(config, ServerNames, ConfigEntry)
  BY ToolServersAssumption
<1>2. /\ DOMAIN f = DOMAIN config
      /\ \A s \in DOMAIN config :
           f[s] = [kind |-> IF Usable(config[s]) THEN "external" ELSE "broken",
                   tools |-> ToolsOf(config[s].tools, "remote")]
  BY DEF loadMCPConfig
<1>3. \A s \in DOMAIN config : f[s] \in Server
  <2> TAKE s \in DOMAIN config
  <2> DEFINE kind == IF Usable(config[s]) THEN "external" ELSE "broken"
  <2>1. kind \in {"sdk", "external", "broken"} /\ "remote" \in Handlers
    BY DEF Handlers
  <2>2. f[s] = [kind |-> kind, tools |-> ToolsOf(config[s].tools, "remote")]
    BY <1>2
  <2> HIDE DEF kind, f
  <2> QED
    BY <2>1, <2>2, ToolsOfType
<1>4. \A s \in DOMAIN config, t \in ToolNames : f[s].tools[t] \in {"remote", None}
  <2> TAKE s \in DOMAIN config, t \in ToolNames
  <2>1. f[s].tools = ToolsOf(config[s].tools, "remote")
    BY <1>2
  <2> HIDE DEF f
  <2> QED
    BY <2>1 DEF ToolsOf
<1> HIDE DEF f
<1> QED
  BY <1>1, <1>2, <1>3, <1>4 DEF IsPartial, OwnedBy, f

\* The configuration adds servers to those of the options.
LEMMA ConfigApplied ==
  ASSUME NEW c \in Clients, NEW list, NEW b, Prefix(c, list, Len(list), b), ~Refused(b.o)
  PROVE  LET r == applyMCPConfigToOptions(c, b)
         IN  Configures(c, list, r) /\ r.o.onUserInput = b.o.onUserInput
<1> DEFINE r == applyMCPConfigToOptions(c, b)
<1>1. /\ Built(b) /\ Touched(c, b.h) /\ b.o.servers \in {None, c} \union Maps
      /\ b = [o |-> b.o, h |-> b.h] /\ b.o \in Settings /\ HeapOK(b.h)
  BY DEF Prefix, Built
<1>2. CASE b.o.config = None
  <2>1. r = b
    BY <1>2 DEF applyMCPConfigToOptions
  <2> HIDE DEF r
  <2> QED
    BY <2>1 DEF Prefix, Configures, r
<1>3. CASE b.o.config # None
  <2> DEFINE f == loadMCPConfig(b.o.config)
  <2>1. b.o.config \in Configs \ {Bad}
    BY <1>1, <1>3 DEF Refused, Fails, Settings
  <2>2. IsPartial(f, ServerNames, Server) /\ OwnedBy(c, f)
    BY <2>1, LoadedType
  <2>3. r = [b EXCEPT !.o.servers = c, !.h[c] = f]
    BY <1>3 DEF applyMCPConfigToOptions
  <2> HIDE DEF r, f
  <2>4. r = [o |-> r.o, h |-> r.h] /\ r.o = [b.o EXCEPT !.servers = c] /\ r.h = [b.h EXCEPT ![c] = f]
    BY <1>1, <2>3
  <2>5. c \in Maps \union Clients /\ c \notin Maps
    BY ToolServersAssumption
  <2>6. r.h[c] = f /\ DOMAIN r.h = Maps \union Clients
          /\ \A m \in (Maps \union Clients) \ {c} : r.h[m] = b.h[m]
    BY <1>1, <2>4, <2>5 DEF HeapOK
  <2>7. HeapOK(r.h)
    BY <1>1, <2>2, <2>6 DEF HeapOK
  <2>8. /\ r.o \in Settings /\ r.o.servers = c /\ r.o.disallowed = b.o.disallowed
        /\ r.o.tools = b.o.tools /\ r.o.onUserInput = b.o.onUserInput
    BY <1>1, <2>4 DEF Settings
  <2>9. Touched(c, r.h)
    <3>1. \A m \in Maps : r.h[m] = b.h[m]
      BY <2>5, <2>6
    <3>2. \A d \in Clients \ {c} : r.h[d] = b.h[d]
      BY <2>6
    <3> QED
      BY <1>1, <2>2, <2>6, <3>1, <3>2 DEF Touched
  <2>10. Built(r)
    BY <2>4, <2>7, <2>8 DEF Built
  <2>11. ~(\A i \in 1..Len(list) : list[i].is # "WithMCPConfig")
    BY <1>3 DEF Prefix
  <2>12. LastIs(list, Len(list), "WithDisallowedTools", r.o.disallowed)
           /\ LastIs(list, Len(list), "WithTools", r.o.tools)
    BY <2>8 DEF Prefix
  <2> QED
    BY <2>5, <2>8, <2>9, <2>10, <2>11, <2>12 DEF Configures, r
<1> QED
  BY <1>2, <1>3

\* The "sdk" server with the user-input tool.
WithInput(c, b) ==
  LET old == Served(c, b)
  IN  IF Sdk \in DOMAIN old /\ old[Sdk].kind = "sdk" THEN [old[Sdk] EXCEPT !.tools[Stdio] = c]
      ELSE createSDKToolServer(c, {Stdio})

\* The SDK's server with the user input tool is a server.
LEMMA WithInputType ==
  ASSUME NEW c \in Clients, NEW b, Built(b), Touched(c, b.h), b.o.servers \in {None, c} \union Maps
  PROVE  LET srv == WithInput(c, b)
         IN  /\ srv \in Server /\ srv.kind = "sdk" /\ srv.tools[Stdio] = c
             /\ b.o.servers \in {None, c} => \A t \in ToolNames : srv.tools[t] \in {c, "remote", None}
             /\ \A t \in ToolNames : Offers(c, b, t) => srv.tools[t] = c
<1> DEFINE srv == WithInput(c, b)
           old == Served(c, b)
<1>1. Stdio \in ToolNames /\ c \in Handlers
  BY ToolServersAssumption DEF Handlers
<1>2. IsPartial(old, ServerNames, Server)
  BY ServedType
<1>3. ASSUME NEW t \in ToolNames, Offers(c, b, t)
      PROVE  Sdk \in DOMAIN old /\ old[Sdk].kind = "sdk" /\ old[Sdk].tools[t] = c
  <2>1. b.o.servers # None
    BY <1>3, ToolServersAssumption DEF Offers
  <2>2. old = b.h[b.o.servers]
    BY <2>1 DEF Served
  <2> HIDE DEF old
  <2> QED
    BY <1>3, <2>2 DEF Offers
<1>4. b.o.servers \in {None, c} =>
        \A s \in DOMAIN old, t \in ToolNames : old[s].tools[t] \in {c, "remote", None}
  <2>1. CASE b.o.servers = None
    BY <2>1 DEF Served
  <2>2. CASE b.o.servers = c /\ c # None
    <3>1. old = b.h[c]
      BY <2>2 DEF Served
    <3> HIDE DEF old
    <3> QED
      BY <3>1 DEF Touched, OwnedBy
  <2> QED
    BY <2>1, <2>2
<1>5. CASE Sdk \in DOMAIN old /\ old[Sdk].kind = "sdk"
  <2> DEFINE x == old[Sdk]
  <2>1. srv = [x EXCEPT !.tools[Stdio] = c]
    BY <1>5 DEF WithInput
  <2>2. x \in Server /\ x.kind = "sdk"
    BY <1>2, <1>5 DEF IsPartial
  <2>3. b.o.servers \in {None, c} => \A t \in ToolNames : x.tools[t] \in {c, "remote", None}
    BY <1>4, <1>5
  <2>4. \A t \in ToolNames : Offers(c, b, t) => x.tools[t] = c
    BY <1>3
  <2> HIDE DEF srv, x, old
  <2>5. srv = [kind |-> "sdk", tools |-> [x.tools EXCEPT ![Stdio] = c]]
    BY <2>1, <2>2 DEF Server
  <2>6. srv \in Server /\ srv.kind = "sdk" /\ srv.tools = [x.tools EXCEPT ![Stdio] = c]
    BY <1>1, <2>2, <2>5 DEF Server
  <2>7. x.tools \in [ToolNames -> Handlers \union {None}]
    BY <2>2 DEF Server
  <2>8. srv.tools[Stdio] = c /\ \A t \in ToolNames \ {Stdio} : srv.tools[t] = x.tools[t]
    BY <1>1, <2>6, <2>7
  <2> QED
    BY <2>3, <2>4, <2>6, <2>8 DEF srv
<1>6. CASE ~(Sdk \in DOMAIN old /\ old[Sdk].kind = "sdk")
  <2>1. srv = createSDKToolServer(c, {Stdio})
    BY <1>6 DEF WithInput
  <2> HIDE DEF srv
  <2>2. srv \in Server
    BY <1>1, <2>1, ToolsOfType DEF createSDKToolServer
  <2>3. srv.kind = "sdk" /\ \A t \in ToolNames : srv.tools[t] = IF t = Stdio THEN c ELSE None
    BY <2>1 DEF createSDKToolServer, ToolsOf
  <2>4. \A t \in ToolNames : ~Offers(c, b, t)
    BY <1>3, <1>6
  <2> QED
    BY <1>1, <2>2, <2>3, <2>4 DEF srv
<1> QED
  BY <1>5, <1>6

\* The user input tool is there if the client has a callback.
LEMMA InputAdded ==
  ASSUME NEW c \in Clients, NEW list \in OptionLists[c], NEW b, Configures(c, list, b)
  PROVE  LET r == ensureUserInputTool(c, b)
         IN  Configures(c, list, r) /\ (b.o.onUserInput => Welcomes(c, r))
<1> DEFINE r == ensureUserInputTool(c, b)
           srv == WithInput(c, b)
           with == PutSdk(c, b, srv)
           m == MapOf(c, b)
<1>1. /\ Built(b) /\ Touched(c, b.h) /\ b.o.servers \in {None, c} \union Maps
      /\ b.o \in Settings
  BY DEF Configures, Built
<1>2. CASE ~b.o.onUserInput
  <2>1. r = b
    BY <1>2 DEF ensureUserInputTool
  <2> HIDE DEF r
  <2> QED
    BY <1>2, <2>1 DEF r
<1>3. CASE b.o.onUserInput
  <2>1. r = IF b.o.allowed = {} THEN with ELSE [with EXCEPT !.o.allowed = AllowsToo(b.o, {Stdio})]
    BY <1>3 DEF ensureUserInputTool, WithInput
  <2>2. /\ srv \in Server /\ srv.kind = "sdk" /\ srv.tools[Stdio] = c
        /\ b.o.servers \in {None, c} => \A t \in ToolNames : srv.tools[t] \in {c, "remote", None}
        /\ \A t \in ToolNames : Offers(c, b, t) => srv.tools[t] = c
    BY <1>1, WithInputType
  <2> HIDE DEF srv
  <2>3. Registers(c, b, srv, with)
    BY <1>1, <2>2, PutSdkRegisters
  <2>4. Touched(c, with.h)
    BY <1>1, <2>2, PutSdkTouches
  <2> HIDE DEF with, r
  <2>5. Built(with) /\ with = [o |-> with.o, h |-> with.h] /\ with.o \in Settings /\ HeapOK(with.h)
    BY <2>3 DEF Registers, Built
  <2>6. /\ r = [o |-> r.o, h |-> r.h] /\ r.h = with.h
        /\ r.o = [with.o EXCEPT !.allowed = IF b.o.allowed = {} THEN {} ELSE AllowsToo(b.o, {Stdio})]
    <3>1. with.o = [b.o EXCEPT !.servers = m]
      BY <2>3 DEF Registers
    <3>2. with.o.allowed = b.o.allowed
      BY <1>1, <3>1 DEF Settings
    <3>3. CASE b.o.allowed = {}
      BY <2>1, <2>5, <3>2, <3>3 DEF Settings
    <3>4. CASE b.o.allowed # {}
      BY <2>1, <2>5, <3>4
    <3> QED
      BY <3>3, <3>4
  <2>7. AllowsToo(b.o, {Stdio}) = b.o.allowed \union {PublicName(Sdk, Stdio)}
          /\ PublicName(Sdk, Stdio) \in Names /\ Stdio \in ToolNames
    BY PublicNameType, ToolServersAssumption DEF AllowsToo
  <2>8. r.o \in Settings
    <3> DEFINE allowed == IF b.o.allowed = {} THEN {} ELSE AllowsToo(b.o, {Stdio})
    <3>1. allowed \in SUBSET Names
      BY <1>1, <2>7 DEF Settings
    <3>2. r.o = [with.o EXCEPT !.allowed = allowed]
      BY <2>6
    <3> HIDE DEF allowed
    <3> QED
      BY <2>5, <3>1, <3>2 DEF Settings
  <2>9. /\ r.o.servers = m /\ r.o.disallowed = b.o.disallowed /\ r.o.tools = b.o.tools
        /\ r.o.allowed = IF b.o.allowed = {} THEN {} ELSE b.o.allowed \union {PublicName(Sdk, Stdio)}
    <3>1. with.o = [b.o EXCEPT !.servers = m]
      BY <2>3 DEF Registers
    <3> QED
      BY <1>1, <2>5, <2>6, <2>7, <3>1 DEF Settings
  <2>10. m \in Maps \union {c} /\ (b.o.servers \notin Maps => m = c) /\ c \notin Maps
    BY <1>1, ToolServersAssumption DEF MapOf
  <2>11. Sdk \in DOMAIN r.h[m] /\ r.h[m][Sdk] = srv
    BY <2>3, <2>6 DEF Registers
  <2> HIDE DEF m
  <2>12. Welcomes(c, r)
    BY <2>2, <2>9, <2>10, <2>11 DEF Welcomes
  <2>13. ASSUME NEW t \in ToolNames, Offers(c, b, t) PROVE Offers(c, r, t)
    <3>1. srv.tools[t] = c
      BY <2>2, <2>13
    <3>2. PublicName(Sdk, t) \in b.o.allowed
      BY <2>13 DEF Offers
    <3> QED
      BY <2>2, <2>9, <2>10, <2>11, <3>1, <3>2 DEF Offers
  <2>14. Built(r) /\ Touched(c, r.h)
    BY <2>4, <2>5, <2>6, <2>8 DEF Built
  <2>15. Stands(c, list, Len(list), b) => Stands(c, list, Len(list), r)
    <3>1. \A i \in 1..Len(list) : list[i].is = "WithSDKTools" => list[i].tools \subseteq ToolNames
      BY ToolServersAssumption DEF IsOption
    <3> QED
      BY <2>13, <3>1 DEF Stands
  <2>16. LastIs(list, Len(list), "WithDisallowedTools", r.o.disallowed)
           /\ LastIs(list, Len(list), "WithTools", r.o.tools)
    BY <2>9 DEF Configures
  <2>17. r.o.servers \in {None, c} \union Maps
           /\ ((\A i \in 1..Len(list) : list[i].is # "WithMCPServers") => r.o.servers \notin Maps)
    BY <2>9, <2>10 DEF Configures
  <2>18. (\A i \in 1..Len(list) : list[i].is # "WithMCPConfig") => Stands(c, list, Len(list), r)
    BY <2>15 DEF Configures
  <2>19. Configures(c, list, r)
    BY <2>14, <2>16, <2>17, <2>18 DEF Configures
  <2> QED
    BY <2>12, <2>19 DEF r
<1> QED
  BY <1>2, <1>3

(* What a client starts with.                                              *)
LEMMA StartsConfigured ==
  ASSUME NEW c \in Clients, NEW list \in OptionLists[c], HeapOK(heap), heap[c] = <<>>,
         NEW applied, applied = applyAgentOptions(c, list), ~Refused(applied.o)
  PROVE  /\ Configures(c, list, Configured(c, applied))
         /\ (\E i \in 1..Len(list) : list[i].is = "WithOnUserInput") => Welcomes(c, Configured(c, applied))
<1> DEFINE b == applyMCPConfigToOptions(c, applied)
           r == ensureUserInputTool(c, b)
<1>1. Prefix(c, list, Len(list), applied)
  BY OptionsApplied
<1>2. Configures(c, list, b) /\ b.o.onUserInput = applied.o.onUserInput
  BY <1>1, ConfigApplied
<1> HIDE DEF b
<1>3. Configures(c, list, r) /\ (b.o.onUserInput => Welcomes(c, r))
  BY <1>2, InputAdded
<1>4. Configured(c, applied) = r
  BY DEF Configured, b
<1> HIDE DEF r
<1> QED
  BY <1>1, <1>2, <1>3, <1>4 DEF Prefix

-----------------------------------------------------------------------------
(***************************************************************************)
(* The registry.                                                           *)
(***************************************************************************)
\* What a tool of a registry of options o over a map is.
IsShown(o, map, r, n) ==
  /\ r[n] \in ServerNames \X ToolNames /\ NameOf(r[n]) = n
  /\ r[n][1] \in DOMAIN map /\ map[r[n][1]].tools[r[n][2]] # None
  /\ Kept(o, n)

\* The registry shows the tools kept, and all the SDK's of them.
LEMMA RegistryShows ==
  ASSUME NEW o, NEW map, IsPartial(map, ServerNames, Server), NEW up, NEW r \in NewRegistry(o, map, up)
  PROVE  /\ \A n \in DOMAIN r : IsShown(o, map, r, n)
         /\ \A s \in DOMAIN map, t \in ToolNames :
              map[s].kind = "sdk" /\ map[s].tools[t] # None /\ Kept(o, PublicName(s, t))
                => PublicName(s, t) \in DOMAIN r
<1> DEFINE found == {p \in (DOMAIN map) \X ToolNames :
                       Ready(map, p[1], up) /\ p[2] \in ListTools(map[p[1]]) /\ Kept(o, NameOf(p))}
           names == {NameOf(p) : p \in found}
<1>1. r \in [names -> found] /\ \A n \in names : NameOf(r[n]) = n
  BY DEF NewRegistry
<1>2. \A p \in found : /\ p \in (DOMAIN map) \X ToolNames /\ map[p[1]].tools[p[2]] # None
                       /\ Kept(o, NameOf(p))
  BY DEF ListTools
<1>3. DOMAIN map \subseteq ServerNames
  BY DEF IsPartial
<1>4. \A p \in found : p \in ServerNames \X ToolNames /\ p[1] \in DOMAIN map
  BY <1>2, <1>3
<1>5. ASSUME NEW s \in DOMAIN map, NEW t \in ToolNames,
             map[s].kind = "sdk", map[s].tools[t] # None, Kept(o, PublicName(s, t))
      PROVE  PublicName(s, t) \in names
  <2> DEFINE p == <<s, t>>
  <2>1. p \in (DOMAIN map) \X ToolNames /\ p[1] = s /\ p[2] = t /\ NameOf(p) = PublicName(s, t)
    BY DEF NameOf
  <2>2. t \in ListTools(map[s]) /\ Ready(map, s, up)
    BY <1>5 DEF ListTools, Ready
  <2> HIDE DEF p
  <2>3. p \in found
    BY <1>5, <2>1, <2>2
  <2> QED
    BY <2>1, <2>3
<1> HIDE DEF found, names
<1>6. DOMAIN r = names /\ \A n \in names : r[n] \in found
  BY <1>1
<1>7. \A n \in DOMAIN r : IsShown(o, map, r, n)
  <2> TAKE n \in DOMAIN r
  <2>1. r[n] \in found /\ NameOf(r[n]) = n
    BY <1>1, <1>6
  <2> QED
    BY <1>2, <1>4, <2>1 DEF IsShown
<1> QED
  BY <1>5, <1>6, <1>7

\* Given, Latest, Excluded and ShownAsConfigured of a list and a registry.
At(list, is) == {i \in DOMAIN list : list[i].is = is}
LatestOf(list, is) == {list[i] : i \in {k \in At(list, is) : \A j \in At(list, is) : j <= k}}
ExcludedBy(list, n) ==
  \/ \E op \in LatestOf(list, "WithDisallowedTools") : n \in op.names
  \/ \E op \in LatestOf(list, "WithTools") : op.names # {} /\ n \notin op.names
ShownOK(list, r) ==
  /\ \A n \in DOMAIN r : ~ExcludedBy(list, n)
  /\ At(list, "WithOnUserInput") # {} =>
       PublicName(Sdk, Stdio) \in DOMAIN r \/ ExcludedBy(list, PublicName(Sdk, Stdio))
  /\ \A i \in At(list, "WithSDKTools") : \A t \in list[i].tools :
       \/ PublicName(Sdk, t) \in DOMAIN r
       \/ ExcludedBy(list, PublicName(Sdk, t))
       \/ At(list, "WithMCPConfig") # {}
       \/ \E j \in DOMAIN list : j > i /\ list[j].is \in
            {"WithMCPServers", "WithSDKTools", "WithAllowedTools"}

\* What the last option of its kind sets is what is set.
LEMMA LatestIs ==
  ASSUME NEW list, Len(list) \in Nat, DOMAIN list = 1..Len(list), NEW is, NEW names,
         LastIs(list, Len(list), is, names)
  PROVE  \/ LatestOf(list, is) = {} /\ names = {}
         \/ \E op : LatestOf(list, is) = {op} /\ op.names = names
<1>1. CASE (\A i \in 1..Len(list) : list[i].is # is) /\ names = {}
  <2>1. At(list, is) = {}
    BY <1>1 DEF At
  <2> QED
    BY <1>1, <2>1 DEF LatestOf
<1>2. ASSUME NEW i \in 1..Len(list), list[i].is = is, Later(list, i, Len(list), {is}), names = list[i].names
      PROVE  LatestOf(list, is) = {list[i]}
  <2>1. i \in At(list, is)
    BY <1>2 DEF At
  <2>2. \A j \in At(list, is) : j \in 1..Len(list) /\ j <= i
    BY <1>2 DEF At, Later
  <2>3. {k \in At(list, is) : \A j \in At(list, is) : j <= k} = {i}
    <3>1. \A k \in At(list, is) : (\A j \in At(list, is) : j <= k) <=> k = i
      BY <2>1, <2>2
    <3> QED
      BY <2>1, <3>1
  <2> QED
    BY <2>3 DEF LatestOf
<1> QED
  BY <1>1, <1>2 DEF LastIs

\* A name excluded by the options is excluded by what they set.
LEMMA ExcludedMeans ==
  ASSUME NEW list, Len(list) \in Nat, DOMAIN list = 1..Len(list), NEW o,
         LastIs(list, Len(list), "WithDisallowedTools", o.disallowed),
         LastIs(list, Len(list), "WithTools", o.tools), NEW n
  PROVE  ExcludedBy(list, n) <=> (n \in o.disallowed \/ (o.tools # {} /\ n \notin o.tools))
<1> DEFINE D == LatestOf(list, "WithDisallowedTools")
           T == LatestOf(list, "WithTools")
<1>1. (D = {} /\ o.disallowed = {}) \/ \E op : D = {op} /\ op.names = o.disallowed
  BY LatestIs
<1>2. (T = {} /\ o.tools = {}) \/ \E op : T = {op} /\ op.names = o.tools
  BY LatestIs
<1>3. ExcludedBy(list, n) <=>
        ((\E op \in D : n \in op.names) \/ (\E op \in T : op.names # {} /\ n \notin op.names))
  BY DEF ExcludedBy
<1> HIDE DEF D, T
<1>4. (\E op \in D : n \in op.names) <=> n \in o.disallowed
  BY <1>1
<1>5. (\E op \in T : op.names # {} /\ n \notin op.names) <=> (o.tools # {} /\ n \notin o.tools)
  BY <1>2
<1> QED
  BY <1>3, <1>4, <1>5

(* What a started client shows.                                            *)
LEMMA StartsShowing ==
  ASSUME NEW c \in Clients, NEW list \in OptionLists[c], NEW b, Configures(c, list, b),
         (\E i \in 1..Len(list) : list[i].is = "WithOnUserInput") => Welcomes(c, b),
         NEW up, NEW r \in NewRegistry(b.o, Served(c, b), up)
  PROVE  ShownOK(list, r)
<1> DEFINE map == Served(c, b)
<1>1. /\ Len(list) \in Nat /\ DOMAIN list = 1..Len(list)
      /\ \A i \in DOMAIN list : IsOption(list[i])
  BY ToolServersAssumption
<1>2. Built(b) /\ LastIs(list, Len(list), "WithDisallowedTools", b.o.disallowed)
        /\ LastIs(list, Len(list), "WithTools", b.o.tools)
  BY DEF Configures
<1>3. \A n : ExcludedBy(list, n) <=> (n \in b.o.disallowed \/ (b.o.tools # {} /\ n \notin b.o.tools))
  BY <1>1, <1>2, ExcludedMeans
<1>4. \A n : ~ExcludedBy(list, n) /\ (b.o.allowed = {} \/ n \in b.o.allowed) => Kept(b.o, n)
  BY <1>3 DEF Kept
<1>5. IsPartial(map, ServerNames, Server)
  BY <1>2, ServedType
<1>6. /\ \A n \in DOMAIN r : IsShown(b.o, map, r, n)
      /\ \A s \in DOMAIN map, t \in ToolNames :
           map[s].kind = "sdk" /\ map[s].tools[t] # None /\ Kept(b.o, PublicName(s, t))
             => PublicName(s, t) \in DOMAIN r
  BY <1>5, RegistryShows
<1>7. \A n \in DOMAIN r : ~ExcludedBy(list, n)
  BY <1>3, <1>6 DEF IsShown, Kept
<1>8. c # None /\ Stdio \in ToolNames /\ None \notin Maps \union {c}
  BY ToolServersAssumption
<1>9. b.o.servers \in Maps \union {c} => map = b.h[b.o.servers]
  BY <1>8 DEF Served
<1>10. ASSUME At(list, "WithOnUserInput") # {}
       PROVE  PublicName(Sdk, Stdio) \in DOMAIN r \/ ExcludedBy(list, PublicName(Sdk, Stdio))
  <2>1. Welcomes(c, b)
    BY <1>1, <1>10 DEF At
  <2>2. /\ Sdk \in DOMAIN map /\ map[Sdk].kind = "sdk" /\ map[Sdk].tools[Stdio] # None
        /\ b.o.allowed = {} \/ PublicName(Sdk, Stdio) \in b.o.allowed
    BY <1>8, <1>9, <2>1 DEF Welcomes
  <2> HIDE DEF map
  <2> QED
    BY <1>4, <1>6, <1>8, <2>2
<1>11. ASSUME NEW i \in At(list, "WithSDKTools"), NEW t \in list[i].tools
       PROVE  \/ PublicName(Sdk, t) \in DOMAIN r
              \/ ExcludedBy(list, PublicName(Sdk, t))
              \/ At(list, "WithMCPConfig") # {}
              \/ \E j \in DOMAIN list : j > i /\ list[j].is \in
                   {"WithMCPServers", "WithSDKTools", "WithAllowedTools"}
  <2> SUFFICES ASSUME At(list, "WithMCPConfig") = {},
                      ~\E j \in DOMAIN list : j > i /\ list[j].is \in Replacing,
                      ~ExcludedBy(list, PublicName(Sdk, t))
               PROVE  PublicName(Sdk, t) \in DOMAIN r
    BY DEF Replacing
  <2>1. i \in 1..Len(list) /\ list[i].is = "WithSDKTools" /\ t \in ToolNames
    BY <1>1 DEF At, IsOption
  <2>2. \A j \in 1..Len(list) : list[j].is # "WithMCPConfig"
    BY <1>1 DEF At
  <2>3. Stands(c, list, Len(list), b)
    BY <2>2 DEF Configures
  <2>4. \A j \in i+1..Len(list) : j \in DOMAIN list /\ j > i
    BY <1>1, <2>1
  <2>5. Later(list, i, Len(list), Replacing)
    BY <2>4 DEF Later
  <2>6. Offers(c, b, t)
    BY <2>1, <2>3, <2>5 DEF Stands
  <2>7. /\ Sdk \in DOMAIN map /\ map[Sdk].kind = "sdk" /\ map[Sdk].tools[t] # None
        /\ PublicName(Sdk, t) \in b.o.allowed
    BY <1>8, <1>9, <2>6 DEF Offers
  <2> HIDE DEF map
  <2> QED
    BY <1>4, <1>6, <2>1, <2>7
<1> QED
  BY <1>7, <1>10, <1>11 DEF ShownOK

-----------------------------------------------------------------------------
(***************************************************************************)
(* The servers' invariant.                                                 *)
(***************************************************************************)
\* In a caller's map only "sdk" ever gets a client's tools.
CallersMaps(h) ==
  \A m \in Maps : \A s \in (DOMAIN h[m]) \ {Sdk}, t \in ToolNames :
    h[m][s].tools[t] \in {"caller", "remote", None}

ClientOK(c, list, o, r, h) ==
  LET map == h[o.servers]
  IN  /\ o \in Settings /\ o.servers \in {None, c} \union Maps
      /\ At(list, "WithMCPServers") = {} => o.servers \notin Maps
      /\ ShownOK(list, r)
      /\ DOMAIN r # {} => o.servers # None
      /\ \A n \in DOMAIN r :
           /\ r[n] \in ServerNames \X ToolNames /\ NameOf(r[n]) = n
           /\ r[n][1] \in DOMAIN map
           /\ (o.servers \in Maps /\ r[n][1] = Sdk) \/ map[r[n][1]].tools[r[n][2]] # None

\* A call that was made.
Meant(list, r, l) ==
  LET alike == {n \in DOMAIN r : collapseUnderscores[n] = collapseUnderscores[l.said]}
  IN  /\ NameOf(l.ref) \in DOMAIN r /\ ~ExcludedBy(list, NameOf(l.ref))
      /\ l.said = NameOf(l.ref) \/ alike = {NameOf(l.ref)}

ServerInv ==
  /\ DOMAIN given = Clients /\ DOMAIN opts = Clients /\ DOMAIN reg = Clients
  /\ HeapOK(heap) /\ CallersMaps(heap)
  /\ \A c \in Clients :
       /\ OwnedBy(c, heap[c])
       /\ ~Started(c) => heap[c] = <<>> /\ reg[c] = <<>>
       /\ Started(c) => ClientOK(c, given[c], opts[c], reg[c], heap)
  /\ last # None => /\ last.client \in Clients /\ Started(last.client)
                    /\ Meant(given[last.client], reg[last.client], last)

(* A client that starts has what ClientOK asks for.                        *)
LEMMA StartsOK ==
  ASSUME NEW c \in Clients, NEW list \in OptionLists[c], NEW b, Configures(c, list, b),
         (\E i \in 1..Len(list) : list[i].is = "WithOnUserInput") => Welcomes(c, b),
         NEW up, NEW r \in NewRegistry(b.o, Served(c, b), up)
  PROVE  ClientOK(c, list, b.o, r, b.h)
<1> DEFINE map == Served(c, b)
<1>1. ShownOK(list, r)
  BY StartsShowing
<1>2. Built(b) /\ b.o \in Settings /\ b.o.servers \in {None, c} \union Maps
  BY DEF Configures, Built
<1>3. DOMAIN list = 1..Len(list)
  BY ToolServersAssumption
<1>4. At(list, "WithMCPServers") = {} => b.o.servers \notin Maps
  BY <1>3 DEF Configures, At
<1>5. IsPartial(map, ServerNames, Server)
  BY <1>2, ServedType
<1>6. \A n \in DOMAIN r : IsShown(b.o, map, r, n)
  BY <1>5, RegistryShows
<1>7. b.o.servers = None => DOMAIN map = {}
  BY DEF Served
<1>8. b.o.servers # None => map = b.h[b.o.servers]
  BY DEF Served
<1> HIDE DEF map
<1>9. DOMAIN r # {} => b.o.servers # None
  BY <1>6, <1>7 DEF IsShown
<1>10. \A n \in DOMAIN r :
         /\ r[n] \in ServerNames \X ToolNames /\ NameOf(r[n]) = n
         /\ r[n][1] \in DOMAIN b.h[b.o.servers]
         /\ b.h[b.o.servers][r[n][1]].tools[r[n][2]] # None
  BY <1>6, <1>8, <1>9 DEF IsShown
<1> QED
  BY <1>1, <1>2, <1>4, <1>9, <1>10 DEF ClientOK

(* Another client's start leaves it so.                                    *)
LEMMA OthersStayOK ==
  ASSUME NEW c \in Clients, NEW d \in Clients \ {c}, NEW list, NEW o, NEW r, NEW h,
         ClientOK(d, list, o, r, heap),
         \A m \in Maps : Grown(heap[m], h[m]), \A e \in Clients \ {c} : h[e] = heap[e]
  PROVE  ClientOK(d, list, o, r, h)
<1>1. CASE o.servers \in Maps
  BY <1>1 DEF ClientOK, Grown
<1>2. CASE o.servers = d
  BY <1>2 DEF ClientOK
<1>3. CASE o.servers = None
  BY <1>3 DEF ClientOK
<1> QED
  BY <1>1, <1>2, <1>3 DEF ClientOK

\* Nothing is served at first.
LEMMA ServerInit ==
  ASSUME Init
  PROVE  ServerInv
<1>1. PICK held \in [Maps -> Contents] :
        heap = [m \in Maps \union Clients |-> IF m \in Maps THEN held[m] ELSE <<>>]
  BY DEF Init
<1>2. \A m \in Maps : heap[m] = held[m] /\ held[m] \in Contents
  BY <1>1
<1>3. \A c \in Clients : heap[c] = <<>>
  BY <1>1, ToolServersAssumption
<1>4. HeapOK(heap)
  <2>1. \A m \in Maps : IsPartial(heap[m], ServerNames, Server)
    BY <1>2, ToolServersAssumption
  <2>2. \A c \in Clients : IsPartial(heap[c], ServerNames, Server)
    BY <1>3 DEF IsPartial
  <2>3. DOMAIN heap = Maps \union Clients
    BY <1>1
  <2> QED
    BY <2>1, <2>2, <2>3 DEF HeapOK
<1>5. CallersMaps(heap)
  <2> SUFFICES ASSUME NEW m \in Maps, NEW s \in DOMAIN heap[m], NEW t \in ToolNames
               PROVE  heap[m][s].tools[t] \in {"caller", "remote", None}
    BY DEF CallersMaps
  <2>1. heap[m][s].tools[t] \notin Clients
    BY <1>2, ToolServersAssumption
  <2>2. heap[m][s] \in Server
    BY <1>4 DEF HeapOK, IsPartial
  <2>3. heap[m][s].tools[t] \in Handlers \union {None}
    BY <2>2 DEF Server
  <2> QED
    BY <2>1, <2>3 DEF Handlers
<1>6. \A c \in Clients : OwnedBy(c, heap[c])
  BY <1>3 DEF OwnedBy
<1>7. /\ given = [c \in Clients |-> <<>>] /\ opts = [c \in Clients |-> None]
      /\ reg = [c \in Clients |-> <<>>] /\ last = None
  BY DEF Init
<1> QED
  BY <1>3, <1>4, <1>5, <1>6, <1>7 DEF ServerInv, Started

(* What the maps still are after a client's start, successful or not.      *)
LEMMA MapsStep ==
  ASSUME ServerInv, NEW c \in Clients, NEW h, HeapOK(h),
         \A m \in Maps : Grown(heap[m], h[m]), \A d \in Clients \ {c} : h[d] = heap[d]
  PROVE  /\ CallersMaps(h)
         /\ \A d \in Clients \ {c} :
              /\ OwnedBy(d, h[d])
              /\ ~Started(d) => h[d] = <<>>
              /\ Started(d) => ClientOK(d, given[d], opts[d], reg[d], h)
<1>1. CallersMaps(h)
  BY DEF ServerInv, CallersMaps, Grown
<1>2. ASSUME NEW d \in Clients \ {c}, Started(d)
      PROVE  ClientOK(d, given[d], opts[d], reg[d], h)
  <2>1. ClientOK(d, given[d], opts[d], reg[d], heap)
    BY <1>2 DEF ServerInv
  <2> QED
    BY <2>1, OthersStayOK
<1>3. \A d \in Clients \ {c} : OwnedBy(d, h[d]) /\ (~Started(d) => h[d] = <<>>)
  BY DEF ServerInv
<1> QED
  BY <1>1, <1>2, <1>3

\* A client that starts shows what it serves.
LEMMA ServerStart ==
  ASSUME ServerInv, NEW c \in Clients, Start(c)
  PROVE  ServerInv'
<1>1. PICK list \in OptionLists[c], up \in SUBSET ServerNames :
        LET applied == applyAgentOptions(c, list)
            b == Configured(c, applied)
            map == Served(c, b)
        IN  /\ ~Refused(applied.o)
            /\ heap' = b.h
            /\ given' = [given EXCEPT ![c] = list]
            /\ opts' = [opts EXCEPT ![c] = b.o]
            /\ \E r \in NewRegistry(b.o, map, up) : reg' = [reg EXCEPT ![c] = r]
  BY DEF Start
<1> DEFINE applied == applyAgentOptions(c, list)
           b == Configured(c, applied)
<1>2. ~Started(c) /\ last' = last
  BY DEF Start
<1>3. HeapOK(heap) /\ heap[c] = <<>>
  BY <1>2 DEF ServerInv
<1>4. Configures(c, list, b) /\ ((\E i \in 1..Len(list) : list[i].is = "WithOnUserInput") => Welcomes(c, b))
  BY <1>1, <1>3, StartsConfigured
<1>5. PICK r \in NewRegistry(b.o, Served(c, b), up) : reg' = [reg EXCEPT ![c] = r]
  BY <1>1
<1>6. heap' = b.h /\ given' = [given EXCEPT ![c] = list] /\ opts' = [opts EXCEPT ![c] = b.o]
  BY <1>1
<1> HIDE DEF b
<1>7. Built(b) /\ Touched(c, b.h)
  BY <1>4 DEF Configures
<1>8. HeapOK(b.h) /\ b.o \in Settings
  BY <1>7 DEF Built
<1>9. /\ CallersMaps(b.h)
      /\ \A d \in Clients \ {c} :
           /\ OwnedBy(d, b.h[d])
           /\ ~Started(d) => b.h[d] = <<>>
           /\ Started(d) => ClientOK(d, given[d], opts[d], reg[d], b.h)
  BY <1>7, <1>8, MapsStep DEF Touched
<1>10. ClientOK(c, list, b.o, r, b.h)
  BY <1>4, StartsOK
<1>11. DOMAIN given = Clients /\ DOMAIN opts = Clients /\ DOMAIN reg = Clients
  BY DEF ServerInv
<1>12. /\ given'[c] = list /\ opts'[c] = b.o /\ reg'[c] = r
       /\ \A d \in Clients \ {c} : given'[d] = given[d] /\ opts'[d] = opts[d] /\ reg'[d] = reg[d]
       /\ DOMAIN given' = Clients /\ DOMAIN opts' = Clients /\ DOMAIN reg' = Clients
  BY <1>5, <1>6, <1>11
<1>13. Started(c)'
  BY <1>8, <1>12, ToolServersAssumption DEF Started
<1>14. \A d \in Clients :
         /\ OwnedBy(d, heap'[d])
         /\ ~Started(d)' => heap'[d] = <<>> /\ reg'[d] = <<>>
         /\ Started(d)' => ClientOK(d, given'[d], opts'[d], reg'[d], heap')
  <2> TAKE d \in Clients
  <2>1. CASE d = c
    BY <1>6, <1>7, <1>10, <1>12, <1>13, <2>1 DEF Touched
  <2>2. CASE d # c
    <3>1. Started(d)' <=> Started(d)
      BY <1>12, <2>2 DEF Started
    <3>2. ~Started(d) => reg[d] = <<>>
      BY DEF ServerInv
    <3> QED
      BY <1>6, <1>9, <1>12, <2>2, <3>1, <3>2
  <2> QED
    BY <2>1, <2>2
<1>15. last' # None => /\ last'.client \in Clients /\ opts'[last'.client] # None
                       /\ Meant(given'[last'.client], reg'[last'.client], last')
  <2> SUFFICES ASSUME last # None
               PROVE  /\ last.client \in Clients /\ opts'[last.client] # None
                      /\ Meant(given'[last.client], reg'[last.client], last)
    BY <1>2
  <2>1. /\ last.client \in Clients /\ Started(last.client)
        /\ Meant(given[last.client], reg[last.client], last)
    BY DEF ServerInv
  <2>2. last.client \in Clients \ {c}
    BY <1>2, <2>1
  <2>3. opts'[last.client] # None
    BY <1>12, <2>1, <2>2 DEF Started
  <2> QED
    BY <1>12, <2>1, <2>2, <2>3
<1> QED
  BY <1>6, <1>8, <1>9, <1>12, <1>14, <1>15 DEF ServerInv, Started

\* A client that fails to start shows nothing.
LEMMA ServerStartFails ==
  ASSUME ServerInv, NEW c \in Clients, StartFails(c)
  PROVE  ServerInv'
<1>1. PICK list \in OptionLists[c] :
        LET applied == applyAgentOptions(c, list)
            b == IF Refused(applied.o) THEN applied ELSE Configured(c, applied)
        IN  heap' = [b.h EXCEPT ![c] = <<>>]
  BY DEF StartFails
<1> DEFINE applied == applyAgentOptions(c, list)
           b == IF Refused(applied.o) THEN applied ELSE Configured(c, applied)
<1>2. ~Started(c) /\ given' = given /\ opts' = opts /\ reg' = reg /\ last' = last
  BY DEF StartFails, client
<1>3. HeapOK(heap) /\ heap[c] = <<>> /\ reg[c] = <<>>
  BY <1>2 DEF ServerInv
<1>4. heap' = [b.h EXCEPT ![c] = <<>>]
  BY <1>1
<1>5. Built(b) /\ Touched(c, b.h)
  <2>1. CASE Refused(applied.o)
    <3>1. Prefix(c, list, Len(list), applied)
      BY <1>3, OptionsApplied
    <3> HIDE DEF applied
    <3> QED
      BY <2>1, <3>1 DEF Prefix
  <2>2. CASE ~Refused(applied.o)
    <3>1. Configures(c, list, Configured(c, applied))
      BY <1>3, <2>2, StartsConfigured
    <3> HIDE DEF applied
    <3> QED
      BY <2>2, <3>1 DEF Configures
  <2> QED
    BY <2>1, <2>2
<1> HIDE DEF b
<1>6. c \in Maps \union Clients /\ c \notin Maps
  BY ToolServersAssumption
<1>7. /\ heap'[c] = <<>> /\ DOMAIN heap' = Maps \union Clients
      /\ \A m \in (Maps \union Clients) \ {c} : heap'[m] = b.h[m]
  BY <1>4, <1>5, <1>6 DEF Built, HeapOK
<1>8. HeapOK(heap')
  <2>1. IsPartial(<<>>, ServerNames, Server)
    BY DEF IsPartial
  <2> QED
    BY <1>5, <1>7, <2>1 DEF Built, HeapOK
<1>9. (\A m \in Maps : Grown(heap[m], heap'[m])) /\ \A d \in Clients \ {c} : heap'[d] = heap[d]
  <2>1. \A m \in Maps : heap'[m] = b.h[m]
    BY <1>6, <1>7
  <2>2. \A d \in Clients \ {c} : heap'[d] = b.h[d]
    BY <1>7
  <2> QED
    BY <1>5, <2>1, <2>2 DEF Touched
<1>10. /\ CallersMaps(heap')
       /\ \A d \in Clients \ {c} :
            /\ OwnedBy(d, heap'[d])
            /\ ~Started(d) => heap'[d] = <<>>
            /\ Started(d) => ClientOK(d, given[d], opts[d], reg[d], heap')
  BY <1>8, <1>9, MapsStep
<1>11. OwnedBy(c, heap'[c])
  BY <1>7 DEF OwnedBy
<1>12. \A d \in Clients : Started(d)' <=> Started(d)
  BY <1>2 DEF Started
<1>13. \A d \in Clients :
         /\ OwnedBy(d, heap'[d])
         /\ ~Started(d)' => heap'[d] = <<>> /\ reg'[d] = <<>>
         /\ Started(d)' => ClientOK(d, given'[d], opts'[d], reg'[d], heap')
  <2> TAKE d \in Clients
  <2>1. ~Started(d) => reg[d] = <<>>
    BY DEF ServerInv
  <2>2. CASE d = c
    BY <1>2, <1>3, <1>7, <1>11, <1>12, <2>2
  <2>3. CASE d # c
    BY <1>2, <1>10, <1>12, <2>1, <2>3
  <2> QED
    BY <2>2, <2>3
<1>14. last # None => /\ last.client \in Clients /\ opts'[last.client] # None
                      /\ Meant(given[last.client], reg[last.client], last)
  BY <1>2 DEF ServerInv, Started
<1> QED
  BY <1>2, <1>8, <1>10, <1>13, <1>14 DEF ServerInv, Started

(* What ClientOK says of the tools a client shows, by registry r from map.  *)
Shows(list, r, m, map) ==
  /\ m \in Maps => At(list, "WithMCPServers") # {}
  /\ DOMAIN r # {} => m # None
  /\ \A n \in DOMAIN r :
       /\ r[n] \in ServerNames \X ToolNames /\ r[n][1] \in DOMAIN map
       /\ (m \in Maps /\ r[n][1] = Sdk) \/ map[r[n][1]].tools[r[n][2]] # None
Named(r) == \A n \in DOMAIN r : NameOf(r[n]) = n

\* What a started client's registry shows.
LEMMA ClientShows ==
  ASSUME NEW c, NEW list, NEW o, NEW r, NEW h, ClientOK(c, list, o, r, h)
  PROVE  /\ o.servers \in {None, c} \union Maps /\ ShownOK(list, r)
         /\ Shows(list, r, o.servers, h[o.servers]) /\ Named(r)
<1>1. Shows(list, r, o.servers, h[o.servers])
  BY DEF ClientOK, Shows
<1> QED
  BY <1>1 DEF ClientOK, Named

(* A call is of a tool that is shown and was meant.                        *)
LEMMA ServerCall ==
  ASSUME ServerInv, NEW c \in Clients, NEW n, NEW inline \in BOOLEAN, Call(c, n, inline)
  PROVE  ServerInv'
<1> DEFINE name == IF inline THEN ResolveName(reg[c], n) ELSE n
           alike == {k \in DOMAIN reg[c] : collapseUnderscores[k] = collapseUnderscores[n]}
<1>1. /\ heap' = heap /\ given' = given /\ opts' = opts /\ reg' = reg
      /\ Started(c) /\ name \in DOMAIN reg[c]
      /\ last' = [client |-> c, said |-> n, ref |-> reg[c][name],
                  by |-> CallTool(Serving(c)[reg[c][name][1]], reg[c][name][2])]
  BY DEF Call, client
<1>2. n = name \/ alike = {name}
  <2>1. CASE inline /\ n \notin DOMAIN reg[c] /\ \E k \in alike : alike = {k}
    <3>1. name = CHOOSE k \in alike : TRUE
      BY <2>1 DEF ResolveName
    <3>2. PICK k \in alike : alike = {k}
      BY <2>1
    <3> HIDE DEF alike, name
    <3> QED
      BY <3>1, <3>2
  <2>2. CASE ~(inline /\ n \notin DOMAIN reg[c] /\ \E k \in alike : alike = {k})
    BY <2>2 DEF ResolveName
  <2> QED
    BY <2>1, <2>2
<1> HIDE DEF name
<1>3. ClientOK(c, given[c], opts[c], reg[c], heap)
  BY <1>1 DEF ServerInv
<1>4. NameOf(reg[c][name]) = name /\ ~ExcludedBy(given[c], name)
  <2>1. Named(reg[c]) /\ ShownOK(given[c], reg[c])
    BY <1>3, ClientShows
  <2>2. name \in DOMAIN reg[c]
    BY <1>1
  <2> QED
    BY <2>1, <2>2 DEF Named, ShownOK
<1>5. last'.client = c /\ last'.said = n /\ last'.ref = reg[c][name]
  BY <1>1
<1>6. Meant(given[c], reg[c], last')
  BY <1>1, <1>2, <1>4, <1>5 DEF Meant
<1>7. \A d \in Clients : Started(d)' <=> Started(d)
  BY <1>1 DEF Started
<1>8. opts'[last'.client] # None
  BY <1>1, <1>5 DEF Started
<1> HIDE DEF alike
<1>9. last'.client \in Clients /\ Meant(given'[last'.client], reg'[last'.client], last')
  BY <1>1, <1>5, <1>6
<1>10. \A d \in Clients :
         /\ OwnedBy(d, heap'[d])
         /\ ~Started(d)' => heap'[d] = <<>> /\ reg'[d] = <<>>
         /\ Started(d)' => ClientOK(d, given'[d], opts'[d], reg'[d], heap')
  BY <1>1, <1>7 DEF ServerInv
<1>11. /\ DOMAIN given' = Clients /\ DOMAIN opts' = Clients /\ DOMAIN reg' = Clients
       /\ HeapOK(heap') /\ CallersMaps(heap')
  BY <1>1 DEF ServerInv
<1> QED
  BY <1>8, <1>9, <1>10, <1>11 DEF ServerInv, Started

\* Every step keeps it so.
LEMMA ServerStep ==
  ASSUME ServerInv, [Next]_vars
  PROVE  ServerInv'
<1>1. CASE UNCHANGED <<heap, client, last>>
  BY <1>1 DEF ServerInv, Started, client
<1>2. ASSUME NEW c \in Clients, Refresh(c) \/ RefreshDone(c)
      PROVE  ServerInv'
  BY <1>1, <1>2 DEF Refresh, RefreshDone
<1>3. ASSUME NEW a \in Asks, GetMCPStatus(a) \/ SetInitial(a) \/ StartRefresh(a) \/ MarkConnecting(a)
      PROVE  ServerInv'
  BY <1>1, <1>3 DEF GetMCPStatus, SetInitial, StartRefresh, MarkConnecting
<1> QED
  BY <1>1, <1>2, <1>3, ServerStart, ServerStartFails, ServerCall DEF Next, vars

(* The maps, the registries and the last call, in every state.             *)
THEOREM ServersInvariant == Spec => []ServerInv
BY ServerInit, ServerStep, PTL DEF Spec

-----------------------------------------------------------------------------
(***************************************************************************)
(* GetMCPStatus.  The refresh flag is one call's, or the goroutine's.      *)
(***************************************************************************)
States == {"configured", "connecting", "ready", "error"}
Marks(c) == {a \in Asks : AskOf[a] = c /\ ask[a] = "mark"}

FlagOK(c) ==
  /\ refresh[c] = "flagged" => \E a \in Asks : Marks(c) = {a}
  /\ refresh[c] # "flagged" => Marks(c) = {}
  /\ refresh[c] # "no" => Started(c)

StatusOK(c) ==
  /\ IsPartial(status[c], ServerNames, States)
  /\ \A s \in DOMAIN status[c] : status[c][s] = "connecting" => refresh[c] = "listing"

StatusInv ==
  /\ DOMAIN status = Clients
  /\ refresh \in [Clients -> {"no", "flagged", "listing", "landed"}]
  /\ ask \in [Asks -> {"idle", "initial", "refresh", "mark"}]
  /\ \A c \in Clients : StatusOK(c) /\ FlagOK(c)
  /\ \A a \in Asks : ask[a] # "idle" => Started(AskOf[a])

\* What a client serves is a map of servers.
LEMMA ServingType ==
  ASSUME ServerInv, NEW c \in Clients, Started(c)
  PROVE  IsPartial(Serving(c), ServerNames, Server)
<1>1. ClientOK(c, given[c], opts[c], reg[c], heap) /\ HeapOK(heap)
  BY DEF ServerInv
<1>2. opts[c] \in Settings
  BY <1>1 DEF ClientOK
<1> DEFINE b == [o |-> opts[c], h |-> heap]
<1>3. Built(b)
  BY <1>1, <1>2 DEF Built
<1> HIDE DEF b
<1>4. IsPartial(Served(c, b), ServerNames, Server)
  BY <1>3, ServedType
<1> QED
  BY <1>4 DEF Serving, b

\* Statuses are of the servers, none of them connecting.
LEMMA StatusesType ==
  ASSUME NEW map, IsPartial(map, ServerNames, Server), NEW up
  PROVE  /\ IsPartial(ServerStatuses(map, up), ServerNames, States)
         /\ \A s \in DOMAIN ServerStatuses(map, up) : ServerStatuses(map, up)[s] # "connecting"
BY DEF IsPartial, ServerStatuses, States

\* The cached statuses and the refreshes are sound at first.
LEMMA StatusInit ==
  ASSUME Init
  PROVE  StatusInv
<1>1. /\ status = [c \in Clients |-> <<>>] /\ refresh = [c \in Clients |-> "no"]
      /\ ask = [a \in Asks |-> "idle"]
  BY DEF Init
<1>2. \A c \in Clients : Marks(c) = {}
  BY <1>1 DEF Marks
<1> QED
  BY <1>1, <1>2 DEF StatusInv, StatusOK, FlagOK, IsPartial

(* A client's status is replaced by one that shows no server connecting.   *)
LEMMA StatusReplaced ==
  ASSUME StatusInv, NEW c \in Clients, NEW new, status' = [status EXCEPT ![c] = new],
         IsPartial(new, ServerNames, States), \A s \in DOMAIN new : new[s] # "connecting",
         NEW f, refresh' = [refresh EXCEPT ![c] = f]
  PROVE  DOMAIN status' = Clients /\ \A d \in Clients : StatusOK(d)'
<1>1. DOMAIN status = Clients /\ DOMAIN refresh = Clients /\ \A d \in Clients : StatusOK(d)
  BY DEF StatusInv
<1>2. /\ DOMAIN status' = Clients /\ status'[c] = new
      /\ \A d \in Clients \ {c} : status'[d] = status[d] /\ refresh'[d] = refresh[d]
  BY <1>1
<1>3. StatusOK(c)'
  BY <1>2 DEF StatusOK
<1>4. \A d \in Clients \ {c} : StatusOK(d)'
  BY <1>1, <1>2 DEF StatusOK
<1> QED
  BY <1>2, <1>3, <1>4

\* A client that starts keeps them so.
LEMMA StatusStart ==
  ASSUME ServerInv, StatusInv, NEW c \in Clients, Start(c)
  PROVE  StatusInv'
<1>1. PICK list \in OptionLists[c], up \in SUBSET ServerNames :
        LET applied == applyAgentOptions(c, list)
            b == Configured(c, applied)
            map == Served(c, b)
        IN  /\ ~Refused(applied.o)
            /\ opts' = [opts EXCEPT ![c] = b.o]
            /\ status' = [status EXCEPT ![c] = ServerStatuses(map, up)]
  BY DEF Start
<1> DEFINE b == Configured(c, applyAgentOptions(c, list))
           new == ServerStatuses(Served(c, b), up)
<1>2. ~Started(c) /\ refresh' = refresh /\ ask' = ask
  BY DEF Start
<1>3. HeapOK(heap) /\ heap[c] = <<>>
  BY <1>2 DEF ServerInv
<1>4. Configures(c, list, b)
  BY <1>1, <1>3, StartsConfigured
<1>5. opts' = [opts EXCEPT ![c] = b.o] /\ status' = [status EXCEPT ![c] = new]
  BY <1>1
<1> HIDE DEF b
<1>6. Built(b) /\ b.o \in Settings
  BY <1>4 DEF Configures, Built
<1>7. IsPartial(new, ServerNames, States) /\ \A s \in DOMAIN new : new[s] # "connecting"
  BY <1>6, ServedType, StatusesType
<1> HIDE DEF new
<1>8. refresh' = [refresh EXCEPT ![c] = refresh[c]]
  BY <1>2 DEF StatusInv
<1>9. DOMAIN status' = Clients /\ \A d \in Clients : StatusOK(d)'
  BY <1>5, <1>7, <1>8, StatusReplaced
<1>10. \A d \in Clients : Started(d) => Started(d)'
  BY <1>2, <1>5 DEF Started, ServerInv
<1>11. \A d \in Clients : FlagOK(d)'
  <2>1. \A d \in Clients : Marks(d)' = Marks(d)
    BY <1>2 DEF Marks
  <2> QED
    BY <1>2, <1>10, <2>1 DEF StatusInv, FlagOK
<1>12. \A a \in Asks : AskOf[a] \in Clients
  BY ToolServersAssumption
<1>13. \A a \in Asks : ask'[a] # "idle" => Started(AskOf[a])'
  BY <1>2, <1>10, <1>12 DEF StatusInv, Started
<1> QED
  BY <1>2, <1>9, <1>11, <1>13 DEF StatusInv, Started

\* A refresh writes the statuses of what is served.
LEMMA StatusRefresh ==
  ASSUME ServerInv, StatusInv, NEW c \in Clients, Refresh(c)
  PROVE  StatusInv'
<1>1. PICK up \in SUBSET {s \in DOMAIN Serving(c) : Serving(c)[s].kind = "external"} :
        status' = [status EXCEPT ![c] = ServerStatuses(Serving(c), up)]
  BY DEF Refresh
<1> DEFINE new == ServerStatuses(Serving(c), up)
<1>2. /\ refresh[c] = "listing" /\ refresh' = [refresh EXCEPT ![c] = "landed"]
      /\ opts' = opts /\ ask' = ask
  BY DEF Refresh, client
<1>3. Started(c)
  BY <1>2 DEF StatusInv, FlagOK
<1>4. IsPartial(new, ServerNames, States) /\ \A s \in DOMAIN new : new[s] # "connecting"
  BY <1>3, ServingType, StatusesType
<1> HIDE DEF new
<1>5. DOMAIN status' = Clients /\ \A d \in Clients : StatusOK(d)'
  BY <1>1, <1>2, <1>4, StatusReplaced DEF new
<1>6. /\ refresh' \in [Clients -> {"no", "flagged", "listing", "landed"}] /\ refresh'[c] = "landed"
      /\ \A d \in Clients \ {c} : refresh'[d] = refresh[d]
  BY <1>2 DEF StatusInv
<1>7. \A d \in Clients : Marks(d)' = Marks(d) /\ (Started(d)' <=> Started(d)) /\ FlagOK(d)
  BY <1>2 DEF Marks, Started, StatusInv
<1>8. FlagOK(c)'
  BY <1>2, <1>3, <1>6, <1>7 DEF FlagOK
<1>9. \A d \in Clients \ {c} : FlagOK(d)'
  BY <1>6, <1>7 DEF FlagOK
<1> QED
  BY <1>2, <1>5, <1>6, <1>8, <1>9 DEF StatusInv, Started

\* A refresh that ends lets go of its flag.
LEMMA StatusRefreshDone ==
  ASSUME StatusInv, NEW c \in Clients, RefreshDone(c)
  PROVE  StatusInv'
<1>1. /\ refresh[c] = "landed" /\ refresh' = [refresh EXCEPT ![c] = "no"]
      /\ opts' = opts /\ ask' = ask /\ status' = status
  BY DEF RefreshDone, client
<1>2. /\ refresh' \in [Clients -> {"no", "flagged", "listing", "landed"}] /\ refresh'[c] = "no"
      /\ \A d \in Clients \ {c} : refresh'[d] = refresh[d]
  BY <1>1 DEF StatusInv
<1>3. \A d \in Clients : /\ Marks(d)' = Marks(d) /\ (Started(d)' <=> Started(d))
                         /\ FlagOK(d) /\ StatusOK(d)
  BY <1>1 DEF Marks, Started, StatusInv
<1>4. FlagOK(c)'
  BY <1>1, <1>2, <1>3 DEF FlagOK
<1>5. StatusOK(c)'
  BY <1>1, <1>3 DEF StatusOK
<1>6. \A d \in Clients \ {c} : FlagOK(d)'
  BY <1>2, <1>3 DEF FlagOK
<1>7. \A d \in Clients \ {c} : StatusOK(d)'
  BY <1>1, <1>2, <1>3 DEF StatusOK
<1> QED
  BY <1>1, <1>2, <1>4, <1>5, <1>6, <1>7 DEF StatusInv, Started

\* A step of a call that takes no part in the refresh.
LEMMA PlainAsk ==
  ASSUME StatusInv, NEW a \in Asks, NEW at \in {"idle", "initial", "refresh"},
         ask[a] # "mark", ask' = [ask EXCEPT ![a] = at], Started(AskOf[a]),
         refresh' = refresh, opts' = opts
  PROVE  /\ ask' \in [Asks -> {"idle", "initial", "refresh", "mark"}]
         /\ \A c \in Clients : FlagOK(c)'
         /\ \A d \in Asks : ask'[d] # "idle" => Started(AskOf[d])'
<1>1. /\ ask' \in [Asks -> {"idle", "initial", "refresh", "mark"}] /\ ask'[a] = at
      /\ \A d \in Asks \ {a} : ask'[d] = ask[d]
  BY DEF StatusInv
<1>2. \A c \in Clients : Marks(c)' = Marks(c)
  BY <1>1 DEF Marks
<1> QED
  BY <1>1, <1>2 DEF StatusInv, FlagOK, Started

\* Asking leaves the statuses as cached.
LEMMA StatusAsk ==
  ASSUME StatusInv, NEW a \in Asks, GetMCPStatus(a)
  PROVE  StatusInv'
<1>1. PICK at \in {"idle", "initial", "refresh"} : ask' = [ask EXCEPT ![a] = at]
  BY DEF GetMCPStatus
<1>2. /\ ask[a] = "idle" /\ Started(AskOf[a]) /\ refresh' = refresh /\ opts' = opts
      /\ status' = status
  BY DEF GetMCPStatus, client
<1>3. /\ ask' \in [Asks -> {"idle", "initial", "refresh", "mark"}]
      /\ \A c \in Clients : FlagOK(c)'
      /\ \A d \in Asks : ask'[d] # "idle" => Started(AskOf[d])'
  BY <1>1, <1>2, PlainAsk
<1>4. \A c \in Clients : StatusOK(c)'
  BY <1>2 DEF StatusInv, StatusOK
<1> QED
  BY <1>2, <1>3, <1>4 DEF StatusInv, Started

\* The first statuses name what is served.
LEMMA StatusInitial ==
  ASSUME ServerInv, StatusInv, NEW a \in Asks, SetInitial(a)
  PROVE  StatusInv'
<1> DEFINE c == AskOf[a]
           new == [s \in DOMAIN Serving(c) |-> "configured"]
<1>1. /\ ask[a] = "initial" /\ ask' = [ask EXCEPT ![a] = "idle"] /\ refresh' = refresh
      /\ opts' = opts /\ status' = [status EXCEPT ![c] = new]
  BY DEF SetInitial, client
<1>2. Started(c) /\ c \in Clients
  BY <1>1, ToolServersAssumption DEF StatusInv
<1>3. IsPartial(new, ServerNames, States) /\ \A s \in DOMAIN new : new[s] # "connecting"
  <2>1. IsPartial(Serving(c), ServerNames, Server)
    BY <1>2, ServingType
  <2> QED
    BY <2>1 DEF IsPartial, States
<1> HIDE DEF new, c
<1>4. refresh' = [refresh EXCEPT ![c] = refresh[c]]
  BY <1>1 DEF StatusInv
<1>5. DOMAIN status' = Clients /\ \A d \in Clients : StatusOK(d)'
  BY <1>1, <1>2, <1>3, <1>4, StatusReplaced
<1>6. /\ ask' \in [Asks -> {"idle", "initial", "refresh", "mark"}]
      /\ \A d \in Clients : FlagOK(d)'
      /\ \A d \in Asks : ask'[d] # "idle" => Started(AskOf[d])'
  BY <1>1, <1>2, PlainAsk DEF c
<1> QED
  BY <1>1, <1>5, <1>6 DEF StatusInv, Started

\* A refresh starts only where none is under way.
LEMMA StatusStartRefresh ==
  ASSUME StatusInv, NEW a \in Asks, StartRefresh(a)
  PROVE  StatusInv'
<1> DEFINE c == AskOf[a]
<1>1. ask[a] = "refresh" /\ opts' = opts /\ status' = status
  BY DEF StartRefresh, client
<1>2. Started(c) /\ c \in Clients
  BY <1>1, ToolServersAssumption DEF StatusInv
<1>3. CASE ask' = [ask EXCEPT ![a] = "idle"] /\ refresh' = refresh
  <2>1. /\ ask' \in [Asks -> {"idle", "initial", "refresh", "mark"}]
        /\ \A d \in Clients : FlagOK(d)'
        /\ \A d \in Asks : ask'[d] # "idle" => Started(AskOf[d])'
    BY <1>1, <1>2, <1>3, PlainAsk
  <2>2. \A d \in Clients : StatusOK(d)'
    BY <1>1, <1>3 DEF StatusInv, StatusOK
  <2> QED
    BY <1>1, <1>3, <2>1, <2>2 DEF StatusInv, Started
<1>4. CASE /\ MayRefresh(c) /\ ask' = [ask EXCEPT ![a] = "mark"]
           /\ refresh' = [refresh EXCEPT ![c] = "flagged"]
  <2>1. refresh[c] = "no" /\ Marks(c) = {}
    BY <1>2, <1>4 DEF MayRefresh, StatusInv, FlagOK
  <2>2. /\ ask' \in [Asks -> {"idle", "initial", "refresh", "mark"}] /\ ask'[a] = "mark"
        /\ \A d \in Asks \ {a} : ask'[d] = ask[d]
    BY <1>4 DEF StatusInv
  <2>3. /\ refresh' \in [Clients -> {"no", "flagged", "listing", "landed"}] /\ refresh'[c] = "flagged"
        /\ \A d \in Clients \ {c} : refresh'[d] = refresh[d]
    BY <1>2, <1>4 DEF StatusInv
  <2>4. Marks(c)' = {a}
    <3>1. \A d \in Asks : AskOf[d] = c => ask[d] # "mark"
      BY <2>1 DEF Marks
    <3> QED
      BY <2>2, <3>1 DEF Marks
  <2>5. \A d \in Clients \ {c} : Marks(d)' = Marks(d)
    BY <1>1, <2>2 DEF Marks
  <2>6. \A d \in Clients : Started(d)' <=> Started(d)
    BY <1>1 DEF Started
  <2>7. FlagOK(c)'
    BY <1>2, <2>3, <2>4, <2>6 DEF FlagOK
  <2>8. \A d \in Clients \ {c} : FlagOK(d)'
    BY <2>3, <2>5, <2>6 DEF FlagOK, StatusInv
  <2>9. \A d \in Clients : StatusOK(d)'
    <3>1. \A d \in Clients : StatusOK(d)
      BY DEF StatusInv
    <3> HIDE DEF c
    <3> QED
      BY <1>1, <2>1, <2>3, <3>1 DEF StatusOK
  <2>10. \A d \in Asks : ask'[d] # "idle" => opts'[AskOf[d]] # None
    BY <1>1, <1>2, <2>2 DEF StatusInv, Started
  <2> QED
    BY <1>1, <2>2, <2>3, <2>7, <2>8, <2>9, <2>10 DEF StatusInv, Started
<1> QED
  BY <1>3, <1>4 DEF StartRefresh

\* Marking all as connecting keeps the servers named.
LEMMA StatusMark ==
  ASSUME StatusInv, NEW a \in Asks, MarkConnecting(a)
  PROVE  StatusInv'
<1> DEFINE c == AskOf[a]
           new == [s \in DOMAIN status[c] |-> "connecting"]
<1>1. /\ ask[a] = "mark" /\ ask' = [ask EXCEPT ![a] = "idle"]
      /\ refresh' = [refresh EXCEPT ![c] = "listing"] /\ opts' = opts
      /\ status' = [status EXCEPT ![c] = new]
  BY DEF MarkConnecting, client
<1>2. Started(c) /\ c \in Clients
  BY <1>1, ToolServersAssumption DEF StatusInv
<1>3. a \in Marks(c)
  BY <1>1 DEF Marks
<1>4. Marks(c) = {a}
  BY <1>2, <1>3 DEF StatusInv, FlagOK
<1>5. IsPartial(new, ServerNames, States)
  BY <1>2 DEF StatusInv, StatusOK, IsPartial, States
<1> HIDE DEF c, new
<1>6. /\ ask' \in [Asks -> {"idle", "initial", "refresh", "mark"}] /\ ask'[a] = "idle"
      /\ \A d \in Asks \ {a} : ask'[d] = ask[d]
  BY <1>1 DEF StatusInv
<1>7. /\ refresh' \in [Clients -> {"no", "flagged", "listing", "landed"}] /\ refresh'[c] = "listing"
      /\ \A d \in Clients \ {c} : refresh'[d] = refresh[d]
  BY <1>1, <1>2 DEF StatusInv
<1>8. /\ DOMAIN status' = Clients /\ status'[c] = new
      /\ \A d \in Clients \ {c} : status'[d] = status[d]
  BY <1>1, <1>2 DEF StatusInv
<1>9. Marks(c)' = {}
  <2>1. \A d \in Asks \ {a} : ~(AskOf[d] = c /\ ask[d] = "mark")
    BY <1>4 DEF Marks
  <2> QED
    BY <1>6, <2>1 DEF Marks
<1>10. \A d \in Clients \ {c} : Marks(d)' = Marks(d)
  BY <1>6 DEF Marks, c
<1>11. \A d \in Clients : Started(d)' <=> Started(d)
  BY <1>1 DEF Started
<1>12. FlagOK(c)'
  BY <1>2, <1>7, <1>9, <1>11 DEF FlagOK
<1>13. \A d \in Clients \ {c} : FlagOK(d)'
  BY <1>7, <1>10, <1>11 DEF FlagOK, StatusInv
<1>14. StatusOK(c)'
  BY <1>5, <1>7, <1>8 DEF StatusOK
<1>15. \A d \in Clients \ {c} : StatusOK(d)'
  BY <1>7, <1>8 DEF StatusOK, StatusInv
<1>16. \A d \in Asks : ask'[d] # "idle" => opts'[AskOf[d]] # None
  BY <1>1, <1>6 DEF StatusInv, Started
<1> QED
  BY <1>6, <1>7, <1>8, <1>12, <1>13, <1>14, <1>15, <1>16 DEF StatusInv, Started

\* Every step keeps the statuses so.
LEMMA StatusStep ==
  ASSUME ServerInv, StatusInv, [Next]_vars
  PROVE  StatusInv'
<1>1. CASE UNCHANGED <<opts, status, refresh, ask>>
  <2>1. \A c \in Clients : Marks(c)' = Marks(c)
    BY <1>1 DEF Marks
  <2>2. \A c \in Clients : StatusOK(c)' /\ FlagOK(c)'
    BY <1>1, <2>1 DEF StatusInv, StatusOK, FlagOK, Started
  <2> QED
    BY <1>1, <2>2 DEF StatusInv, Started
<1>2. ASSUME NEW c \in Clients, StartFails(c)
      PROVE  StatusInv'
  BY <1>1, <1>2 DEF StartFails, client
<1>3. ASSUME NEW c \in Clients, NEW n \in Spoken, NEW inline \in BOOLEAN, Call(c, n, inline)
      PROVE  StatusInv'
  BY <1>1, <1>3 DEF Call, client
<1>4. UNCHANGED vars => StatusInv'
  BY <1>1 DEF vars, client
<1> QED
  BY <1>2, <1>3, <1>4, StatusStart, StatusRefresh, StatusRefreshDone, StatusAsk, StatusInitial,
     StatusStartRefresh, StatusMark DEF Next

(* The status, the flag and the calls, in every state.                     *)
THEOREM StatusInvariant == Spec => []StatusInv
<1>1. ServerInv /\ StatusInv /\ [Next]_vars => StatusInv'
  BY StatusStep
<1> QED
  BY <1>1, StatusInit, ServersInvariant, PTL DEF Spec

-----------------------------------------------------------------------------
(***************************************************************************)
(* The theorems.                                                           *)
(***************************************************************************)

\* The names of the properties, of a list and a registry.
LEMMA ExcludedIs ==
  ASSUME NEW c \in Clients, NEW n
  PROVE  Excluded(c, n) <=> ExcludedBy(given[c], n)
BY DEF Excluded, ExcludedBy, Latest, LatestOf, Given, At

\* Types; the refresh flag is held by one call of GetMCPStatus or by the
\* goroutine (startMCPRefresh).
THEOREM ServersAreTyped == Spec => []TypeOK
<1>1. ServerInv /\ StatusInv => TypeOK
  <2> SUFFICES ASSUME ServerInv, StatusInv PROVE TypeOK
    OBVIOUS
  <2>1. DOMAIN heap = Maps \union Clients /\ \A m \in DOMAIN heap : IsPartial(heap[m], ServerNames, Server)
    BY DEF ServerInv, HeapOK
  <2>2. ASSUME NEW c \in Clients
        PROVE  IsPartial(reg[c], PublicNames, ServerNames \X ToolNames)
    <3>1. CASE ~Started(c)
      BY <3>1 DEF ServerInv, IsPartial
    <3>2. CASE Started(c)
      <4>1. \A n \in DOMAIN reg[c] : reg[c][n] \in ServerNames \X ToolNames /\ NameOf(reg[c][n]) = n
        BY <3>2 DEF ServerInv, ClientOK
      <4>2. \A n \in DOMAIN reg[c] : n \in PublicNames
        BY <4>1 DEF PublicNames
      <4> QED
        BY <4>1, <4>2 DEF IsPartial
    <3> QED
      BY <3>1, <3>2
  <2>3. ASSUME NEW c \in Clients
        PROVE  /\ IsPartial(status[c], ServerNames, States)
               /\ refresh[c] \in {"no", "flagged", "listing", "landed"}
               /\ Cardinality(Marks(c)) = (IF refresh[c] = "flagged" THEN 1 ELSE 0)
    <3>1. CASE refresh[c] = "flagged"
      <4>1. PICK a \in Asks : Marks(c) = {a}
        BY <3>1 DEF StatusInv, FlagOK
      <4>2. Cardinality(Marks(c)) = 1
        BY <4>1, FS_Singleton
      <4> QED
        BY <3>1, <4>2 DEF StatusInv, StatusOK
    <3>2. CASE refresh[c] # "flagged"
      <4>1. Cardinality(Marks(c)) = 0
        BY <3>2, FS_EmptySet DEF StatusInv, FlagOK
      <4> QED
        BY <3>2, <4>1 DEF StatusInv, StatusOK
    <3> QED
      BY <3>1, <3>2
  <2> QED
    BY <2>1, <2>2, <2>3 DEF TypeOK, StatusInv, Marks, States
<1> QED
  BY <1>1, ServersInvariant, StatusInvariant, PTL

\* A server is shown as connecting only while a refresh is on its way that will
\* replace that status (startMCPRefresh, GetMCPStatus).
THEOREM ConnectingMeansListing == Spec => []ConnectingIsRefreshing
<1>1. StatusInv => ConnectingIsRefreshing
  BY DEF StatusInv, StatusOK, ConnectingIsRefreshing
<1> QED
  BY <1>1, StatusInvariant, PTL

\* A started client shows what its options say, whatever their number and
\* order (WithSDKTools, WithOnUserInput, the filters of NewRegistry).
THEOREM OptionsAreShown == Spec => []ShownAsConfigured
<1>1. ASSUME ServerInv, NEW c \in Clients, Started(c)
      PROVE  /\ \A n \in DOMAIN reg[c] : ~Excluded(c, n)
             /\ Given(c, "WithOnUserInput") # {} =>
                  PublicName(Sdk, Stdio) \in DOMAIN reg[c] \/ Excluded(c, PublicName(Sdk, Stdio))
             /\ \A i \in Given(c, "WithSDKTools") : \A t \in given[c][i].tools :
                  \/ PublicName(Sdk, t) \in DOMAIN reg[c]
                  \/ Excluded(c, PublicName(Sdk, t))
                  \/ Given(c, "WithMCPConfig") # {}
                  \/ \E j \in DOMAIN given[c] : j > i /\ given[c][j].is \in
                       {"WithMCPServers", "WithSDKTools", "WithAllowedTools"}
  <2>1. ClientOK(c, given[c], opts[c], reg[c], heap)
    BY <1>1 DEF ServerInv
  <2>2. ShownOK(given[c], reg[c])
    BY <2>1, ClientShows
  <2>3. \A is : Given(c, is) = At(given[c], is)
    BY DEF Given, At
  <2> QED
    BY <2>2, <2>3, ExcludedIs DEF ShownOK
<1>2. ServerInv => ShownAsConfigured
  BY <1>1 DEF ShownAsConfigured
<1> QED
  BY <1>2, ServersInvariant, PTL

\* No client takes another one's tool from its server or changes what runs it,
\* except under "sdk" in a map the callers share (WithSDKTools,
\* ensureUserInputTool).
THEOREM ToolsAreOwn == Spec => []OwnTools
<1>1. ASSUME ServerInv, NEW c \in Clients, Started(c), NEW n \in DOMAIN reg[c]
      PROVE  LET ref == reg[c][n]
                 by == CallTool(Serving(c)[ref[1]], ref[2])
             IN  /\ ref[1] \in DOMAIN Serving(c)
                 /\ Given(c, "WithMCPServers") = {} => by \in {c, "remote"}
                 /\ ref[1] # Sdk => by \in {"caller", "remote"}
  <2>1. PICK r, m, own : r = reg[c] /\ m = opts[c].servers /\ own = heap[m]
    OBVIOUS
  <2>2. PICK ref, s, t, by : ref = r[n] /\ s = ref[1] /\ t = ref[2] /\ by = own[s].tools[t]
    OBVIOUS
  <2>3. OwnedBy(c, heap[c]) /\ CallersMaps(heap) /\ ClientOK(c, given[c], opts[c], reg[c], heap)
    BY <1>1 DEF ServerInv
  <2>4. m \in {None, c} \union Maps /\ Shows(given[c], r, m, own)
    BY <2>1, <2>3, ClientShows
  <2>5. n \in DOMAIN r
    BY <1>1, <2>1
  <2>6. ref \in ServerNames \X ToolNames /\ s \in DOMAIN own /\ ((m \in Maps /\ s = Sdk) \/ by # None)
    BY <2>2, <2>4, <2>5 DEF Shows
  <2>7. m # None /\ c \notin Maps /\ t \in ToolNames
    BY <2>2, <2>4, <2>5, <2>6, ToolServersAssumption DEF Shows
  <2>8. Serving(c) = own
    BY <2>1, <2>7 DEF Serving, Served
  <2>9. CASE m = c
    <3>1. by \in {c, "remote", None} /\ (s # Sdk => by \in {"remote", None})
      BY <2>1, <2>2, <2>3, <2>6, <2>7, <2>9 DEF OwnedBy
    <3>2. by # None
      BY <2>6, <2>7, <2>9
    <3> QED
      BY Zenon, <2>1, <2>2, <2>6, <2>8, <3>1, <3>2 DEF CallTool
  <2>10. CASE m \in Maps
    <3>1. s # Sdk => by \in {"caller", "remote", None}
      <4>1. \A k \in (DOMAIN own) \ {Sdk}, e \in ToolNames : own[k].tools[e] \in {"caller", "remote", None}
        BY <2>1, <2>3, <2>10 DEF CallersMaps
      <4> QED
        BY Zenon, <2>2, <2>6, <2>7, <4>1
    <3>2. Given(c, "WithMCPServers") # {}
      BY <2>4, <2>10 DEF Given, At, Shows
    <3> QED
      BY Zenon, <2>1, <2>2, <2>6, <2>8, <3>1, <3>2 DEF CallTool
  <2> QED
    BY <2>4, <2>7, <2>9, <2>10
<1>2. ServerInv => OwnTools
  BY <1>1 DEF OwnTools
<1> QED
  BY <1>2, ServersInvariant, PTL

\* A call reaches only a tool the client shows, and only under its own name or
\* under one that differs from it in runs of underscores and from no other
\* shown name (Registry.Get, ResolveName).
THEOREM CallsAreMeant == Spec => []RunsWhatWasMeant
<1>1. ServerInv => RunsWhatWasMeant
  <2> SUFFICES ASSUME ServerInv, last # None PROVE RunsWhatWasMeant
    BY DEF RunsWhatWasMeant
  <2>1. last.client \in Clients /\ Meant(given[last.client], reg[last.client], last)
    BY DEF ServerInv
  <2>2. Excluded(last.client, NameOf(last.ref)) <=> ExcludedBy(given[last.client], NameOf(last.ref))
    BY <2>1, ExcludedIs
  <2> QED
    BY <2>1, <2>2 DEF RunsWhatWasMeant, Meant
<1> QED
  BY <1>1, ServersInvariant, PTL
=============================================================================
