-------------------------------- MODULE Build --------------------------------
(***************************************************************************)
(* The image pipeline, ci/main.go: BuildCoredns patches upstream's         *)
(* plugin.cfg, resolves the plugins' modules and builds the binary;        *)
(* Containerize runs it in the image that ships and checks its plugins.    *)
(*                                                                         *)
(* git, sed, go and setcap are external: what they do is taken from how    *)
(* the pipeline uses them and from its comments.  A sed whose pattern      *)
(* matches no line changes nothing and succeeds.                           *)
(***************************************************************************)
EXTENDS Integers, Sequences, Functions

CONSTANTS
    Stocks,         \* the plugin.cfg files upstream's tags may have
    nameWithin      \* for each plugin, the other names that contain its name

before(seq, a, b) == \A i, j \in DOMAIN seq : seq[i] = a /\ seq[j] = b => i < j

VARIABLES
    pluginCfg,      \* the lines of plugin.cfg, by plugin name
    stock,          \* plugin.cfg as cloned
    patches,        \* plugins whose patch is still to come
    replaced,       \* modules with a replace directive in go.mod
    required,       \* modules that go get pinned
    imported,       \* the plugins zplugin.go imports, in directive order
    binary,         \* the plugins in the binary and where each came from
    caps,           \* the capabilities getcap shows
    todoSteps,      \* the commands still to run
    built           \* "running", "failed" or "shipped"

buildVars ==
    <<pluginCfg, stock, patches, replaced, required, imported, binary, caps, todoSteps, built>>

\* replaceStockLine or insertAfterLine, and whether externalModule is set.
pluginCfgPatches ==
    [sni_tls   |-> [anchor |-> "tls",     replaces |-> TRUE,  external |-> FALSE],
     radnr     |-> [anchor |-> "health",  replaces |-> FALSE, external |-> FALSE],
     dynupdate |-> [anchor |-> "hosts",   replaces |-> FALSE, external |-> FALSE],
     cookie    |-> [anchor |-> "tsig",    replaces |-> FALSE, external |-> FALSE],
     probe     |-> [anchor |-> "file",    replaces |-> FALSE, external |-> FALSE],
     rrl       |-> [anchor |-> "rewrite", replaces |-> FALSE, external |-> TRUE]]

Plugins == DOMAIN pluginCfgPatches
Own == {p \in Plugins : ~pluginCfgPatches[p].external}

\* Upstream knows none of the plugins, and lists its own in the order that the
\* table's comments refer to.
ASSUME StockAssumption ==
    \A cfg \in Stocks :
        /\ cfg \in Seq(Range(cfg)) /\ Range(cfg) \cap Plugins = {}
        /\ before(cfg, "tsig", "cache") /\ before(cfg, "tsig", "rewrite")
        /\ before(cfg, "dnssec", "hosts") /\ before(cfg, "hosts", "file")
        /\ before(cfg, "rewrite", "file")

BuildRest ==
    /\ pluginCfg = <<>> /\ stock = <<>> /\ patches = {} /\ replaced = {} /\ required = {}
    /\ imported = <<>> /\ binary = <<>> /\ caps = {} /\ todoSteps = <<>> /\ built = "none"

tidyFirst ==                            \* mutant: the order before the first live run
    <<"tidy", "generate", "get", "build", "setcap", "getcap", "smoke">>

\* BuildCoredns after its loop over the patches, then Containerize.
pipeline == <<"generate", "get", "tidy", "build", "setcap", "getcap", "smoke">>

BuildInit ==
    /\ stock \in Stocks
    /\ pluginCfg = stock
    /\ patches = Plugins
    /\ replaced = {} /\ required = {} /\ imported = <<>> /\ binary = <<>> /\ caps = {}
    /\ todoSteps = pipeline
    /\ built = "running"

\* What s#^anchor$#p# or /^anchor$/a p makes of one line.
patched(line, p) ==
    IF line # pluginCfgPatches[p].anchor THEN <<line>>
    ELSE IF pluginCfgPatches[p].replaces THEN <<p>> ELSE <<line, p>>

\* Sequences, one after the other.
joined(ss) ==
    LET upTo[n \in 0..Len(ss)] == IF n = 0 THEN <<>> ELSE upTo[n - 1] \o ss[n]
    IN  upTo[Len(ss)]

sed(cfg, p) == joined([i \in DOMAIN cfg |-> patched(cfg[i], p)])

\* One turn of the loop over the map, whose order Go leaves open.
Patch(p) ==
    /\ built = "running" /\ p \in patches
    /\ pluginCfg' = sed(pluginCfg, p)
    /\ patches' = patches \ {p}
    /\ replaced' = IF p \in Own THEN replaced \cup {p} ELSE replaced
    /\ UNCHANGED <<stock, required, imported, binary, caps, todoSteps, built>>

Step(name) ==
    /\ built = "running" /\ patches = {}
    /\ todoSteps # <<>> /\ Head(todoSteps) = name
    /\ todoSteps' = Tail(todoSteps)
    /\ UNCHANGED <<stock, patches, pluginCfg>>

\* go generate writes zplugin.go from plugin.cfg.
Generate ==
    /\ Step("generate")
    /\ imported' = pluginCfg
    /\ UNCHANGED <<replaced, required, binary, caps, built>>

\* go get of the external plugins at their pinned versions, sorted.
Get ==
    /\ Step("get")
    /\ required' = Plugins \ Own
    /\ UNCHANGED <<replaced, imported, binary, caps, built>>

\* go mod tidy drops what no source imports.
Tidy ==
    /\ Step("tidy")
    /\ replaced' = replaced \cap Range(imported)
    /\ required' = required \cap Range(imported)
    /\ UNCHANGED <<imported, binary, caps, built>>

\* go build: a module with neither directive comes from wherever it is
\* published, if it is.
Compile ==
    /\ Step("build")
    /\ binary' = [i \in DOMAIN imported |->
                    <<imported[i],
                      IF imported[i] \in replaced THEN "source"
                      ELSE IF imported[i] \in required THEN "pinned"
                      ELSE IF imported[i] \in Plugins THEN "floating"
                      ELSE "upstream">>]
    /\ UNCHANGED <<replaced, required, imported, caps, built>>

wanted == {"cap_net_raw", "cap_net_bind_service"}

\* setcap, which a build sandbox without CAP_SETFCAP silently ignores: what
\* sticks is not in its exit status.
Setcap ==
    /\ Step("setcap")
    /\ caps' \in SUBSET wanted
    /\ UNCHANGED <<replaced, required, imported, binary, built>>

Getcap ==
    /\ Step("getcap")
    /\ built' = IF wanted \subseteq caps THEN built ELSE "failed"
    /\ UNCHANGED <<replaced, required, imported, binary, caps>>

listed(b) == {b[i][1] : i \in DOMAIN b}

\* strings.Contains(out, name): a longer name that contains it will do.
shows(out, p) == out \cap ({p} \cup nameWithin[p]) # {}

\* Containerize: `/coredns -plugins` in the runtime image shows every plugin.
Smoke ==
    /\ Step("smoke")
    /\ built' = IF \A p \in Plugins : shows(listed(binary), p) THEN "shipped" ELSE "failed"
    /\ UNCHANGED <<replaced, required, imported, binary, caps>>

\* Any command may fail, and then nothing is returned.
CommandFails ==
    /\ built = "running"
    /\ built' = "failed"
    /\ UNCHANGED <<pluginCfg, stock, patches, replaced, required, imported, binary, caps, todoSteps>>

BuildNext ==
    \/ \E p \in Plugins : Patch(p)
    \/ Generate \/ Get \/ Tidy \/ Compile \/ Setcap \/ Getcap \/ Smoke
    \/ CommandFails

BuildSpec == BuildInit /\ [][BuildNext]_buildVars

------------------------------------------------------------------------------
\* The directive order upstream's file and the patches P call for, in one pass.
patchedBy(line, P) ==
    LET at == {p \in P : pluginCfgPatches[p].anchor = line}
    IN  IF at = {} THEN <<line>> ELSE patched(line, CHOOSE p \in at : TRUE)

Wired(cfg, P) == joined([i \in DOMAIN cfg |-> patchedBy(cfg[i], P)])

(* An image ships only with every plugin in it whose name no other plugin's*)
(* contains, although a patch that matches no line of upstream's plugin.cfg*)
(* goes unnoticed; our own plugins are built from this repository's source *)
(* and the external one from its pinned version; the binary has the        *)
(* capabilities its listeners need; and the chain has one order, whatever  *)
(* order Go iterated the patches in.  In that order cookie comes before the*)
(* cache and before rrl, dynupdate after dnssec and before file, and probe *)
(* after rrl, as the table's comments ask.                                 *)
ShippedIsWired ==
    built = "shipped" =>
        LET chain == [i \in DOMAIN binary |-> binary[i][1]] IN
        /\ \A p \in Plugins : p \in Range(chain) \/ Range(chain) \cap nameWithin[p] # {}
        /\ chain = Wired(stock, Plugins)
        /\ \A i \in DOMAIN binary :
              binary[i][1] \in Plugins =>
                  binary[i][2] = IF binary[i][1] \in Own THEN "source" ELSE "pinned"
        /\ wanted \subseteq caps
        /\ before(chain, "cookie", "cache") /\ before(chain, "cookie", "rrl")
        /\ before(chain, "dnssec", "dynupdate") /\ before(chain, "dynupdate", "file")
        /\ before(chain, "rrl", "probe")

(* Containerize's comment: it checks that every plugin in pluginCfgPatches *)
(* shows up in the output.                                                 *)
ShippedHasAll == built = "shipped" => Plugins \subseteq listed(binary)

(* The table's comment on dynupdate: its slot is immediately before file.  *)
DynupdateNextToFile ==
    \A i \in DOMAIN imported : imported[i] = "dynupdate" => imported[i + 1] = "file"
=============================================================================
