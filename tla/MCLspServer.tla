---------------------------- MODULE MCLspServer ----------------------------
(* Two documents, a file they include, and the interface of a dependency.    *)
EXTENDS LspServer, TLC

CONSTANTS main, other, header, iface

MCFiles == {main, other, header, iface}

Text(err, uses) == [err |-> err, uses |-> uses]
Plain == {Text("none", {}), Text("type", {})}
Including(uses) == {Text("none", {}), Text("none", uses), Text("syntax", uses)}

Saved(headers, ifaces) ==
    [f \in Files |-> CASE f = header -> headers
                       [] f = iface  -> ifaces
                       [] OTHER      -> {}]

Headers == {Text("none", {}), Text("type", {}), NoText}

\* A document with a character outside ASCII where no token has one, and an
\* included file that may have a string without an end; the same with another
\* document that includes the file.
GarbledWorlds ==
    LET garbled == {Text("char", {header}), Text("none", {header}),
                    Text("type", {})}
        situation(texts) ==
            [texts |-> texts, rooted |-> {}, offline |-> FALSE,
             saved |-> Saved({Text("none", {}), Text("string", {})}, {}),
             asks |-> {}, notes |-> {}]
    IN  {situation(main :> garbled),
         situation(main :> garbled
                 @@ other :> {Text("none", {header}), Text("type", {})})}

\* header  one document and the file it includes
\* shared  two documents that include it
\* opened  a document that includes it, and the file itself open
\* package one document of a package that includes a dependency's interface,
\*         with every kind of request
\* stops   the end of a session
MCWorlds ==
    {[texts |-> main :> Including({header}), saved |-> Saved(Headers, {}),
      rooted |-> {}, offline |-> FALSE, asks |-> {"complete"}, notes |-> {}],
     [texts |-> (main :> Including({header}) @@ other :> Including({header})),
      saved |-> Saved(Headers, {}), rooted |-> {}, offline |-> FALSE,
      asks |-> {}, notes |-> {}],
     [texts |-> (main :> Including({header}) @@ header :> Plain),
      saved |-> Saved(Headers, {}), rooted |-> {}, offline |-> FALSE,
      asks |-> {}, notes |-> {}],
     [texts |-> main :> Including({iface}),
      saved |-> Saved({}, {Text("none", {}), NoText}), rooted |-> {main},
      offline |-> TRUE, asks |-> {"inspect", "complete"},
      notes |-> {"watched"}],
     [texts |-> main :> Plain, saved |-> Saved({}, {}), rooted |-> {main},
      offline |-> FALSE, asks |-> Requests, notes |-> {"ignored", "exit"}]}
    \cup GarbledWorlds
=============================================================================
