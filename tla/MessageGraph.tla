---------------------------- MODULE MessageGraph ----------------------------
(***************************************************************************)
(* message_graph.rs: the graph of the messages that hold another by a      *)
(* field that is not repeated, and the questions the generator asks of it. *)
(***************************************************************************)
EXTENDS Descriptors

EmptyGraph == [index |-> {}, edges |-> {}, messages |-> <<>>]

(* The fields that make an edge: a group is not one of them. *)
Nests(field) == field.type = "message" /\ field.label # "repeated"

(* add_message goes down into the nested messages, those of map entries    *)
(* and groups as well: the nodes of each depth, down to the first that has *)
(* none.                                                                   *)
AddMessages(messages, scope) ==
  LET nodes(list, outer) == {[name |-> Append(outer, m.name), message |-> m] : m \in ToSet(list)}
      at[depth \in Nat] ==
        IF depth = 0 THEN nodes(messages, scope)
        ELSE UNION {nodes(n.message.nested, n.name) : n \in at[depth - 1]}
      from[depth \in Nat] == IF at[depth] = {} THEN {} ELSE at[depth] \cup from[depth + 1]
  IN from[0]

NewGraph(files) ==
  LET nodes == UNION {AddMessages(file.messages, file.package) : file \in ToSet(files)}
      names == {n.name : n \in nodes}
      edges == UNION {{<<n.name, f.typeName>> : f \in {g \in ToSet(n.message.fields) : Nests(g)}} :
                        n \in nodes}
  IN [index |-> names \cup {e[2] : e \in edges}, edges |-> edges,
      messages |-> [name \in names |-> (CHOOSE n \in nodes : n.name = name).message]]

ReachableFrom(graph, names) ==
  LET ends == names \cup {e[2] : e \in graph.edges}
      reach[so \in SUBSET ends] ==
        LET further == so \cup {e[2] : e \in {d \in graph.edges : d[1] \in so}}
        IN IF further = so THEN so ELSE reach[further]
  IN reach[names]

IsNested(graph, outer, inner) ==
  /\ {outer, inner} \subseteq graph.index
  /\ inner \in ReachableFrom(graph, {outer})
=============================================================================
