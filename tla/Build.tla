------------------------------- MODULE Build -------------------------------
(***************************************************************************)
(* Config::compile_fds: the tables are built from the request, the files   *)
(* are generated one after the other into the buffers of their modules,    *)
(* and the include file is written over the modules that are left.         *)
(***************************************************************************)
EXTENDS CodeGenerator, Includes

CONSTANTS
  Requests,   \* the configurations with the files given to them
  Messages    \* the messages in those files, nested ones as well

(* What protoc hands over: descriptors of the shapes above, whose packages *)
(* are modules with names.                                                 *)
IsList(s) == Len(s) \in Nat /\ DOMAIN s = 1..Len(s)
AreEnums(enums) ==
  /\ IsList(enums)
  /\ \A enum \in ToSet(enums) : DOMAIN enum = {"name", "values"} /\ IsList(enum.values)
AreServices(services) ==
  /\ IsList(services)
  /\ \A service \in ToSet(services) :
       DOMAIN service = {"name", "methods"} /\ IsList(service.methods)

ASSUME MessagesAssumption ==
  \A m \in Messages :
    /\ DOMAIN m = {"name", "fields", "nested", "enums", "oneofs", "mapEntry"}
    /\ m.name \in STRING /\ m.nested \in Seq(Messages)
    /\ IsList(m.fields) /\ IsList(m.oneofs) /\ AreEnums(m.enums)

ASSUME RequestsAssumption ==
  \A request \in Requests :
    /\ IsList(request.files)
    /\ \A f \in ToSet(request.files) :
         /\ DOMAIN f = {"package", "syntax", "messages", "enums", "services"}
         /\ f.package \in Seq(STRING) /\ Module(f) \in Seq(Names)
         /\ f.messages \in Seq(Messages) /\ AreEnums(f.enums) /\ AreServices(f.services)

VARIABLES
  modules,    \* the keys of the map from modules to buffers
  packages    \* the modules of the packages that have services
vars == <<genVars, modules, packages, includeVars>>

Init ==
  /\ \E request \in Requests : config = request.config /\ files = request.files
  /\ context = [graph |-> EmptyGraph, externs |-> <<>>]
  /\ file = 1 /\ frames = <<>> /\ path = <<>> /\ typePath = <<>>
  /\ withLifetime = {} /\ open = <<>> /\ out = {}
  /\ modules = {} /\ packages = {} /\ status = "start"
  /\ NothingIncluded

(* The graph is of all the files, before the first one is generated.       *)
Prepare ==
  /\ status = "start"
  /\ LET externs == NewExternPaths(config.externs, config.types)
     IN \/ /\ externs.failed
           /\ status' = "error" /\ UNCHANGED context
        \/ /\ ~externs.failed
           /\ context' = [graph |-> NewGraph(files), externs |-> externs.paths]
           /\ status' = "generating"
  /\ UNCHANGED <<config, files, file, frames, path, typePath, withLifetime, open, out,
                 modules, packages, includeVars>>

GenerateStep == Walk /\ UNCHANGED <<modules, packages, includeVars>>

(* A buffer is dropped when nothing is in it, whoever put it there.        *)
KeptAlways(module) == modules \cup {module}
Kept(module) ==
  IF \E item \in out : item.unit = module THEN modules \cup {module} ELSE modules \ {module}

ServedAlways(module) == packages \cup {module}
Served(module) == IF File.services = <<>> THEN packages ELSE packages \cup {module}

EndFile ==
  /\ status = "generating" /\ frames # <<>> /\ Top.stage = "end"
  /\ modules' = Kept(Module(File)) /\ packages' = Served(Module(File))
  /\ frames' = <<>> /\ file' = file + 1
  /\ UNCHANGED <<config, files, context, path, typePath, withLifetime, open, out, status,
                 includeVars>>

(* finalize_package is called with the buffer of each package.             *)
Finalize ==
  /\ status = "generating" /\ frames = <<>> /\ file > Len(files)
  /\ \/ /\ config.services # "none" /\ ~(packages \subseteq modules)
        /\ status' = "panic" /\ UNCHANGED pending
     \/ /\ config.services = "none" \/ packages \subseteq modules
        /\ \/ ~config.include /\ status' = "done" /\ UNCHANGED pending
           \/ /\ config.include /\ status' = "including"
              /\ pending' \in {order \in [1..Cardinality(modules) -> modules] : Sorted(order)}
  /\ UNCHANGED <<config, files, context, file, frames, path, typePath, withLifetime, open, out,
                 modules, packages, stack, opened, included>>

IncludeStep == status = "including" /\ WriteIncludes /\ UNCHANGED <<genVars, modules, packages>>

Finish ==
  /\ status = "including" /\ pending = <<>> /\ stack = <<>>
  /\ status' = "done"
  /\ UNCHANGED <<config, files, context, file, frames, path, typePath, withLifetime, open, out,
                 modules, packages, includeVars>>

Next == Prepare \/ GenerateStep \/ EndFile \/ Finalize \/ IncludeStep \/ Finish

(* The build is one call, which nothing else holds up.                     *)
Spec == Init /\ [][Next]_vars /\ WF_vars(Next)

(***************************************************************************)
(* Properties.                                                             *)
(***************************************************************************)
\* The comments a declaration or a field is given are those of its own element of the
\* .proto file, although the indices are counted over partitioned lists: map entries are
\* left out of the nested messages, aliases out of the values, oneof fields out of the
\* fields.
DocsComeFromTheirElement ==
  \A item \in out : item.doc # <<>> => ElementAt(files[item.file], item.doc) = item.proto

\* The modules are those something was written to, and the include file puts the text of
\* each of them where its name says.
IncludesMirrorModules ==
  status = "done" =>
    /\ modules = {item.unit : item \in out}
    /\ included = IF config.include THEN {[module |-> m, at |-> m] : m \in modules} ELSE {}
=============================================================================
