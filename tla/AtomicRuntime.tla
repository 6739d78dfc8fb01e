---------------------------- MODULE AtomicRuntime ----------------------------
(***************************************************************************)
(* What a caller of JanetRuntime is promised: one environment that every   *)
(* call reads or changes at a single instant between the moment it is made *)
(* and the moment it returns, as if there were no thread, queue, actor or  *)
(* lazily created VM behind it.  The environment is discarded only when    *)
(* nobody has a reference to the runtime any more.                         *)
(***************************************************************************)
CONSTANTS Client,   \* tasks that may hold a reference and make calls
          Name,     \* names that are bound or looked up
          Value,    \* values that may be bound
          TooDeep,  \* a value nested deeper than maxValueNestingDepth
          Unbound,  \* what an unbound name holds
          CopyError, CompileError, Bound   \* the other answers of a call

VARIABLES refs,    \* clients that have a reference to the runtime
          env,     \* what each name is bound to
          call,    \* each client: "idle", "waiting" for its call, "answered"
          op,      \* the operation each client called last
          answer   \* what the last answered call of each client returned

vars == <<refs, env, call, op, answer>>

Op == [kind : {"define"}, name : Name, value : Value \cup {TooDeep}]
        \cup [kind : {"eval"}, name : Name]
Answer == Value \cup {Bound, CopyError, CompileError}

CoreEnv == [n \in Name |-> Unbound]

\* The environment after operation o, and what o returns.
EnvAfter(o, e) == IF o.kind = "define" /\ o.value # TooDeep
                  THEN [e EXCEPT ![o.name] = o.value]
                  ELSE e
AnswerTo(o, e) == CASE o.kind = "define" /\ o.value = TooDeep -> CopyError
                    [] o.kind = "define" /\ o.value # TooDeep -> Bound
                    [] o.kind = "eval" /\ e[o.name] = Unbound -> CompileError
                    [] OTHER -> e[o.name]

Init == /\ \E c \in Client : refs = {c}
        /\ env = CoreEnv
        /\ call = [c \in Client |-> "idle"]
        /\ op = [c \in Client |-> CHOOSE o \in Op : TRUE]
        /\ answer = [c \in Client |-> Bound]

Share(c) == /\ refs # {}
            /\ refs' = refs \cup {c}
            /\ UNCHANGED <<env, call, op, answer>>

\* The last reference to go may take the environment with it at once.
Drop(c) == /\ c \in refs
           /\ call[c] # "waiting"
           /\ refs' = refs \ {c}
           /\ env' \in {env} \cup (IF refs' = {} THEN {CoreEnv} ELSE {})
           /\ UNCHANGED <<call, op, answer>>

Call(c, o) == /\ c \in refs
              /\ call[c] = "idle"
              /\ call' = [call EXCEPT ![c] = "waiting"]
              /\ op' = [op EXCEPT ![c] = o]
              /\ UNCHANGED <<refs, env, answer>>

TakeEffect(c) == /\ call[c] = "waiting"
                 /\ call' = [call EXCEPT ![c] = "answered"]
                 /\ env' = EnvAfter(op[c], env)
                 /\ answer' = [answer EXCEPT ![c] = AnswerTo(op[c], env)]
                 /\ UNCHANGED <<refs, op>>

Return(c) == /\ call[c] = "answered"
             /\ call' = [call EXCEPT ![c] = "idle"]
             /\ UNCHANGED <<refs, env, op, answer>>

Discard == /\ refs = {}
           /\ env' = CoreEnv
           /\ UNCHANGED <<refs, call, op, answer>>

Next == \/ \E c \in Client : \/ Share(c) \/ Drop(c) \/ TakeEffect(c) \/ Return(c)
                             \/ \E o \in Op : Call(c, o)
        \/ Discard

Spec == Init /\ [][Next]_vars
=============================================================================
