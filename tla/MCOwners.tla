------------------------------- MODULE MCOwners -------------------------------
(* Small clusters for Owners. *)
EXTENDS Owners, TLC

Pod(name) == [kind |-> "Pod", name |-> name]
Obj(k, name) == [kind |-> k, name |-> name]
Warn(o) == [obj |-> o, warn |-> TRUE]
Owned(o) == <<[ref |-> o, controller |-> TRUE]>>

\* Two Pods of a Deployment.
Web == LET rs == Obj("ReplicaSet", <<"web", "7d9f8b6c5d">>)
           a == Pod(<<"web", "7d9f8b6c5d", "x5k2p">>)
           b == Pod(<<"web", "7d9f8b6c5d", "bx2pq">>)
       IN [faults |-> {"get", "delete"}, events |-> <<Warn(a), Warn(b)>>,
           refs |-> (a :> Owned(rs) @@ b :> Owned(rs)
                     @@ rs :> Owned(Obj("Deployment", <<"web">>))
                     @@ Obj("Deployment", <<"web">>) :> <<>>)]

\* Two Pods of a DaemonSet, whose names fit a Job too.
Agents == LET set == Obj("DaemonSet", <<"agent">>)
              a == Pod(<<"agent", "x5k2p">>)
              b == Pod(<<"agent", "bx2pq">>)
          IN [faults |-> {"get", "delete"}, events |-> <<Warn(a), [obj |-> b, warn |-> FALSE]>>,
              refs |-> (a :> Owned(set) @@ b :> Owned(set) @@ set :> <<>>)]

\* A Pod of a CronJob's run, and one of a DaemonSet: two groups, and a queue with
\* one place.
Mixed == LET job == Obj("Job", <<"import", "29345678">>)
             pod == Pod(<<"import", "29345678", "x5k2p">>)
             a == Pod(<<"agent", "x5k2p">>)
         IN [faults |-> {}, events |-> <<Warn(pod), Warn(a)>>,
             refs |-> (pod :> Owned(job) @@ job :> Owned(Obj("CronJob", <<"import">>))
                       @@ Obj("CronJob", <<"import">>) :> <<>>
                       @@ a :> Owned(Obj("DaemonSet", <<"agent">>))
                       @@ Obj("DaemonSet", <<"agent">>) :> <<>>)]

\* Two Pods of a StatefulSet that a custom resource of the same name owns, after
\* a reference that is no controller.
Db == LET set == Obj("StatefulSet", <<"db">>)
          cr == Obj("Postgres", <<"db">>)
      IN [faults |-> {"discovery"}, events |-> <<Warn(Pod(<<"db", "1">>)), Warn(Pod(<<"db", "0">>))>>,
          refs |-> (Pod(<<"db", "0">>) :> Owned(set) @@ Pod(<<"db", "1">>) :> Owned(set)
                    @@ set :> <<[ref |-> Obj("Secret", <<"db">>), controller |-> FALSE],
                                [ref |-> cr, controller |-> TRUE]>>
                    @@ cr :> <<>>)]

Clusters == {Web, Agents, Mixed, Db}

Kinds == {"Pod", "ReplicaSet", "Deployment", "Job", "CronJob", "DaemonSet", "StatefulSet", "Secret"}
==============================================================================
