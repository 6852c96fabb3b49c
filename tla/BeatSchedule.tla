---------------------------- MODULE BeatSchedule ----------------------------
(* CELERY_BEAT_SCHEDULE: what scoped_schedule makes of the entries in the      *)
(* settings (commons/platform/beat.py), the names an entry has at run time     *)
(* (tenants/celery/dispatch.py), and the system checks a deployment has to     *)
(* pass (tenants/checks/beat.py).                                             *)
EXTENDS Integers

CONSTANTS
  Digest,            \* argsig's digest of a list of task args; two may collide
  TZ_GRACE_SECONDS, FANOUT_PERIOD,
  None

FANOUT_TASK_NAME == "tenants.tasks.fanout_dispatch"

\* No args give the empty signature, which is no digest.
argsig(args) == IF args = None THEN None ELSE Digest[args]

\* _classify_schedule refuses anything else while the settings load.
Classified(e) == e.kind \in {"calendar", "interval"}

\* An entry for the tenants is replaced by the dispatcher: a crontab becomes a
\* calendar entry ticking at the fan-out period, an interval ticks at its own.
\* One for public stays as it is, and so does a dict that was never wrapped
\* (scope None).
scoped_schedule(e) ==
  LET fan == e.scope = "tenants"
      cron == e.kind = "calendar"
  IN [scope     |-> e.scope,
      task      |-> IF fan THEN FANOUT_TASK_NAME ELSE e.task,
      task_name |-> e.task,
      task_args |-> e.args,
      options   |-> e.options,
      cron      |-> fan /\ cron,
      grace     |-> IF cron THEN e.grace ELSE None,
      period    |-> IF ~cron THEN e.every
                    ELSE IF e.period # None THEN e.period ELSE FANOUT_PERIOD]

\* _wave_lock: the key of the overlap lock.  TaskRun rows have it too, beside the
\* schema.
LockKey(w) == <<w.task_name, argsig(w.task_args)>>

GraceOf(w) == IF w.grace # None THEN w.grace ELSE TZ_GRACE_SECONDS

---------------------------------------------------------------------------
(* The checks, of the wrapped entries *)

\* Mutant: the check is not registered.
E002Off(w) == TRUE

\* beat_grace_ge_fanout_period: grace covers a tick.
E002(w) == w.task = FANOUT_TASK_NAME /\ w.cron => GraceOf(w) >= w.period

\* beat_entries_wrapped: every entry says where it runs.
E003(w) == w.scope # None

\* Mutant: the check is not registered.
E006Off(s) == TRUE

\* fanout_entries_are_unique.
E006(s) ==
  \A m, n \in {i \in DOMAIN s : s[i].task = FANOUT_TASK_NAME} :
    LockKey(s[m]) = LockKey(s[n]) => m = n

\* fanout_options_do_not_collide: sub_dispatch passes these itself.
SEND_TASK_RESERVED == {"args", "kwargs", "name"}
E009(w) == w.scope = "tenants" => w.options \cap SEND_TASK_RESERVED = {}

\* What manage.py check lets through.
Deployable(s) ==
  /\ E006(s)
  /\ \A n \in DOMAIN s : E002(s[n]) /\ E003(s[n]) /\ E009(s[n])
=============================================================================
