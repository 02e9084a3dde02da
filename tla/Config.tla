------------------------------- MODULE Config -------------------------------
(* config.go: Load.  A variable of the environment is Unset (empty counts as
   unset), Invalid (no integer) or an integer; of POOL_PATH and POOL_NAME only
   matters whether they are set. *)
EXTENDS Integers

CONSTANTS
  Unset, Invalid, LoadError,
  Required,           \* POOL_PATH, POOL_NAME
  Default,            \* function from the integer variables to their defaults
  Second,             \* time.Second
  DurationRange       \* the number of values of a time.Duration

SmartInterval == "SMART_POLL_INTERVAL"
FilesInterval == "FILES_REFRESH_INTERVAL"
ZFSInterval == "ZFS_REFRESH_INTERVAL"
Intervals == {SmartInterval, FilesInterval, ZFSInterval}

\* The value appendInt returns: the default, too, when it notes an error.
IntOf(env, key, def) == IF env[key] \in {Unset, Invalid} THEN def ELSE env[key]

\* Wrong: the SMART interval follows the files interval, too.
Secs_Follow(env) ==
  LET files == IntOf(env, FilesInterval, Default[FilesInterval])
  IN  [i \in Intervals |-> IntOf(env, i, files)]

\* ZFS_REFRESH_INTERVAL has the value of FILES_REFRESH_INTERVAL for its default.
Secs(env) ==
  LET files == IntOf(env, FilesInterval, Default[FilesInterval])
  IN  [i \in Intervals |->
        IF i = ZFSInterval THEN IntOf(env, i, files) ELSE IntOf(env, i, Default[i])]

\* Wrong: the product is taken in a narrower type.
Duration_Narrow(secs) ==
  LET half == DurationRange \div 4
  IN  ((secs * Second + half) % (2 * half)) - half

\* A product of int64s wraps around.
Duration(secs) ==
  LET half == DurationRange \div 2
  IN  ((secs * Second + half) % DurationRange) - half

Load(env) ==
  IF (\E key \in Required : env[key] = Unset) \/ (\E key \in DOMAIN env : env[key] = Invalid)
  THEN LoadError
  ELSE [key \in DOMAIN env \ Required |->
         IF key \in Intervals THEN Duration(Secs(env)[key])
         ELSE IntOf(env, key, Default[key])]

\* time.NewTicker, which the pollers call, panics otherwise.
Runnable(cfg) == \A i \in Intervals : cfg[i] > 0

=============================================================================
