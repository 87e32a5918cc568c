\* One unasked loss of the access point before the probe.
SPECIFICATION Spec
CONSTANT MaxDrops = 1
INVARIANT ProbeReconnects
