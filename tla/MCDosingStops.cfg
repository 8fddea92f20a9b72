CONSTANT delayPidsMin = 2
SPECIFICATION PhSpec
INVARIANT DosingNeedsPermission
